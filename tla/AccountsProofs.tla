----------------------------- MODULE AccountsProofs -----------------------------
(***************************************************************************)
(* Theorems about Accounts and about the throttle of its logins, for every *)
(* instance their assumptions allow.                                       *)
(*                                                                         *)
(* Neither TypeOK nor Governed is inductive alone.  Found(r) writes to the *)
(* id after the last, which is an id only because the table is still       *)
(* empty, and it is still empty because r holds the write lock since it    *)
(* asked; and an update of account 1 leaves it an admin only because the   *)
(* copy being saved differs from the row in something else.  InFlight says *)
(* what each request may rely on.                                          *)
(*                                                                         *)
(* The second part shows that Accounts implements AccountStore, writes     *)
(* only what was asked for, and leaves no marked session behind a change   *)
(* of its password.  A request writes long after it read.  Carries says    *)
(* how what it is about to write differs from what it read; FreshInv that  *)
(* a secret it made is nowhere else until it is written, so a comparison   *)
(* of hashes cannot be fooled by a value that was replaced and came back.  *)
(* SessionInv rests on both: the only way an account gets another hash is  *)
(* a secret nobody else holds, so every session marked with an earlier one *)
(* stays behind.  The last part is about LoginThrottle.                    *)
(***************************************************************************)
EXTENDS Accounts, LoginThrottle, FiniteSetTheorems, TLAPS

\* A row is about to be saved over the one with id q.id.
Saves(q) == q.pc \in {"clash", "write"} /\ q.ask.op # "register"

\* A registration that came after the first one.
Later(q) ==
    \/ q.pc = "view" /\ ~q.first
    \/ q.pc \in {"clash", "write"} /\ q.ask.op = "register"

\* What request r, being at q, carries and knows of the table u and the lock l.
InFlight(q, r, u, l) ==
    /\ q.pc \notin {"idle", "respond"} => q.ask \in Asks
    /\ q.pc = "view" /\ q.me # None => q.sess.uid # 0
    /\ q.pc \in {"found", "clash", "write", "login"} => q.row \in Row
    /\ Saves(q) \/ q.pc = "login" => q.id \in Ids /\ q.stored \in Row
    /\ Saves(q) /\ q.id = 1 => q.row.role = q.stored.role
    /\ q.pc = "found" => /\ l = r /\ IsFirstUser(u)
                         /\ q.ask.op = "register" /\ q.row.role = "admin"
    /\ Later(q) => ~IsFirstUser(u)

\* The inductive invariant.
IInv ==
    /\ TypeOK
    /\ Governed
    /\ IsFirstUser(user) \/ seq \in Ids
    /\ \A r \in Requests : InFlight(req[r], r, user, lock)

--------------------------------------------------------------------------------
(* Facts about the data.                                                      *)

\* What a request asks for has the fields its view reads.
LEMMA AskFields ==
    ASSUME NEW a \in Asks
    PROVE  /\ a.op = "register" => /\ a.name \in Names /\ a.pw \in Passwords
                                   /\ a.setup \in Settings
           /\ a.op = "login"  => a.name \in Names /\ a.pw \in Passwords
           /\ a.op = "rename" => a.name \in Names
           /\ a.op = "passwd" => a.new \in Passwords
           /\ a.op \in {"role", "delete"} => a.id \in Ids
  BY AsksAssumption

\* None is neither a row, nor a hash, nor settings.
LEMMA NoneApart == None \notin Row /\ None \notin Hash /\ None \notin Settings
  BY NoneAssumption

LEMMA OneIsAnId == 1 \in Ids
  BY MaxIdAssumption DEF Ids

\* Empty is what it says, entry by entry.
LEMMA Emptiness ==
    ASSUME NEW u
    PROVE  IsFirstUser(u) <=> \A i \in Ids : u[i] = None
  BY DEF IsFirstUser, Held

\* The secrets of a table are numbers.
LEMMA SecretsAreNumbers ==
    ASSUME NEW u \in Table
    PROVE  Secrets(u) \in SUBSET Nat
  BY NoneApart DEF Secrets, Held, Table, Row, Hash

LEMMA IdleTyped == Idle \in Request /\ NoSession \in Session
  BY DEF Idle, Request, NoSession, Session

LEMMA FinishTyped ==
    ASSUME NEW q \in Request
    PROVE  Finish(q) \in Request /\ Finish(q).pc = "respond"
  <1>1. /\ q.by \in Browsers \cup {None} /\ q.cookie \in Session
        /\ q.sess \in Session /\ q.me \in Row \cup {None} /\ q.era \in Nat
    BY DEF Request
  <1>2. Finish(q) \in Request
    BY <1>1, IdleTyped, ZenonT(30) DEF Finish, Request
  <1> QED
    BY <1>2 DEF Finish, Idle

\* A request at its end relies on nothing.
LEMMA EndedInFlight ==
    ASSUME NEW q, NEW r, NEW u, NEW l, q.pc \in {"idle", "respond"}
    PROVE  InFlight(q, r, u, l)
  BY DEF InFlight, Saves, Later

--------------------------------------------------------------------------------
(* A step of one request keeps the invariant if what it leaves behind is in   *)
(* order: three kinds of steps, and then the actions one by one.              *)

\* The step of r disturbs no other request.
LEMMA OneMoves ==
    ASSUME IInv, NEW r \in Requests, NEW q \in Request,
           req' = [req EXCEPT ![r] = q],
           InFlight(q, r, user', lock'),
           IsFirstUser(user') => IsFirstUser(user),
           \A s \in Requests \ {r} : lock = s => lock' = s /\ user' = user
    PROVE  /\ req' \in [Requests -> Request]
           /\ \A s \in Requests : InFlight(req'[s], s, user', lock')
  <1>1. req \in [Requests -> Request]
    BY DEF IInv, TypeOK
  <1>2. ASSUME NEW s \in Requests, s # r
        PROVE  InFlight(req[s], s, user', lock')
    <2>1. InFlight(req[s], s, user, lock)
      BY DEF IInv
    <2> QED
      BY <1>2, <2>1 DEF InFlight
  <1> QED
    BY <1>1, <1>2

\* Nothing is written.
LEMMA Reads ==
    ASSUME IInv, NEW r \in Requests, NEW q \in Request,
           req' = [req EXCEPT ![r] = q],
           InFlight(q, r, user', lock'),
           UNCHANGED tables,
           lock' \in Requests \cup {None}, lock' # lock => lock \in {None, r},
           jar' \in [Browsers -> Session], minted' \in Nat, started' \in Nat
    PROVE  IInv'
  <1>1. \A s \in Requests \ {r} : lock = s => lock' = s /\ user' = user
    BY RequestsAssumption DEF tables
  <1>2. /\ req' \in [Requests -> Request]
        /\ \A s \in Requests : InFlight(req'[s], s, user', lock')
    BY <1>1, OneMoves DEF tables
  <1>3. TypeOK'
    BY <1>2 DEF IInv, TypeOK, tables
  <1>4. Governed' /\ (IsFirstUser(user) \/ seq \in Ids)'
    BY DEF IInv, Governed, tables
  <1> QED
    BY <1>2, <1>3, <1>4 DEF IInv

\* An account is written, and the request is done.
LEMMA Writes ==
    ASSUME IInv, NEW r \in Requests, NEW q \in Request,
           req' = [req EXCEPT ![r] = q], q.pc = "respond",
           lock = None, lock' \in {None, r}, UNCHANGED <<server, jar, minted, started>>,
           user' \in Table, spent' = spent \cup Secrets(user'),
           era' \in [Ids -> Nat],
           seq' \in 0..MaxId, seq' >= seq,
           IsFirstUser(user) => user' = user /\ seq' = seq,
           ~IsFirstUser(user) => user'[1] # None /\ user'[1].role = "admin"
    PROVE  IInv'
  <1>1. InFlight(q, r, user', lock')
    BY EndedInFlight
  <1>2. \A s \in Requests \ {r} : lock = s => lock' = s /\ user' = user
    BY RequestsAssumption
  <1>3. IsFirstUser(user') <=> IsFirstUser(user)
    BY Emptiness, OneIsAnId
  <1>4. /\ req' \in [Requests -> Request]
        /\ \A s \in Requests : InFlight(req'[s], s, user', lock')
    BY <1>1, <1>2, <1>3, OneMoves
  <1>5. TypeOK'
    BY <1>4, SecretsAreNumbers DEF IInv, TypeOK
  <1>6. Governed'
    BY <1>3 DEF IInv, Governed
  <1>7. (IsFirstUser(user) \/ seq \in Ids)'
    BY <1>3 DEF IInv, TypeOK, Ids
  <1> QED
    BY <1>4, <1>5, <1>6, <1>7 DEF IInv

\* A request whose view may go on asks for what that view does.
LEMMA Entered ==
    ASSUME IInv, NEW r \in Requests, NEW op, Enters(r, op)
    PROVE  /\ req[r] \in Request /\ req[r].pc = "view"
           /\ req[r].ask \in Asks /\ req[r].ask.op = op /\ May(req[r])
  BY DEF IInv, TypeOK, Enters, InFlight

\* The view of a request in flight has no copy of a row that is None but me.
LEMMA Typed ==
    ASSUME IInv, NEW r \in Requests
    PROVE  /\ req[r] \in Request /\ InFlight(req[r], r, user, lock)
           /\ Finish(req[r]) \in Request
           /\ \A u, l : InFlight(Finish(req[r]), r, u, l)
  BY FinishTyped, EndedInFlight DEF IInv, TypeOK

LEMMA StartKeeps ==
    ASSUME IInv, NEW r \in Requests, NEW b \in Browsers, NEW a \in Asks, Start(r, b, a)
    PROVE  IInv'
  <1> DEFINE cookie == jar[b]
             row    == IF cookie.uid = 0 THEN None ELSE user[cookie.uid]
             sess   == IF Ends(cookie, row) THEN NoSession ELSE cookie
             me     == IF Ends(cookie, row) THEN None ELSE row
             e      == IF row = None THEN 0 ELSE era[cookie.uid]
             q      == [Idle EXCEPT !.pc = "view", !.ask = a, !.by = b, !.cookie = cookie,
                                    !.first = IsFirstUser(user), !.sess = sess,
                                    !.me = me, !.era = e]
  <1>1. cookie \in Session
    BY DEF IInv, TypeOK
  <1>2. row \in Row \cup {None} /\ e \in Nat
    BY <1>1 DEF IInv, TypeOK, Session, Table
  <1>3. sess \in Session /\ me \in Row \cup {None}
    BY <1>1, <1>2, IdleTyped
  <1>4. IsFirstUser(user) \in BOOLEAN /\ (me # None => sess.uid # 0)
    BY DEF IsFirstUser
  <1> HIDE DEF cookie, row, sess, me, e
  <1>5. q \in Request
    BY <1>1, <1>2, <1>3, <1>4, IdleTyped, ZenonT(60) DEF Request
  <1>6. /\ q.pc = "view" /\ q.ask = a /\ q.first = IsFirstUser(user)
        /\ q.me = me /\ q.sess = sess
    BY DEF Idle
  <1>7. req' = [req EXCEPT ![r] = q]
    BY DEF Start, cookie, row, sess, me, e
  <1> HIDE DEF q
  <1>8. InFlight(q, r, user', lock')
    BY <1>4, <1>6 DEF InFlight, Saves, Later, Start, tables
  <1>9. started' \in Nat /\ minted' = minted /\ jar' = jar /\ lock' = lock
    BY DEF Start, IInv, TypeOK
  <1> QED
    BY <1>5, <1>7, <1>8, <1>9, Reads DEF Start, IInv, TypeOK

LEMMA AnswerKeeps ==
    ASSUME IInv, NEW r \in Requests,
           Done(r) /\ UNCHANGED <<tables, jar, minted, started>>,
           lock' = lock \/ (lock = None /\ lock' = r)
    PROVE  IInv'
  BY Typed, Reads DEF Done, IInv, TypeOK

LEMMA RegisterKeeps ==
    ASSUME IInv, NEW r \in Requests, Register(r)
    PROVE  IInv'
  <1> DEFINE row == NewRow(req[r].ask, "pending")
             q   == [req[r] EXCEPT !.pc = "clash", !.row = row]
  <1>1. /\ req[r] \in Request /\ req[r].ask \in Asks /\ req[r].ask.op = "register"
        /\ req[r].pc = "view" /\ ~req[r].first
    BY Entered DEF Register
  <1>2. row \in Row
    BY <1>1, AskFields DEF NewRow, Row, Hash, Roles, IInv, TypeOK
  <1> HIDE DEF row
  <1>3. q \in Request
    BY <1>1, <1>2 DEF Request
  <1>4. /\ q.pc = "clash" /\ q.row = row /\ q.ask = req[r].ask
    BY <1>1 DEF Request
  <1>5. req' = [req EXCEPT ![r] = q]
    BY <1>1 DEF Register, row, IInv, TypeOK, Request
  <1> HIDE DEF q
  <1>6. ~IsFirstUser(user)
    BY <1>1, Typed DEF InFlight, Later
  <1>7. InFlight(q, r, user', lock')
    BY <1>1, <1>2, <1>4, <1>6 DEF InFlight, Saves, Later, Register, tables
  <1>8. /\ minted' \in Nat /\ started' \in Nat /\ lock' = lock
        /\ lock' \in Requests \cup {None} /\ jar' \in [Browsers -> Session]
        /\ UNCHANGED tables
    BY DEF Register, IInv, TypeOK
  <1> QED
    BY <1>3, <1>5, <1>7, <1>8, Reads

LEMMA RegisterFirstKeeps ==
    ASSUME IInv, NEW r \in Requests, RegisterFirst(r)
    PROVE  IInv'
  <1>1. /\ req[r] \in Request /\ req[r].ask \in Asks /\ req[r].ask.op = "register"
        /\ req[r].pc = "view"
    BY Entered DEF RegisterFirst
  <1>2. /\ lock = None /\ lock' = r /\ minted' \in Nat
        /\ UNCHANGED <<tables, jar, started>>
    BY DEF RegisterFirst, IInv, TypeOK
  <1>3. CASE ~IsFirstUser(user)
    BY <1>2, <1>3, Typed, Reads DEF RegisterFirst, Done, IInv, TypeOK
  <1>4. CASE IsFirstUser(user)
    <2> DEFINE row == NewRow(req[r].ask, "admin")
               q   == [req[r] EXCEPT !.pc = "found", !.row = row]
    <2>1. row \in Row /\ row.role = "admin"
      BY <1>1, AskFields DEF NewRow, Row, Hash, Roles, IInv, TypeOK
    <2> HIDE DEF row
    <2>2. q \in Request
      BY <1>1, <2>1 DEF Request
    <2>3. q.pc = "found" /\ q.row = row /\ q.ask = req[r].ask
      BY <1>1 DEF Request
    <2>4. req' = [req EXCEPT ![r] = q]
      BY <1>1, <1>4 DEF RegisterFirst, row, IInv, TypeOK, Request
    <2> HIDE DEF q
    <2>5. InFlight(q, r, user', lock')
      BY <1>1, <1>2, <1>4, <2>1, <2>3 DEF InFlight, Saves, Later, tables
    <2> QED
      BY <1>2, <2>2, <2>4, <2>5, Reads DEF IInv, TypeOK
  <1> QED
    BY <1>3, <1>4

LEMMA FoundKeeps ==
    ASSUME IInv, NEW r \in Requests, Found(r)
    PROVE  IInv'
  <1> DEFINE q == Finish(req[r])
  <1>1. /\ req[r].pc = "found" /\ lock = r /\ lock' = None
        /\ user' = [user EXCEPT ![seq + 1] = req[r].row]
        /\ spent' = spent \cup Secrets(user') /\ seq' = seq + 1
        /\ server' = req[r].ask.setup /\ req' = [req EXCEPT ![r] = q]
        /\ UNCHANGED <<jar, minted, started, era>>
    BY DEF Found, Store, Done, IInv, TypeOK
  <1>2. /\ req[r].ask \in Asks /\ req[r].ask.op = "register"
        /\ req[r].row \in Row /\ req[r].row.role = "admin" /\ IsFirstUser(user)
    BY <1>1, Typed DEF InFlight
  <1>3. seq = 0 /\ seq + 1 = 1
    BY <1>2 DEF IInv, Governed
  <1>4. user' \in Table /\ user'[1] = req[r].row
    BY <1>1, <1>2, <1>3, OneIsAnId DEF IInv, TypeOK, Table
  <1>5. user'[1] # None /\ ~IsFirstUser(user')
    BY <1>2, <1>4, NoneApart, Emptiness, OneIsAnId
  <1>6. server' \in Settings /\ server' # None
    BY <1>1, <1>2, AskFields, NoneApart
  <1>7. q \in Request /\ InFlight(q, r, user', lock')
    BY Typed
  <1> HIDE DEF q
  <1>8. \A s \in Requests \ {r} : lock = s => lock' = s /\ user' = user
    BY <1>1
  <1>9. /\ req' \in [Requests -> Request]
        /\ \A s \in Requests : InFlight(req'[s], s, user', lock')
    BY <1>1, <1>5, <1>7, <1>8, OneMoves
  <1>10. seq' \in Ids /\ seq' \in 0..MaxId
    BY <1>1, <1>3, OneIsAnId DEF Ids
  <1>11. TypeOK'
    BY <1>1, <1>4, <1>6, <1>9, <1>10, SecretsAreNumbers DEF IInv, TypeOK
  <1>12. Governed'
    BY <1>2, <1>4, <1>5, <1>6 DEF Governed
  <1> QED
    BY <1>9, <1>10, <1>11, <1>12 DEF IInv

LEMMA InsertKeeps ==
    ASSUME IInv, NEW r \in Requests, Insert(r)
    PROVE  IInv'
  <1> DEFINE q == Finish(req[r])
             i == seq + 1
  <1>1. /\ req[r].pc = "write" /\ req[r].ask.op = "register" /\ lock = None /\ seq < MaxId
        /\ req' = [req EXCEPT ![r] = q]
        /\ UNCHANGED <<server, jar, minted, started, era>>
    BY DEF Insert, Done, IInv, TypeOK
  <1>2. req[r].row \in Row /\ ~IsFirstUser(user)
    BY <1>1, Typed DEF InFlight, Later
  <1>3. seq \in Ids /\ i \in Ids /\ i # 1 /\ i \in 0..MaxId /\ seq \in 0..MaxId
    BY <1>1, <1>2, MaxIdAssumption DEF IInv, TypeOK, Ids
  <1>4. user \in Table /\ user[1] # None /\ user[1].role = "admin" /\ spent \in SUBSET Nat
    BY <1>2 DEF IInv, TypeOK, Governed
  <1>5. q \in Request /\ q.pc = "respond"
    BY Typed, FinishTyped
  <1>6. era' \in [Ids -> Nat]
    BY <1>1 DEF IInv, TypeOK
  <1> HIDE DEF q
  <1>7. CASE NameTaken(user, req[r].row.name, i)
    <2>1. lock' = r /\ UNCHANGED <<user, seq, spent>>
      BY <1>7 DEF Insert
    <2>2. Done(r) /\ UNCHANGED <<tables, jar, minted, started>>
      BY <1>1, <2>1 DEF Insert, tables
    <2> QED
      BY <1>1, <2>1, <2>2, AnswerKeeps
  <1>8. CASE ~NameTaken(user, req[r].row.name, i)
    <2>1. /\ user' = [user EXCEPT ![i] = req[r].row] /\ seq' = i
          /\ spent' = spent \cup Secrets(user') /\ lock' = lock
      BY <1>8 DEF Insert, Store
    <2>2. user' \in Table /\ user'[1] = user[1] /\ seq' >= seq /\ seq' \in 0..MaxId
      BY <1>2, <1>3, <1>4, <2>1, OneIsAnId DEF Table
    <2> QED
      BY <1>1, <1>2, <1>4, <1>5, <1>6, <2>1, <2>2, Writes
  <1> QED
    BY <1>7, <1>8

LEMMA LoginKeeps ==
    ASSUME IInv, NEW r \in Requests, Login(r)
    PROVE  IInv'
  <1> DEFINE ask == req[r].ask
             found == {i \in Held(user) : user[i].name = ask.name /\ user[i].hash.pw = ask.pw}
  <1>1. /\ req[r] \in Request /\ ask \in Asks /\ ask.op = "login" /\ req[r].pc = "view"
    BY Entered DEF Login
  <1>2. CASE Done(r) /\ UNCHANGED minted
    BY <1>2, AnswerKeeps DEF Login
  <1>3. ASSUME NEW i \in found,
               LET stale == user[i].hash.method # "current"
                   row   == IF stale
                            THEN [user[i] EXCEPT !.hash.method = "current",
                                                 !.hash.salt = minted + 1]
                            ELSE user[i]
                   sess  == [uid |-> i, mark |-> Mark(row), era |-> era[i]]
               IN /\ req' = [req EXCEPT ![r] =
                        [@ EXCEPT !.pc = "login", !.id = i, !.stored = user[i],
                                  !.row = row, !.sess = sess]]
                  /\ minted' = IF stale THEN minted + 1 ELSE minted
        PROVE  IInv'
    <2> DEFINE stale == user[i].hash.method # "current"
               row   == IF stale
                        THEN [user[i] EXCEPT !.hash.method = "current",
                                             !.hash.salt = minted + 1]
                        ELSE user[i]
               sess  == [uid |-> i, mark |-> Mark(row), era |-> era[i]]
               q     == [req[r] EXCEPT !.pc = "login", !.id = i, !.stored = user[i],
                                       !.row = row, !.sess = sess]
    <2>1. i \in Ids /\ user[i] \in Row /\ minted \in Nat /\ era[i] \in Nat
      BY DEF IInv, TypeOK, Held, Table
    <2>2. row \in Row
      <3>1. CASE ~stale
        BY <2>1, <3>1
      <3>2. CASE stale
        <4>1. user[i].hash \in Hash
          BY <2>1 DEF Row
        <4>2. [user[i].hash EXCEPT !.method = "current", !.salt = minted + 1] \in Hash
          <5>1. minted + 1 \in Nat
            BY <2>1
          <5> QED
            BY <4>1, <5>1, Zenon DEF Hash
        <4>3. row = [user[i] EXCEPT !.hash =
                        [user[i].hash EXCEPT !.method = "current", !.salt = minted + 1]]
          BY <2>1, <3>2 DEF Row
        <4> QED
          BY <2>1, <4>2, <4>3 DEF Row
      <3> QED
        BY <3>1, <3>2
    <2>3. minted' \in Nat
      BY <1>3, <2>1
    <2>4. sess \in Session
      BY <2>1, <2>2 DEF Session, Mark, Row
    <2>5. req' = [req EXCEPT ![r] = q]
      BY <1>3 DEF IInv, TypeOK
    <2> HIDE DEF row, sess
    <2>6. q \in Request
      BY <1>1, <2>1, <2>2, <2>4, ZenonT(60) DEF Request
    <2>7. q.pc = "login" /\ q.id = i /\ q.stored = user[i] /\ q.row = row /\ q.ask = ask
      BY <1>1 DEF Request
    <2> HIDE DEF q
    <2>8. InFlight(q, r, user', lock')
      BY <1>1, <2>1, <2>2, <2>7 DEF InFlight, Saves, Later
    <2>9. /\ lock' = lock /\ lock' \in Requests \cup {None} /\ started' \in Nat
          /\ jar' \in [Browsers -> Session] /\ UNCHANGED tables
      BY DEF Login, IInv, TypeOK
    <2> QED
      BY <2>3, <2>5, <2>6, <2>8, <2>9, Reads
  <1> QED
    BY <1>2, <1>3 DEF Login

LEMMA LoginSaveKeeps ==
    ASSUME IInv, NEW r \in Requests, LoginSave(r)
    PROVE  IInv'
  <1> DEFINE q == req[r]
             i == q.id
  <1>1. /\ q.pc = "login" /\ lock = None /\ Done(r)
        /\ user' = IF Rehashes(user, q) THEN [user EXCEPT ![i].hash = q.row.hash] ELSE user
        /\ spent' = spent \cup Secrets(user')
        /\ UNCHANGED <<seq, server, lock, jar, minted, started, era>>
    BY DEF LoginSave, Store
  <1>2. q \in Request /\ i \in Ids /\ q.row \in Row
    BY <1>1, Typed DEF InFlight
  <1>3. user \in Table /\ seq \in 0..MaxId /\ era \in [Ids -> Nat]
    BY DEF IInv, TypeOK
  <1>4. user' \in Table /\ \A j \in Ids : \/ user'[j] = user[j]
                                          \/ /\ user[j] # None /\ user'[j] # None
                                             /\ user'[j].role = user[j].role
    <2>1. CASE ~Rehashes(user, q)
      BY <1>1, <1>3, <2>1
    <2>2. CASE Rehashes(user, q)
      <3>1. user[i] \in Row /\ user[i] # None /\ q.row.hash \in Hash
        BY <1>2, <1>3, <2>2 DEF Rehashes, Table, Row
      <3>2. [user[i] EXCEPT !.hash = q.row.hash] \in Row
        BY <3>1 DEF Row
      <3>3. user' = [user EXCEPT ![i] = [user[i] EXCEPT !.hash = q.row.hash]]
        BY <1>1, <1>2, <1>3, <2>2 DEF Table
      <3>4. [user[i] EXCEPT !.hash = q.row.hash].role = user[i].role
        BY <3>1 DEF Row
      <3> QED
        BY <1>2, <1>3, <3>1, <3>2, <3>3, <3>4, NoneApart DEF Table
    <2> QED
      BY <2>1, <2>2
  <1>5. IsFirstUser(user) => user' = user
    BY <1>1, <1>2, Emptiness DEF Rehashes
  <1>6. ~IsFirstUser(user) => user'[1] # None /\ user'[1].role = "admin"
    BY <1>4, OneIsAnId DEF IInv, Governed
  <1>7. Finish(q) \in Request /\ Finish(q).pc = "respond" /\ req' = [req EXCEPT ![r] = Finish(q)]
    BY <1>1, <1>2, FinishTyped DEF Done
  <1>8. seq' \in 0..MaxId /\ seq' >= seq /\ era' \in [Ids -> Nat]
    BY <1>1, <1>3, MaxIdAssumption
  <1> HIDE DEF q
  <1> QED
    BY <1>1, <1>4, <1>5, <1>6, <1>7, <1>8, Writes

LEMMA LogoutKeeps ==
    ASSUME IInv, NEW r \in Requests, Logout(r)
    PROVE  IInv'
  <1> DEFINE p == [req[r] EXCEPT !.sess = NoSession]
             q == Finish(p)
  <1>1. req[r] \in Request /\ req' = [req EXCEPT ![r] = q]
    BY DEF Logout, IInv, TypeOK
  <1>2. p \in Request
    BY <1>1, IdleTyped DEF Request
  <1> HIDE DEF p
  <1>3. q \in Request /\ InFlight(q, r, user', lock')
    BY <1>2, FinishTyped, EndedInFlight
  <1> HIDE DEF q
  <1>4. /\ lock' = lock /\ lock' \in Requests \cup {None} /\ started' \in Nat
        /\ minted' \in Nat /\ jar' \in [Browsers -> Session] /\ UNCHANGED tables
    BY DEF Logout, IInv, TypeOK
  <1> QED
    BY <1>1, <1>3, <1>4, Reads

\* A change to the caller's own account, made on the copy the request began with.
LEMMA ChangedKeeps ==
    ASSUME IInv, NEW r \in Requests, NEW pc \in {"clash", "write"}, NEW row \in Row,
           req[r].pc = "view", req[r].ask.op \in {"rename", "passwd", "rotate"},
           req[r].me # None, req[r].sess.uid # 0, row.role = req[r].me.role,
           req' = [req EXCEPT ![r] = Changed(req[r], pc, row)],
           minted' \in Nat, UNCHANGED <<tables, lock, jar, started>>
    PROVE  IInv'
  <1> DEFINE q == Changed(req[r], pc, row)
  <1>1. /\ req[r] \in Request /\ req[r].ask \in Asks
    BY Typed DEF InFlight
  <1>2. req[r].me \in Row /\ req[r].sess.uid \in Ids
    BY <1>1 DEF Request, Session
  <1>3. q \in Request
    BY <1>1, <1>2, ZenonT(60) DEF Request, Changed
  <1>4. /\ q.pc = pc /\ q.id = req[r].sess.uid /\ q.stored = req[r].me
        /\ q.row = row /\ q.ask = req[r].ask
    BY <1>1 DEF Request, Changed
  <1> HIDE DEF q
  <1>5. InFlight(q, r, user', lock')
    BY <1>1, <1>2, <1>4 DEF InFlight, Saves, Later
  <1>6. /\ lock' = lock /\ lock' \in Requests \cup {None} /\ started' \in Nat
        /\ jar' \in [Browsers -> Session]
    BY DEF IInv, TypeOK
  <1>7. req' = [req EXCEPT ![r] = q]
    BY DEF q
  <1> QED
    BY <1>3, <1>5, <1>6, <1>7, Reads

LEMMA RenameKeeps ==
    ASSUME IInv, NEW r \in Requests, Rename(r)
    PROVE  IInv'
  <1> DEFINE row == [req[r].me EXCEPT !.name = req[r].ask.name]
  <1>1. /\ req[r] \in Request /\ req[r].ask \in Asks /\ req[r].ask.op = "rename"
        /\ req[r].pc = "view" /\ Proven(req[r])
    BY Entered DEF Rename, May
  <1>2. req[r].me # None /\ req[r].me \in Row /\ req[r].sess.uid # 0
    BY <1>1, Typed DEF Proven, Request, InFlight
  <1>3. row \in Row /\ row.role = req[r].me.role
    BY <1>1, <1>2, AskFields DEF Row
  <1>4. minted' \in Nat /\ UNCHANGED <<tables, lock, jar, minted, started>>
    BY DEF Rename, IInv, TypeOK
  <1>5. CASE Done(r)
    BY <1>4, <1>5, AnswerKeeps
  <1>6. CASE req' = [req EXCEPT ![r] = Changed(req[r], "clash", row)]
    <2> HIDE DEF row
    <2> QED
      BY <1>1, <1>2, <1>3, <1>4, <1>6, ChangedKeeps
  <1> QED
    BY <1>5, <1>6 DEF Rename

LEMMA ChangePasswordKeeps ==
    ASSUME IInv, NEW r \in Requests, ChangePassword(r)
    PROVE  IInv'
  <1> DEFINE hash == [pw |-> req[r].ask.new, method |-> "current", salt |-> minted + 1]
             row  == [req[r].me EXCEPT !.hash = hash, !.token = minted + 2]
  <1>1. /\ req[r] \in Request /\ req[r].ask \in Asks /\ req[r].ask.op = "passwd"
        /\ req[r].pc = "view" /\ Proven(req[r])
    BY Entered DEF ChangePassword, May
  <1>2. req[r].me # None /\ req[r].me \in Row /\ req[r].sess.uid # 0
    BY <1>1, Typed DEF Proven, Request, InFlight
  <1>3. minted + 2 \in Nat /\ minted' \in Nat /\ UNCHANGED <<tables, lock, jar, started>>
    BY DEF ChangePassword, IInv, TypeOK
  <1>4. hash \in Hash
    BY <1>1, AskFields DEF Hash, IInv, TypeOK
  <1> HIDE DEF hash
  <1>5. row \in Row /\ row.role = req[r].me.role
    BY <1>2, <1>3, <1>4 DEF Row
  <1>6. req' = [req EXCEPT ![r] = Changed(req[r], "write", row)]
    BY DEF ChangePassword, hash
  <1> HIDE DEF row
  <1> QED
    BY <1>1, <1>2, <1>3, <1>5, <1>6, ChangedKeeps

LEMMA RegenerateTokenKeeps ==
    ASSUME IInv, NEW r \in Requests, RegenerateToken(r)
    PROVE  IInv'
  <1> DEFINE row  == [req[r].me EXCEPT !.token = minted + 1]
  <1>1. /\ req[r] \in Request /\ req[r].ask.op = "rotate"
        /\ req[r].pc = "view" /\ req[r].me # None
    BY Entered DEF RegenerateToken, May, Proven
  <1>2. req[r].me \in Row /\ req[r].sess.uid # 0
    BY <1>1, Typed DEF Request, InFlight
  <1>3. minted' \in Nat /\ UNCHANGED <<tables, lock, jar, started>>
    BY DEF RegenerateToken, IInv, TypeOK
  <1>4. row \in Row /\ row.role = req[r].me.role
    BY <1>2 DEF Row, IInv, TypeOK
  <1>5. req' = [req EXCEPT ![r] = Changed(req[r], "write", row)]
    BY DEF RegenerateToken
  <1> HIDE DEF row
  <1> QED
    BY <1>1, <1>2, <1>3, <1>4, <1>5, ChangedKeeps

LEMMA ChangeRoleKeeps ==
    ASSUME IInv, NEW r \in Requests, ChangeRole(r)
    PROVE  IInv'
  <1> DEFINE ask == req[r].ask
             row == [user[ask.id] EXCEPT !.role = ask.role]
             q   == [req[r] EXCEPT !.pc = "write", !.id = ask.id, !.stored = user[ask.id],
                                   !.row = row]
  <1>1. /\ req[r] \in Request /\ ask \in Asks /\ ask.op = "role" /\ req[r].pc = "view"
        /\ ask.id # 1 /\ ask.role \in Roles
    BY Entered DEF ChangeRole, May, Proven
  <1>2. /\ lock' = lock /\ lock' \in Requests \cup {None} /\ started' \in Nat
        /\ minted' \in Nat /\ jar' \in [Browsers -> Session]
        /\ UNCHANGED <<tables, lock, jar, minted, started>>
    BY DEF ChangeRole, IInv, TypeOK
  <1>3. CASE user[ask.id] = None
    BY <1>2, <1>3, AnswerKeeps DEF ChangeRole
  <1>4. CASE user[ask.id] # None
    <2>1. ask.id \in Ids /\ user[ask.id] \in Row
      BY <1>1, <1>4, AskFields DEF IInv, TypeOK, Table
    <2>2. row \in Row
      BY <1>1, <2>1 DEF Row
    <2>3. req' = [req EXCEPT ![r] = q]
      BY <1>4 DEF ChangeRole
    <2> HIDE DEF row
    <2>4. q \in Request
      BY <1>1, <2>1, <2>2, ZenonT(60) DEF Request
    <2>5. /\ q.pc = "write" /\ q.id = ask.id /\ q.stored = user[ask.id]
          /\ q.row = row /\ q.ask = ask
      BY <1>1 DEF Request
    <2> HIDE DEF q
    <2>6. InFlight(q, r, user', lock')
      BY <1>1, <2>1, <2>2, <2>5 DEF InFlight, Saves, Later
    <2> QED
      BY <1>2, <2>3, <2>4, <2>6, Reads
  <1> QED
    BY <1>3, <1>4

LEMMA ClashKeeps ==
    ASSUME IInv, NEW r \in Requests, Clash(r)
    PROVE  IInv'
  <1> DEFINE q == [req[r] EXCEPT !.pc = "write"]
  <1>1. /\ req[r] \in Request /\ req[r].pc = "clash" /\ InFlight(req[r], r, user, lock)
    BY Typed DEF Clash
  <1>2. /\ lock' = lock /\ lock' \in Requests \cup {None} /\ started' \in Nat
        /\ minted' \in Nat /\ jar' \in [Browsers -> Session]
        /\ UNCHANGED <<tables, lock, jar, minted, started>>
    BY DEF Clash, IInv, TypeOK
  <1>3. CASE Done(r)
    BY <1>2, <1>3, AnswerKeeps
  <1>4. CASE Go(r, "write")
    <2>1. q \in Request
      BY <1>1 DEF Request
    <2>2. req' = [req EXCEPT ![r] = q]
      BY <1>4 DEF Go
    <2>3. /\ q.pc = "write" /\ q.id = req[r].id /\ q.stored = req[r].stored
          /\ q.row = req[r].row /\ q.ask = req[r].ask
      BY <1>1 DEF Request
    <2> HIDE DEF q
    <2>4. InFlight(q, r, user', lock')
      BY <1>1, <1>2, <2>3 DEF InFlight, Saves, Later, tables
    <2> QED
      BY <1>2, <2>1, <2>2, <2>4, Reads
  <1> QED
    BY <1>3, <1>4 DEF Clash

\* What a save leaves in the table: the same rows, of account 1 the same role.
LEMMA SavedTable ==
    ASSUME NEW u \in Table, NEW q, q.id \in Ids, q.row \in Row, q.stored \in Row
    PROVE  /\ Saved(u, q) \in Table
           /\ IsFirstUser(u) => Saved(u, q) = u
           /\ u[1] # None /\ (q.id = 1 => q.row.role = q.stored.role) =>
                 Saved(u, q)[1] # None /\ Saved(u, q)[1].role = u[1].role
  <1> DEFINE i   == q.id
             row == Merge(u[i], q.row, q.stored)
  <1>1. CASE Saved(u, q) = u
    BY <1>1
  <1>2. CASE u[i] # None /\ Saved(u, q) = [u EXCEPT ![i] = row]
    <2>1. u[i] \in Row
      BY <1>2 DEF Table
    <2>2. row \in Row
      BY <2>1 DEF Merge, Row
    <2>3. q.row.role = q.stored.role => row.role = u[i].role
      BY DEF Merge
    <2> HIDE DEF row
    <2> QED
      BY <1>2, <2>1, <2>2, <2>3, NoneApart, OneIsAnId, Emptiness DEF Table
  <1> QED
    BY <1>1, <1>2 DEF Saved

LEMMA UpdateKeeps ==
    ASSUME IInv, NEW r \in Requests, Update(r)
    PROVE  IInv'
  <1> DEFINE p == req[r]
             now == IF p.ask.op = "passwd" /\ user[p.id] # None
                    THEN [era EXCEPT ![p.id] = @ + 1] ELSE era
             done == IF p.ask.op = "passwd" THEN [p EXCEPT !.era = now[p.id]] ELSE p
             q == Finish(done)
  <1>1. /\ p.pc = "write" /\ p.ask.op # "register" /\ lock = None
        /\ user' = Saved(user, p) /\ spent' = spent \cup Secrets(user')
        /\ era' = now /\ req' = [req EXCEPT ![r] = q]
        /\ lock' \in {None, r} /\ UNCHANGED <<seq, server, jar, minted, started>>
    BY DEF Update, Store
  <1>2. /\ p \in Request /\ p.id \in Ids /\ p.row \in Row /\ p.stored \in Row
        /\ p.id = 1 => p.row.role = p.stored.role
    BY <1>1, Typed DEF InFlight, Saves
  <1>3. user \in Table /\ seq \in 0..MaxId /\ era \in [Ids -> Nat]
    BY DEF IInv, TypeOK
  <1>4. now \in [Ids -> Nat]
    BY <1>2, <1>3
  <1>5. now[p.id] \in Nat
    BY <1>2, <1>4
  <1> HIDE DEF now
  <1>6. done \in Request
    BY <1>2, <1>5 DEF Request
  <1> HIDE DEF done
  <1>7. q \in Request /\ q.pc = "respond"
    BY <1>6, FinishTyped
  <1> HIDE DEF q
  <1>8. user' \in Table /\ (IsFirstUser(user) => user' = user)
    BY <1>1, <1>2, <1>3, SavedTable
  <1>9. ~IsFirstUser(user) => user'[1] # None /\ user'[1].role = "admin"
    BY <1>1, <1>2, <1>3, SavedTable DEF IInv, Governed
  <1>10. seq' \in 0..MaxId /\ seq' >= seq /\ era' \in [Ids -> Nat]
    BY <1>1, <1>3, <1>4, MaxIdAssumption
  <1> HIDE DEF p
  <1> QED
    BY <1>1, <1>7, <1>8, <1>9, <1>10, Writes

LEMMA DeleteUserKeeps ==
    ASSUME IInv, NEW r \in Requests, DeleteUser(r)
    PROVE  IInv'
  <1> DEFINE i == req[r].ask.id
             q == Finish(req[r])
  <1>1. req[r].ask \in Asks /\ req[r].ask.op = "delete" /\ i # 1
    BY Entered DEF DeleteUser, May, Proven
  <1>2. i \in Ids
    BY <1>1, AskFields
  <1>3. /\ lock = None /\ user' = [user EXCEPT ![i] = None]
        /\ spent' = spent \cup Secrets(user') /\ req' = [req EXCEPT ![r] = q]
        /\ UNCHANGED <<seq, server, lock, jar, minted, started, era>>
    BY DEF DeleteUser, Store, Done, IInv, TypeOK
  <1>4. user \in Table /\ seq \in 0..MaxId /\ era \in [Ids -> Nat]
    BY DEF IInv, TypeOK
  <1>5. user' \in Table /\ user'[1] = user[1]
    BY <1>1, <1>2, <1>3, <1>4, OneIsAnId DEF Table
  <1>6. IsFirstUser(user) => user' = user
    BY <1>2, <1>3, <1>4, Emptiness DEF Table
  <1>7. ~IsFirstUser(user) => user'[1] # None /\ user'[1].role = "admin"
    BY <1>5 DEF IInv, Governed
  <1>8. q \in Request /\ q.pc = "respond"
    BY Typed, FinishTyped
  <1>9. seq' \in 0..MaxId /\ seq' >= seq /\ era' \in [Ids -> Nat]
    BY <1>3, <1>4, MaxIdAssumption
  <1> HIDE DEF i, q
  <1> QED
    BY <1>3, <1>5, <1>6, <1>7, <1>8, <1>9, Writes

\* A request is over: its process is idle again, its transaction gone.
LEMMA OverKeeps ==
    ASSUME IInv, NEW r \in Requests, req' = [req EXCEPT ![r] = Idle],
           lock' = IF lock = r THEN None ELSE lock,
           jar' \in [Browsers -> Session], UNCHANGED <<tables, minted, started>>
    PROVE  IInv'
  <1>1. Idle \in Request /\ InFlight(Idle, r, user', lock')
    BY IdleTyped, EndedInFlight DEF Idle
  <1>2. /\ lock' \in Requests \cup {None} /\ (lock' # lock => lock \in {None, r})
        /\ minted' \in Nat /\ started' \in Nat
    BY DEF IInv, TypeOK
  <1> QED
    BY <1>1, <1>2, Reads

LEMMA RespondKeeps ==
    ASSUME IInv, NEW r \in Requests, Respond(r)
    PROVE  IInv'
  <1> DEFINE sess == Marked(req[r])
  <1>1. req[r] \in Request
    BY DEF IInv, TypeOK
  <1>2. /\ req[r].sess \in Session /\ req[r].era \in Nat
        /\ req[r].me # None => Mark(req[r].me) \in Hash
    BY <1>1 DEF Request, Mark, Row
  <1>3. sess \in Session
    BY <1>2 DEF Marked, Session
  <1> HIDE DEF sess
  <1>4. jar' \in [Browsers -> Session]
    BY <1>1, <1>3 DEF Respond, IInv, TypeOK, Request, sess
  <1> QED
    BY <1>4, OverKeeps DEF Respond

LEMMA InitHolds ==
    ASSUME Init
    PROVE  IInv
  <1>1. /\ user \in Table /\ seq \in 0..MaxId /\ server \in Settings \cup {None}
        /\ LastId \in Ids /\ LastSecret \in Nat
    BY InitialAssumption, MaxIdAssumption DEF Init, Ids
  <1>2. \A c \in OldCookies : c.uid \in Held(user) => OldCookie(c) \in Session
    <2> SUFFICES ASSUME NEW c \in OldCookies, c.uid \in Held(user)
                 PROVE  OldCookie(c) \in Session
      OBVIOUS
    <2>1. c.uid \in Ids /\ user[c.uid] \in Row
      BY <1>1 DEF Held, Table
    <2>2. Mark(user[c.uid]) \in Hash
      BY <2>1 DEF Mark, Row
    <2> QED
      BY <2>1, <2>2 DEF OldCookie, Session
  <1>3. jar \in [Browsers -> Session]
    BY <1>2, IdleTyped DEF Init
  <1>4. /\ req \in [Requests -> Request]
        /\ \A r \in Requests : InFlight(req[r], r, user, lock)
    <2>1. \A r \in Requests : req[r] = Idle
      BY DEF Init
    <2>2. Idle.pc = "idle"
      BY DEF Idle
    <2> QED
      BY <2>1, <2>2, IdleTyped, EndedInFlight DEF Init
  <1>5. TypeOK
    BY <1>1, <1>3, <1>4, SecretsAreNumbers DEF Init, TypeOK
  <1>6. Governed
    <2>1. CASE IsFirstUser(user)
      BY <2>1 DEF Init, Governed
    <2>2. CASE ~IsFirstUser(user)
      <3>1. SetUp(user) /\ server \in Settings
        BY <2>2, InitialAssumption DEF Init
      <3> QED
        BY <2>2, <3>1, NoneApart DEF Governed, SetUp, Held
    <2> QED
      BY <2>1, <2>2
  <1>7. IsFirstUser(user) \/ seq \in Ids
    BY <1>1 DEF Init
  <1> QED
    BY <1>4, <1>5, <1>6, <1>7 DEF IInv

LEMMA NextKeeps ==
    ASSUME IInv, [Next]_vars
    PROVE  IInv'
  <1>1. CASE UNCHANGED vars
    BY <1>1 DEF vars, IInv, TypeOK, Governed
  <1>2. CASE Quiet
    BY <1>1, <1>2 DEF Quiet
  <1>3. ASSUME NEW r \in Requests, NEW b \in Browsers, NEW a \in Asks, Start(r, b, a)
        PROVE  IInv'
    BY <1>3, StartKeeps
  <1>4. ASSUME NEW r \in Requests, Step(r)
        PROVE  IInv'
    <2>1. CASE Answer(r)
      BY <2>1, AnswerKeeps DEF Answer
    <2>2. CASE Register(r) \/ RegisterFirst(r) \/ Found(r) \/ Insert(r)
      BY <2>2, RegisterKeeps, RegisterFirstKeeps, FoundKeeps, InsertKeeps
    <2>3. CASE Login(r) \/ LoginSave(r) \/ Logout(r)
      BY <2>3, LoginKeeps, LoginSaveKeeps, LogoutKeeps
    <2>4. CASE Rename(r) \/ ChangePassword(r) \/ RegenerateToken(r) \/ ChangeRole(r)
      BY <2>4, RenameKeeps, ChangePasswordKeeps, RegenerateTokenKeeps, ChangeRoleKeeps
    <2>5. CASE Clash(r) \/ Update(r) \/ DeleteUser(r) \/ Respond(r)
      BY <2>5, ClashKeeps, UpdateKeeps, DeleteUserKeeps, RespondKeeps
    <2> QED
      BY <1>4, <2>1, <2>2, <2>3, <2>4, <2>5 DEF Step
  <1>5. ASSUME NEW r \in Requests, Busy(r)
        PROVE  IInv'
    BY <1>5, AnswerKeeps DEF Busy
  <1>6. ASSUME NEW r \in Requests, Lost(r)
        PROVE  IInv'
    <2>1. jar' \in [Browsers -> Session]
      BY <1>6 DEF Lost, tables, IInv, TypeOK
    <2> QED
      BY <1>6, <2>1, OverKeeps DEF Lost
  <1> QED
    BY <1>1, <1>2, <1>3, <1>4, <1>5, <1>6 DEF Next

--------------------------------------------------------------------------------

\* What IInv says of every request in flight holds at every moment: this is the
\* inductive invariant behind the two theorems that follow.
THEOREM InvariantHolds == Spec => []IInv
  <1>1. Init => IInv
    BY InitHolds
  <1>2. IInv /\ [Next]_vars => IInv'
    BY NextKeeps
  <1> QED
    BY <1>1, <1>2, PTL DEF Spec

\* The tables and the requests have their types: no request writes a half-built row,
\* and no role is ever stored that no decorator knows (admin.change_user_role).
THEOREM TypeCorrect == Spec => []TypeOK
  <1>1. IInv => TypeOK
    BY DEF IInv
  <1> QED
    BY <1>1, InvariantHolds, PTL

\* However many requests race, an instance is set up once: settings and an account 1
\* that is an admin come together and stay (authentication.register,
\* admin.change_user_role, admin.delete_user, UserInfo.saveToDb).
THEOREM AlwaysGoverned == Spec => []Governed
  <1>1. IInv => Governed
    BY DEF IInv
  <1> QED
    BY <1>1, InvariantHolds, PTL

--------------------------------------------------------------------------------
(* Writing what was read before: the store, its past and the sessions.        *)

\* The secrets a request has made and not written yet.
New(q) ==
    (IF q.pc \in {"found", "clash", "write"} /\ q.ask.op \in {"register", "passwd"}
     THEN {q.row.hash.salt, q.row.token} ELSE {})
    \cup (IF q.pc = "write" /\ q.ask.op = "rotate" THEN {q.row.token} ELSE {})
    \cup (IF q.pc = "login" /\ q.row.hash # q.stored.hash THEN {q.row.hash.salt} ELSE {})

\* Secrets are spent once: what requests are about to write is nowhere in the table's past,
\* nor about to be written by another.
FreshInv ==
    /\ Secrets(user) \subseteq spent
    /\ spent \subseteq 0..minted
    /\ \A r \in Requests : \A n \in New(req[r]) : n \in 0..minted /\ n \notin spent
    /\ \A r, s \in Requests : r # s => New(req[r]) \cap New(req[s]) = {}

\* The row was read from the table, now or some time ago.
Known(row, sp) == row.token \in sp /\ row.hash.salt \in sp

\* The settings let strangers register, with the token the request gave.
Welcome(q, sv) == sv # None /\ sv.mode = "multi" /\ sv.regtoken \in {"", q.ask.regtoken}

\* What a change is about to write differs from what was read in what was asked for.
Change(q) ==
    /\ q.ask.op # "rename" => q.pc = "write"
    /\ \/ /\ q.ask.op \in {"rename", "passwd", "rotate"}
          /\ q.id = q.cookie.uid /\ q.sess = q.cookie /\ q.me = q.row
       \/ q.ask.op = "role" /\ q.id = q.ask.id /\ q.id # 1
    /\ q.ask.op = "rename" => q.row = [q.stored EXCEPT !.name = q.ask.name]
    /\ q.ask.op = "passwd" => /\ q.row = [q.stored EXCEPT !.hash = q.row.hash, !.token = q.row.token]
                              /\ q.row.hash.pw = q.ask.new
    /\ q.ask.op = "rotate" => q.row = [q.stored EXCEPT !.token = q.row.token]
    /\ q.ask.op = "role"   => q.row = [q.stored EXCEPT !.role = q.ask.role]

\* A login has checked the password against what it read, and remade an old hash of it.
Verified(q) ==
    /\ q.ask.op = "login" /\ q.stored.hash.pw = q.ask.pw
    /\ q.row = [q.stored EXCEPT !.hash = q.row.hash]
    /\ q.row.hash = q.stored.hash \/ /\ q.stored.hash.method = "old" /\ q.row.hash.method = "current"
                                     /\ q.row.hash.pw = q.stored.hash.pw
    /\ q.me = None /\ q.sess.uid = q.id /\ q.sess.mark = q.row.hash

\* What a request at each pc carries, with the secrets ever spent and the settings.
Carries(q, sp, sv) ==
    /\ q.pc = "view" /\ q.me # None => q.sess = q.cookie /\ Known(q.me, sp) /\ ~q.first
    /\ q.pc \in {"found", "clash", "write"} /\ q.ask.op = "register" =>
          q.row.name = q.ask.name /\ q.row.hash.pw = q.ask.pw
    /\ q.pc \in {"clash", "write"} /\ q.ask.op = "register" =>
          q.row.role = "pending" /\ Welcome(q, sv)
    /\ Saves(q) => Known(q.stored, sp) /\ Change(q)
    /\ q.pc = "login" => Known(q.stored, sp) /\ Verified(q)

StoreInv == FreshInv /\ \A r \in Requests : Carries(req[r], spent, server)
--------------------------------------------------------------------------------
(* What a step keeps, whoever takes it.                                       *)

\* What is written neither came from nor went to another request.
LEMMA MoveStore ==
    ASSUME IInv, StoreInv, NEW r \in Requests, NEW q,
           req' = [req EXCEPT ![r] = q],
           minted \in Nat, minted' \in Nat, minted' >= minted,
           New(q) \subseteq (minted + 1)..minted' \cup (New(req[r]) \ spent'),
           spent \subseteq spent', spent' \subseteq spent \cup New(req[r]),
           Secrets(user') \subseteq spent',
           server' = server \/ IsFirstUser(user),
           Carries(q, spent', server')
    PROVE  StoreInv'
  <1>1. req'[r] = q /\ \A s \in Requests : s # r => req'[s] = req[s]
    BY DEF IInv, TypeOK
  <1>2. ASSUME NEW s \in Requests, s # r
        PROVE  Carries(req'[s], spent', server')
    <2>1. Carries(req[s], spent, server) /\ InFlight(req[s], s, user, lock)
      BY DEF StoreInv, IInv
    <2>2. CASE server' = server
      BY <1>1, <1>2, <2>1, <2>2 DEF Carries, Known
    <2>3. CASE IsFirstUser(user)
      <3>1. ~(req[s].pc \in {"clash", "write"} /\ req[s].ask.op = "register")
        BY <2>1, <2>3 DEF InFlight, Later
      <3> QED
        BY <1>1, <1>2, <2>1, <3>1 DEF Carries, Known
    <2> QED
      BY <2>2, <2>3
  <1>3. /\ spent \subseteq 0..minted
        /\ \A s \in Requests : New(req[s]) \subseteq 0..minted /\ New(req[s]) \cap spent = {}
    BY DEF StoreInv, FreshInv
  <1>4. 0..minted \subseteq 0..minted'
    OBVIOUS
  <1>5. spent' \subseteq 0..minted
    BY <1>3
  <1>6. New(q) \subseteq 0..minted' /\ New(q) \cap spent' = {}
    <2> SUFFICES ASSUME NEW n \in New(q)
                 PROVE  n \in 0..minted' /\ n \notin spent'
      OBVIOUS
    <2>1. CASE n \in New(req[r]) /\ n \notin spent'
      BY <2>1, <1>3, <1>4
    <2>2. CASE n \in (minted + 1)..minted'
      BY <2>2, <1>5
    <2> QED
      BY <2>1, <2>2
  <1>7. ASSUME NEW s \in Requests, s # r
        PROVE  /\ New(req[s]) \subseteq 0..minted' /\ New(req[s]) \cap spent' = {}
               /\ New(req[s]) \cap New(q) = {}
    <2>1. New(req[s]) \cap New(req[r]) = {}
      BY <1>7 DEF StoreInv, FreshInv
    <2>2. New(req[s]) \cap ((minted + 1)..minted') = {}
      BY <1>3
    <2> QED
      BY <2>1, <2>2, <1>3, <1>4
  <1>8. \A s, t \in Requests : s # t => New(req'[s]) \cap New(req'[t]) = {}
    <2>1. \A s, t \in Requests : s # t => New(req[s]) \cap New(req[t]) = {}
      BY DEF StoreInv, FreshInv
    <2> QED
      BY <2>1, <1>1, <1>7
  <1>9. FreshInv'
    BY <1>1, <1>4, <1>5, <1>6, <1>7, <1>8 DEF FreshInv
  <1>10. Carries(req'[r], spent', server')
    BY <1>1
  <1> QED
    BY <1>2, <1>9, <1>10 DEF StoreInv

\* Such requests are about to write nothing.
LEMMA NothingNew ==
    ASSUME NEW q
    PROVE  /\ q.pc \in {"idle", "view", "respond"} => New(q) = {}
           /\ q.pc \in {"idle", "respond"} => \A sp, sv : Carries(q, sp, sv)
  BY DEF New, Carries, Saves

LEMMA SecretsPut ==
    ASSUME NEW u \in Table, NEW i \in Ids, NEW row \in Row \cup {None}
    PROVE  Secrets([u EXCEPT ![i] = row])
             \subseteq Secrets(u) \cup (IF row = None THEN {} ELSE {row.token, row.hash.salt})
  <1> DEFINE v == [u EXCEPT ![i] = row]
  <1>1. v[i] = row /\ \A j \in Ids \ {i} : v[j] = u[j]
    BY DEF Table
  <1> HIDE DEF v
  <1> QED
    BY <1>1 DEF Secrets, Held

\* A row that was in the table is known ever after.
LEMMA RowsKnown ==
    ASSUME StoreInv, NEW i \in Held(user)
    PROVE  Known(user[i], spent)
  BY DEF StoreInv, FreshInv, Secrets, Known

\* A step that writes no account and makes no secret.
LEMMA StoreUnwritten ==
    ASSUME IInv, StoreInv, NEW r \in Requests, NEW q, req' = [req EXCEPT ![r] = q],
           UNCHANGED <<user, server, spent, minted>>,
           New(q) = {}, Carries(q, spent, server)
    PROVE  StoreInv'
  <1>1. Secrets(user') \subseteq spent' /\ spent \subseteq spent' /\ spent' \subseteq spent \cup New(req[r])
    BY DEF StoreInv, FreshInv
  <1>2. minted \in Nat /\ minted' \in Nat /\ minted' >= minted
    BY DEF IInv, TypeOK
  <1>3. Carries(q, spent', server') /\ (server' = server \/ IsFirstUser(user))
    OBVIOUS
  <1>4. New(q) \subseteq (minted + 1)..minted' \cup (New(req[r]) \ spent')
    OBVIOUS
  <1> QED
    BY <1>1, <1>2, <1>3, <1>4, MoveStore

\* A step that writes rows and ends with the view: the new secrets in the table were r's.
LEMMA StoreWritten ==
    ASSUME IInv, StoreInv, NEW r \in Requests, NEW q, req' = [req EXCEPT ![r] = q],
           q.pc = "respond", minted' = minted,
           spent' = spent \cup Secrets(user'),
           Secrets(user') \subseteq spent \cup New(req[r]),
           server' = server \/ IsFirstUser(user)
    PROVE  StoreInv'
  <1>1. New(q) = {} /\ Carries(q, spent', server')
    BY NothingNew
  <1>2. minted \in Nat /\ minted' \in Nat /\ minted' >= minted
    BY DEF IInv, TypeOK
  <1>3. spent \subseteq spent' /\ spent' \subseteq spent \cup New(req[r]) /\ Secrets(user') \subseteq spent'
    OBVIOUS
  <1>4. New(q) \subseteq (minted + 1)..minted' \cup (New(req[r]) \ spent')
    BY <1>1
  <1> QED
    BY <1>1, <1>2, <1>3, <1>4, MoveStore

\* A step that makes secrets and writes nothing yet.
LEMMA StoreMade ==
    ASSUME IInv, StoreInv, NEW r \in Requests, NEW q, req' = [req EXCEPT ![r] = q],
           UNCHANGED <<user, server, spent>>, minted' \in Nat, minted' >= minted,
           New(q) \subseteq (minted + 1)..minted',
           Carries(q, spent, server)
    PROVE  StoreInv'
  <1>1. Secrets(user') \subseteq spent' /\ spent \subseteq spent' /\ spent' \subseteq spent \cup New(req[r])
    BY DEF StoreInv, FreshInv
  <1>2. minted \in Nat
    BY DEF IInv, TypeOK
  <1>3. Carries(q, spent', server') /\ (server' = server \/ IsFirstUser(user))
    OBVIOUS
  <1>4. New(q) \subseteq (minted + 1)..minted' \cup (New(req[r]) \ spent')
    OBVIOUS
  <1> QED
    BY <1>1, <1>2, <1>3, <1>4, MoveStore
--------------------------------------------------------------------------------
(* The steps, one by one.                                                     *)

LEMMA StartStore ==
    ASSUME IInv, StoreInv, NEW r \in Requests, NEW b \in Browsers, NEW a \in Asks, Start(r, b, a)
    PROVE  StoreInv'
  <1> DEFINE cookie == jar[b]
             row    == IF cookie.uid = 0 THEN None ELSE user[cookie.uid]
             sess   == IF Ends(cookie, row) THEN NoSession ELSE cookie
             me     == IF Ends(cookie, row) THEN None ELSE row
             e      == IF row = None THEN 0 ELSE era[cookie.uid]
             q      == [Idle EXCEPT !.pc = "view", !.ask = a, !.by = b, !.cookie = cookie,
                                    !.first = IsFirstUser(user), !.sess = sess,
                                    !.me = me, !.era = e]
  <1>1. cookie \in Session
    BY DEF IInv, TypeOK
  <1>2. me # None => sess = cookie /\ Known(me, spent) /\ ~IsFirstUser(user)
    <2> SUFFICES ASSUME me # None
                 PROVE  sess = cookie /\ Known(me, spent) /\ ~IsFirstUser(user)
      OBVIOUS
    <2>1. cookie.uid \in Ids /\ me = user[cookie.uid] /\ sess = cookie
      BY <1>1 DEF Session
    <2>2. cookie.uid \in Held(user)
      BY <2>1 DEF Held
    <2> QED
      BY <2>1, <2>2, RowsKnown DEF IsFirstUser
  <1> HIDE DEF cookie, row, sess, me, e
  <1>3. /\ q.pc = "view" /\ q.first = IsFirstUser(user)
        /\ q.me = me /\ q.sess = sess /\ q.cookie = cookie
    BY DEF Idle
  <1>4. req' = [req EXCEPT ![r] = q]
    BY DEF Start, cookie, row, sess, me, e
  <1> HIDE DEF q
  <1>5. New(q) = {} /\ Carries(q, spent, server)
    BY <1>2, <1>3, NothingNew DEF Carries, Saves
  <1> QED
    BY <1>4, <1>5, StoreUnwritten DEF Start, tables

\* The view ends and nothing was written.
LEMMA AnswerStore ==
    ASSUME IInv, StoreInv, NEW r \in Requests, NEW q, req' = [req EXCEPT ![r] = q],
           q.pc \in {"idle", "respond"}, UNCHANGED <<user, server, spent, minted>>
    PROVE  StoreInv'
  BY NothingNew, StoreUnwritten

\* What a registration is about to write.
LEMMA NewRowMade ==
    ASSUME IInv, NEW a, NEW role
    PROVE  /\ NewRow(a, role).name = a.name /\ NewRow(a, role).hash.pw = a.pw
           /\ NewRow(a, role).role = role
           /\ {NewRow(a, role).hash.salt, NewRow(a, role).token} \subseteq (minted + 1)..(minted + 2)
  BY DEF NewRow, IInv, TypeOK

LEMMA RegisterStore ==
    ASSUME IInv, StoreInv, NEW r \in Requests, Register(r)
    PROVE  StoreInv'
  <1> DEFINE row == NewRow(req[r].ask, "pending")
             q   == [req[r] EXCEPT !.pc = "clash", !.row = row]
  <1>1. /\ req[r] \in Request /\ req[r].ask.op = "register" /\ May(req[r])
        /\ req[r].pc = "view" /\ ~req[r].first
    BY Entered DEF Register
  <1>2. q.pc = "clash" /\ q.row = row /\ q.ask = req[r].ask
    BY <1>1 DEF Request
  <1>3. req' = [req EXCEPT ![r] = q]
    BY <1>1 DEF Register, IInv, TypeOK, Request
  <1>4. server # None
    BY <1>1, Typed DEF InFlight, Later, IInv, Governed
  <1>5. Welcome(q, server)
    BY <1>1, <1>2, <1>4 DEF May, RegisterOpen, Welcome
  <1>6. /\ row.name = req[r].ask.name /\ row.hash.pw = req[r].ask.pw /\ row.role = "pending"
        /\ {row.hash.salt, row.token} \subseteq (minted + 1)..(minted + 2)
    BY NewRowMade
  <1> HIDE DEF row, q
  <1>7. New(q) = {row.hash.salt, row.token}
    BY <1>1, <1>2 DEF New
  <1>8. Carries(q, spent, server)
    BY <1>1, <1>2, <1>5, <1>6 DEF Carries, Saves
  <1>9. UNCHANGED <<user, server, spent>> /\ minted' = minted + 2 /\ minted' \in Nat /\ minted' >= minted
    BY DEF Register, tables, IInv, TypeOK
  <1>10. New(q) \subseteq (minted + 1)..minted'
    BY <1>6, <1>7, <1>9
  <1> QED
    BY <1>3, <1>8, <1>9, <1>10, StoreMade

LEMMA RegisterFirstStore ==
    ASSUME IInv, StoreInv, NEW r \in Requests, RegisterFirst(r)
    PROVE  StoreInv'
  <1>1. /\ req[r] \in Request /\ req[r].ask.op = "register" /\ req[r].pc = "view"
        /\ UNCHANGED <<user, server, spent>>
        /\ minted' = minted + 2 /\ minted' \in Nat /\ minted' >= minted
    BY Entered DEF RegisterFirst, tables, IInv, TypeOK
  <1>2. CASE ~IsFirstUser(user)
    <2> DEFINE q == Finish(req[r])
    <2>1. req' = [req EXCEPT ![r] = q] /\ q.pc = "respond"
      BY <1>1, <1>2, FinishTyped DEF RegisterFirst, Done
    <2> HIDE DEF q
    <2>2. New(q) \subseteq (minted + 1)..minted' /\ Carries(q, spent, server)
      BY <2>1, NothingNew
    <2> QED
      BY <1>1, <2>1, <2>2, StoreMade
  <1>3. CASE IsFirstUser(user)
    <2> DEFINE row == NewRow(req[r].ask, "admin")
               q   == [req[r] EXCEPT !.pc = "found", !.row = row]
    <2>1. q.pc = "found" /\ q.row = row /\ q.ask = req[r].ask
      BY <1>1 DEF Request
    <2>2. req' = [req EXCEPT ![r] = q]
      BY <1>1, <1>3 DEF RegisterFirst, IInv, TypeOK, Request
    <2>3. /\ row.name = req[r].ask.name /\ row.hash.pw = req[r].ask.pw
          /\ {row.hash.salt, row.token} \subseteq (minted + 1)..(minted + 2)
      BY NewRowMade
    <2> HIDE DEF row, q
    <2>4. New(q) = {row.hash.salt, row.token} /\ Carries(q, spent, server)
      BY <1>1, <2>1, <2>3 DEF New, Carries, Saves
    <2>5. New(q) \subseteq (minted + 1)..minted'
      BY <1>1, <2>3, <2>4
    <2> QED
      BY <1>1, <2>2, <2>4, <2>5, StoreMade
  <1> QED
    BY <1>2, <1>3

\* The view begins a login: the old hash it found is remade, with a salt of its own.
LEMMA LoginStore ==
    ASSUME IInv, StoreInv, NEW r \in Requests, Login(r)
    PROVE  StoreInv'
  <1> DEFINE ask == req[r].ask
             found == {i \in Held(user) : user[i].name = ask.name /\ user[i].hash.pw = ask.pw}
  <1>1. /\ req[r] \in Request /\ ask.op = "login" /\ req[r].pc = "view" /\ LoginOpen(req[r])
        /\ UNCHANGED <<user, server, spent>>
    <2>1. Enters(r, "login")
      BY DEF Login
    <2>2. UNCHANGED <<user, server, spent>>
      BY DEF Login, tables
    <2> QED
      BY <2>1, <2>2, Entered DEF May
  <1>2. req[r].me = None
    <2>1. InFlight(req[r], r, user, lock) /\ Carries(req[r], spent, server)
      BY Typed DEF StoreInv
    <2> QED
      BY <1>1, <2>1 DEF InFlight, Carries, LoginOpen
  <1>3. CASE Done(r) /\ UNCHANGED minted
    BY <1>1, <1>3, FinishTyped, AnswerStore DEF Done
  <1>4. ASSUME NEW i \in found,
               LET stale == user[i].hash.method # "current"
                   row   == IF stale
                            THEN [user[i] EXCEPT !.hash.method = "current",
                                                 !.hash.salt = minted + 1]
                            ELSE user[i]
                   sess  == [uid |-> i, mark |-> Mark(row), era |-> era[i]]
               IN /\ req' = [req EXCEPT ![r] =
                        [@ EXCEPT !.pc = "login", !.id = i, !.stored = user[i],
                                  !.row = row, !.sess = sess]]
                  /\ minted' = IF stale THEN minted + 1 ELSE minted
        PROVE  StoreInv'
    <2> DEFINE stale == user[i].hash.method # "current"
               row   == IF stale
                        THEN [user[i] EXCEPT !.hash.method = "current",
                                             !.hash.salt = minted + 1]
                        ELSE user[i]
               sess  == [uid |-> i, mark |-> Mark(row), era |-> era[i]]
               q     == [req[r] EXCEPT !.pc = "login", !.id = i, !.stored = user[i],
                                       !.row = row, !.sess = sess]
    <2>1. /\ user[i] \in Row /\ user[i].hash \in Hash /\ minted \in Nat
          /\ user[i].hash.pw = ask.pw /\ Known(user[i], spent)
      BY RowsKnown DEF IInv, TypeOK, Held, Table, Row
    <2>2. /\ row = [user[i] EXCEPT !.hash = row.hash]
          /\ stale => /\ row.hash.method = "current" /\ row.hash.salt = minted + 1
                      /\ row.hash.pw = user[i].hash.pw /\ user[i].hash.method = "old"
          /\ ~stale => row.hash = user[i].hash
      <3>1. CASE ~stale
        BY <2>1, <3>1 DEF Row
      <3>2. CASE stale
        BY <2>1, <3>2 DEF Row, Hash
      <3> QED
        BY <3>1, <3>2
    <2>3. /\ stale => minted' = minted + 1
          /\ ~stale => minted' = minted
      BY <1>4
    <2>4. minted' \in Nat /\ minted' >= minted
      BY <2>1, <2>3
    <2>5. req' = [req EXCEPT ![r] = q]
      BY <1>4 DEF IInv, TypeOK
    <2>6. sess.uid = i /\ sess.mark = row.hash
      BY DEF Mark
    <2> HIDE DEF row, sess, stale
    <2>7. /\ q.pc = "login" /\ q.id = i /\ q.stored = user[i] /\ q.row = row /\ q.ask = ask
          /\ q.sess = sess /\ q.me = None
      BY <1>1, <1>2 DEF Request
    <2> HIDE DEF q
    <2>8. New(q) \subseteq (minted + 1)..minted'
      <3>1. New(q) = IF row.hash # user[i].hash THEN {row.hash.salt} ELSE {}
        BY <2>7 DEF New
      <3>2. CASE stale
        BY <2>1, <2>2, <2>3, <3>1, <3>2
      <3>3. CASE ~stale
        BY <2>2, <3>1, <3>3
      <3> QED
        BY <3>2, <3>3
    <2>9. Verified(q)
      BY <1>1, <2>1, <2>2, <2>6, <2>7 DEF Verified
    <2>10. Carries(q, spent, server)
      BY <2>1, <2>7, <2>9 DEF Carries, Saves
    <2> QED
      BY <1>1, <2>4, <2>5, <2>8, <2>10, StoreMade
  <1> QED
    BY <1>3, <1>4 DEF Login

\* A change to the caller's own account is prepared from what the request began with.
LEMMA ChangedStore ==
    ASSUME IInv, StoreInv, NEW r \in Requests, NEW pc, NEW row,
           req[r].pc = "view", req[r].me # None,
           req[r].ask.op \in {"rename", "passwd", "rotate"},
           req' = [req EXCEPT ![r] = Changed(req[r], pc, row)],
           pc \in {"clash", "write"}, req[r].ask.op # "rename" => pc = "write",
           req[r].ask.op = "rename" => row = [req[r].me EXCEPT !.name = req[r].ask.name],
           req[r].ask.op = "passwd" => /\ row = [req[r].me EXCEPT !.hash = row.hash, !.token = row.token]
                                       /\ row.hash.pw = req[r].ask.new,
           req[r].ask.op = "rotate" => row = [req[r].me EXCEPT !.token = row.token],
           req[r].ask.op = "passwd" => row.hash.salt \in (minted + 1)..minted',
           req[r].ask.op # "rename" => row.token \in (minted + 1)..minted',
           minted' \in Nat, minted' >= minted, UNCHANGED <<user, server, spent>>
    PROVE  StoreInv'
  <1> DEFINE q == Changed(req[r], pc, row)
  <1>1. req[r] \in Request /\ Carries(req[r], spent, server)
    BY DEF StoreInv, IInv, TypeOK
  <1>2. req[r].sess = req[r].cookie /\ Known(req[r].me, spent)
    BY <1>1 DEF Carries
  <1>3. /\ q.pc = pc /\ q.id = req[r].sess.uid /\ q.stored = req[r].me /\ q.me = row
        /\ q.row = row /\ q.ask = req[r].ask /\ q.sess = req[r].sess /\ q.cookie = req[r].cookie
    BY <1>1 DEF Request, Changed
  <1>4. req' = [req EXCEPT ![r] = q]
    OBVIOUS
  <1> HIDE DEF q
  <1>5. New(q) \subseteq (minted + 1)..minted'
    BY <1>3 DEF New
  <1>6. Change(q)
    BY <1>2, <1>3 DEF Change
  <1>7. Carries(q, spent, server)
    BY <1>2, <1>3, <1>6 DEF Carries, Saves
  <1> QED
    BY <1>4, <1>5, <1>7, StoreMade

LEMMA RenameStore ==
    ASSUME IInv, StoreInv, NEW r \in Requests, Rename(r)
    PROVE  StoreInv'
  <1> DEFINE row == [req[r].me EXCEPT !.name = req[r].ask.name]
  <1>1. /\ req[r] \in Request /\ Proven(req[r]) /\ req[r].ask.op = "rename"
        /\ req[r].pc = "view"
    BY Entered DEF Rename, May
  <1>2. /\ req[r].me # None /\ UNCHANGED <<user, server, spent, minted>>
        /\ minted' \in Nat /\ minted' >= minted
    BY <1>1 DEF Proven, Rename, tables, IInv, TypeOK
  <1>3. CASE Done(r)
    BY <1>1, <1>2, <1>3, FinishTyped, AnswerStore DEF Done
  <1>4. CASE req' = [req EXCEPT ![r] = Changed(req[r], "clash", row)]
    <2>1. row = [req[r].me EXCEPT !.name = req[r].ask.name]
      OBVIOUS
    <2> HIDE DEF row
    <2> QED
      BY <1>1, <1>2, <1>4, <2>1, ChangedStore
  <1> QED
    BY <1>3, <1>4 DEF Rename

LEMMA ChangePasswordStore ==
    ASSUME IInv, StoreInv, NEW r \in Requests, ChangePassword(r)
    PROVE  StoreInv'
  <1> DEFINE hash == [pw |-> req[r].ask.new, method |-> "current", salt |-> minted + 1]
             row  == [req[r].me EXCEPT !.hash = hash, !.token = minted + 2]
  <1>1. /\ req[r] \in Request /\ Proven(req[r]) /\ req[r].ask.op = "passwd"
        /\ req[r].pc = "view"
    BY Entered DEF ChangePassword, May
  <1>2. /\ UNCHANGED <<user, server, spent>> /\ minted \in Nat
        /\ minted' = minted + 2 /\ minted' \in Nat /\ minted' >= minted
    BY DEF ChangePassword, tables, IInv, TypeOK
  <1>3. req[r].me # None /\ req[r].me \in Row
    BY <1>1 DEF Proven, Request
  <1>4. hash.pw = req[r].ask.new /\ hash.salt = minted + 1
    OBVIOUS
  <1>5. req' = [req EXCEPT ![r] = Changed(req[r], "write", row)]
    BY DEF ChangePassword
  <1> HIDE DEF hash
  <1>6. row.hash = hash /\ row.token = minted + 2
    BY <1>3 DEF Row
  <1>7. /\ row = [req[r].me EXCEPT !.hash = row.hash, !.token = row.token]
        /\ row.hash.pw = req[r].ask.new
    BY <1>4, <1>6
  <1>8. row.hash.salt \in (minted + 1)..minted' /\ row.token \in (minted + 1)..minted'
    BY <1>2, <1>4, <1>6
  <1> HIDE DEF row
  <1> QED
    BY <1>1, <1>2, <1>3, <1>5, <1>7, <1>8, ChangedStore

LEMMA RegenerateTokenStore ==
    ASSUME IInv, StoreInv, NEW r \in Requests, RegenerateToken(r)
    PROVE  StoreInv'
  <1> DEFINE row  == [req[r].me EXCEPT !.token = minted + 1]
  <1>1. /\ req[r] \in Request /\ req[r].me # None /\ req[r].ask.op = "rotate"
        /\ req[r].pc = "view"
    BY Entered DEF RegenerateToken, May
  <1>2. /\ UNCHANGED <<user, server, spent>> /\ minted \in Nat
        /\ minted' = minted + 1 /\ minted' \in Nat /\ minted' >= minted
    BY DEF RegenerateToken, tables, IInv, TypeOK
  <1>3. row.token = minted + 1
    BY <1>1 DEF Request, Row
  <1>4. row = [req[r].me EXCEPT !.token = row.token]
    BY <1>3
  <1>5. row.token \in (minted + 1)..minted'
    BY <1>2, <1>3
  <1>6. req' = [req EXCEPT ![r] = Changed(req[r], "write", row)]
    BY DEF RegenerateToken
  <1> HIDE DEF row
  <1> QED
    BY <1>1, <1>2, <1>4, <1>5, <1>6, ChangedStore

LEMMA ChangeRoleStore ==
    ASSUME IInv, StoreInv, NEW r \in Requests, ChangeRole(r)
    PROVE  StoreInv'
  <1> DEFINE ask == req[r].ask
             row == [user[ask.id] EXCEPT !.role = ask.role]
             q   == [req[r] EXCEPT !.pc = "write", !.id = ask.id, !.stored = user[ask.id],
                                   !.row = row]
  <1>1. /\ req[r] \in Request /\ ask \in Asks /\ ask.op = "role" /\ req[r].pc = "view"
        /\ ask.id # 1
    BY Entered DEF ChangeRole, May
  <1>2. UNCHANGED <<user, server, spent, minted>>
    BY DEF ChangeRole, tables
  <1>3. CASE Done(r)
    BY <1>1, <1>2, <1>3, FinishTyped, AnswerStore DEF Done
  <1>4. CASE user[ask.id] # None
    <2>1. ask.id \in Held(user)
      BY <1>1, <1>4, AskFields DEF Held
    <2>2. Known(user[ask.id], spent)
      BY <2>1, RowsKnown
    <2>3. req' = [req EXCEPT ![r] = q]
      BY <1>4 DEF ChangeRole
    <2>4. row = [user[ask.id] EXCEPT !.role = ask.role]
      OBVIOUS
    <2> HIDE DEF row
    <2>5. /\ q.pc = "write" /\ q.id = ask.id /\ q.stored = user[ask.id]
          /\ q.row = row /\ q.ask = ask
      BY <1>1 DEF Request
    <2> HIDE DEF q
    <2>6. New(q) = {} /\ Change(q)
      BY <1>1, <2>4, <2>5 DEF New, Change
    <2>7. Carries(q, spent, server)
      BY <1>1, <2>2, <2>5, <2>6 DEF Carries, Saves
    <2> QED
      BY <1>2, <2>3, <2>6, <2>7, StoreUnwritten
  <1> QED
    BY <1>3, <1>4 DEF ChangeRole

LEMMA ClashStore ==
    ASSUME IInv, StoreInv, NEW r \in Requests, Clash(r)
    PROVE  StoreInv'
  <1> DEFINE p == req[r]
             q == [p EXCEPT !.pc = "write"]
  <1>1. p \in Request /\ p.pc = "clash" /\ Carries(p, spent, server)
    BY Typed DEF Clash, StoreInv
  <1>2. /\ UNCHANGED <<user, server, spent, minted>> /\ minted \in Nat
        /\ minted' \in Nat /\ minted' >= minted
    BY DEF Clash, tables, IInv, TypeOK
  <1>3. CASE Done(r)
    BY <1>1, <1>2, <1>3, FinishTyped, AnswerStore DEF Done
  <1>4. CASE Go(r, "write")
    <2>1. req' = [req EXCEPT ![r] = q]
      BY <1>4 DEF Go
    <2>2. /\ q.pc = "write" /\ q.id = p.id /\ q.stored = p.stored /\ q.me = p.me
          /\ q.row = p.row /\ q.ask = p.ask /\ q.sess = p.sess /\ q.cookie = p.cookie
      BY <1>1 DEF Request
    <2> HIDE DEF q
    <2>3. Saves(p) => p.ask.op = "rename"
      BY <1>1 DEF Carries, Change
    <2>4. New(q) = New(p)
      BY <1>1, <2>2, <2>3 DEF New, Saves
    <2>5. Carries(q, spent, server)
      BY <1>1, <2>2, <2>3 DEF Carries, Saves, Change, Welcome
    <2>6. \A n \in New(p) : n \notin spent
      BY DEF StoreInv, FreshInv
    <2>7. /\ Secrets(user') \subseteq spent' /\ spent \subseteq spent'
          /\ spent' \subseteq spent \cup New(req[r]) /\ (server' = server \/ IsFirstUser(user))
      BY <1>2 DEF StoreInv, FreshInv
    <2>8. New(q) \subseteq (minted + 1)..minted' \cup (New(req[r]) \ spent')
      BY <1>2, <2>4, <2>6
    <2>9. Carries(q, spent', server')
      BY <1>2, <2>5
    <2> QED
      BY <1>2, <2>1, <2>7, <2>8, <2>9, MoveStore
  <1> QED
    BY <1>3, <1>4 DEF Clash
--------------------------------------------------------------------------------
(* The steps that write.  Each is one step of AccountStore or none, changes    *)
(* what its request asked for, and keeps StoreInv.                             *)

\* No row is ahead of the counter that gives ids out.
Behind == \A i \in Held(user) : i <= seq

Written(r) ==
    /\ [Promise!Next]_(Promise!vars)
    /\ \A i \in Ids : user'[i] # user[i] => Asked(req[r], i)

\* AccountStore speaks of the same data.
LEMMA SameData ==
    /\ Promise!Ids = Ids /\ Promise!Row = Row /\ Promise!Settings = Settings
    /\ \A u : Promise!Held(u) = Held(u) /\ Promise!Secrets(u) = Secrets(u)
    /\ \A u : Promise!IsFirstUser(u) <=> IsFirstUser(u)
    /\ \A u, n, i : Promise!NameTaken(u, n, i) <=> NameTaken(u, n, i)
  BY DEF Promise!Ids, Ids, Promise!Row, Row, Promise!Hash, Hash, Promise!Roles, Roles,
         Promise!Settings, Settings, Promise!Held, Held, Promise!Secrets, Secrets,
         Promise!IsFirstUser, IsFirstUser, Promise!NameTaken, NameTaken

\* The one entry a step of AccountStore writes.
LEMMA PutStore ==
    ASSUME NEW i \in Ids, NEW row \in Row \cup {None}, user \in Table, Secrets(user) \subseteq spent,
           user' = [user EXCEPT ![i] = row], spent' = spent \cup Secrets(user')
    PROVE  /\ Promise!Put(i, row) /\ user'[i] = row
           /\ \A j \in Ids : user'[j] # user[j] => j = i
           /\ Secrets(user') \subseteq spent \cup (IF row = None THEN {} ELSE {row.token, row.hash.salt})
  BY SecretsPut, SameData DEF Promise!Put, Table

\* Nothing was written after all.
LEMMA Nothing ==
    ASSUME NEW r \in Requests, UNCHANGED <<user, seq, server, spent>>
    PROVE  Written(r)
  BY DEF Written, Promise!vars

LEMMA FoundWritten ==
    ASSUME IInv, StoreInv, NEW r \in Requests, Found(r)
    PROVE  Written(r) /\ StoreInv'
  <1> DEFINE p == req[r]
             q == Finish(p)
  <1>1. /\ p.pc = "found" /\ user' = [user EXCEPT ![seq + 1] = p.row]
        /\ spent' = spent \cup Secrets(user') /\ seq' = seq + 1 /\ minted' = minted
        /\ server' = p.ask.setup /\ req' = [req EXCEPT ![r] = q]
    BY DEF Found, Store, Done, IInv, TypeOK
  <1>2. /\ p.ask \in Asks /\ p.ask.op = "register"
        /\ p.row \in Row /\ p.row.role = "admin" /\ IsFirstUser(user)
        /\ p.row.name = p.ask.name /\ p.row.hash.pw = p.ask.pw /\ q.pc = "respond"
    BY <1>1, Typed, FinishTyped DEF InFlight, StoreInv, Carries
  <1>3. /\ seq = 0 /\ seq + 1 = 1 /\ 1 \in Ids /\ user \in Table /\ user[1] = None
        /\ Secrets(user) \subseteq spent
    BY <1>2, OneIsAnId, Emptiness DEF IInv, Governed, TypeOK, StoreInv, FreshInv
  <1>4. p.row # None /\ server' \in Settings
    BY <1>1, <1>2, NoneApart, AskFields
  <1>5. /\ New(p) = {p.row.token, p.row.hash.salt}
        /\ {p.row.token, p.row.hash.salt} \cap spent = {}
    <2>1. New(p) = {p.row.token, p.row.hash.salt}
      BY <1>1, <1>2 DEF New
    <2> QED
      BY <2>1 DEF StoreInv, FreshInv
  <1> HIDE DEF p, q
  <1>6. /\ Promise!Put(1, p.row) /\ user'[1] = p.row
        /\ \A j \in Ids : user'[j] # user[j] => j = 1
        /\ Secrets(user') \subseteq spent \cup {p.row.token, p.row.hash.salt}
    BY <1>1, <1>2, <1>3, <1>4, PutStore
  <1>7. Promise!Found(p.row, server')
    BY <1>1, <1>2, <1>3, <1>5, <1>6, SameData DEF Promise!Found
  <1>8. Promise!Next
    BY <1>2, <1>3, <1>4, <1>6, <1>7, SameData DEF Promise!Next
  <1>9. \A i \in Ids : user'[i] # user[i] => Asked(p, i)
    <2> SUFFICES ASSUME NEW i \in Ids, user'[i] # user[i]
                 PROVE  Asked(p, i)
      OBVIOUS
    <2>1. i = 1 /\ user[i] = None /\ user'[i] = p.row /\ seq' = 1
      BY <1>1, <1>3, <1>6
    <2>2. p.ask.op = "register" /\ server' = p.ask.setup
      BY <1>1, <1>2
    <2>3. p.row.name = p.ask.name /\ p.row.hash.pw = p.ask.pw /\ p.row.role = "admin"
      BY <1>2
    <2> QED
      BY ONLY <2>1, <2>2, <2>3 DEF Asked
  <1>10. Secrets(user') \subseteq spent \cup New(req[r])
    BY <1>5, <1>6 DEF p
  <1>11. server' = server \/ IsFirstUser(user)
    BY <1>2
  <1>12. StoreInv'
    BY <1>1, <1>2, <1>10, <1>11, StoreWritten
  <1> QED
    BY <1>8, <1>9, <1>12 DEF Written, p

LEMMA InsertWritten ==
    ASSUME IInv, StoreInv, Behind, NEW r \in Requests, Insert(r)
    PROVE  Written(r) /\ StoreInv'
  <1> DEFINE p == req[r]
             q == Finish(p)
             i == seq + 1
  <1>1. /\ p.pc = "write" /\ p.ask.op = "register" /\ seq < MaxId
        /\ UNCHANGED <<server, minted>> /\ req' = [req EXCEPT ![r] = q]
    BY DEF Insert, Done, IInv, TypeOK
  <1>2. /\ p.ask \in Asks /\ p.row \in Row /\ ~IsFirstUser(user)
        /\ p.row.name = p.ask.name /\ p.row.hash.pw = p.ask.pw /\ p.row.role = "pending"
        /\ Welcome(p, server) /\ q.pc = "respond"
    BY <1>1, Typed, FinishTyped DEF InFlight, Later, StoreInv, Carries
  <1>3. /\ i \in Ids /\ i # 1 /\ user \in Table /\ Secrets(user) \subseteq spent
    BY <1>1, <1>2, MaxIdAssumption DEF IInv, TypeOK, Ids, StoreInv, FreshInv
  <1>4. user[i] = None
    BY <1>3 DEF Behind, Held, Ids, IInv, TypeOK
  <1>5. /\ New(p) = {p.row.token, p.row.hash.salt}
        /\ {p.row.token, p.row.hash.salt} \cap spent = {} /\ p.row # None
    <2>1. New(p) = {p.row.token, p.row.hash.salt}
      BY <1>1, <1>2 DEF New
    <2> QED
      BY <1>2, <2>1, NoneApart DEF StoreInv, FreshInv
  <1>6. CASE NameTaken(user, p.row.name, i)
    <2>1. UNCHANGED <<user, seq, server, spent>>
      BY <1>6 DEF Insert
    <2> HIDE DEF p, q, i
    <2> QED
      BY <1>1, <1>2, <2>1, Nothing, AnswerStore
  <1>7. CASE ~NameTaken(user, p.row.name, i)
    <2>1. /\ user' = [user EXCEPT ![i] = p.row] /\ seq' = i
          /\ spent' = spent \cup Secrets(user')
      BY <1>7 DEF Insert, Store
    <2>2. Welcome(p, server) => /\ server.mode = "multi" /\ server # None
                                /\ server.regtoken \in {"", p.ask.regtoken}
      BY DEF Welcome
    <2>3. i = seq + 1
      OBVIOUS
    <2> HIDE DEF p, q, i
    <2>4. /\ Promise!Put(i, p.row) /\ user'[i] = p.row
          /\ \A j \in Ids : user'[j] # user[j] => j = i
          /\ Secrets(user') \subseteq spent \cup {p.row.token, p.row.hash.salt}
      BY <1>2, <1>3, <1>5, <2>1, PutStore
    <2>5. Promise!Enroll(p.row)
      BY <1>1, <1>2, <1>5, <1>7, <2>1, <2>2, <2>3, <2>4, SameData DEF Promise!Enroll
    <2>6. Promise!Next
      BY <1>2, <1>3, <2>3, <2>4, <2>5, SameData DEF Promise!Next
    <2>7. \A j \in Ids : user'[j] # user[j] => Asked(p, j)
      BY <1>1, <1>2, <1>3, <1>4, <2>1, <2>2, <2>4 DEF Asked
    <2>8. Secrets(user') \subseteq spent \cup New(req[r])
      BY <1>5, <2>4 DEF p
    <2>9. StoreInv'
      BY <1>1, <1>2, <2>1, <2>8, StoreWritten
    <2> QED
      BY <2>6, <2>7, <2>9 DEF Written, p
  <1> QED
    BY <1>6, <1>7

LEMMA LoginSaveWritten ==
    ASSUME IInv, StoreInv, NEW r \in Requests, LoginSave(r)
    PROVE  Written(r) /\ StoreInv'
  <1> DEFINE p == req[r]
             q == Finish(p)
             i == p.id
             row == [user[i] EXCEPT !.hash = p.row.hash]
  <1>1. /\ p.pc = "login" /\ req' = [req EXCEPT ![r] = q]
        /\ user' = IF Rehashes(user, p) THEN [user EXCEPT ![i].hash = p.row.hash] ELSE user
        /\ spent' = spent \cup Secrets(user') /\ UNCHANGED <<seq, server, minted>>
    BY DEF LoginSave, Store, Done
  <1>2. /\ p \in Request /\ i \in Ids /\ p.row \in Row /\ p.stored \in Row /\ q.pc = "respond"
        /\ Verified(p) /\ user \in Table /\ Secrets(user) \subseteq spent
    BY <1>1, Typed, FinishTyped DEF InFlight, StoreInv, FreshInv, Carries, IInv, TypeOK
  <1>3. CASE user' = user
    <2>1. UNCHANGED <<user, seq, server, spent>>
      BY <1>1, <1>2, <1>3
    <2> HIDE DEF p, q
    <2> QED
      BY <1>1, <1>2, <2>1, Nothing, AnswerStore
  <1>4. CASE user' # user
    <2>1. /\ user[i] \in Row /\ user[i] # None /\ user[i].hash = p.stored.hash
          /\ user' = [user EXCEPT ![i] = row]
      BY <1>1, <1>2, <1>4 DEF Rehashes, Table
    <2>2. /\ row \in Row /\ row.hash = p.row.hash /\ row.token = user[i].token
          /\ row = [user[i] EXCEPT !.hash = row.hash]
      BY <1>2, <2>1 DEF Row
    <2>3. p.row.hash # p.stored.hash
      <3>1. p.row.hash = p.stored.hash => row = user[i]
        BY <2>1, <2>2 DEF Row
      <3> QED
        BY <1>2, <1>4, <2>1, <3>1 DEF Table
    <2>4. /\ user[i].hash.method = "old" /\ row.hash.method = "current"
          /\ user[i].hash.pw = row.hash.pw /\ user[i].hash.pw = p.ask.pw
      BY <1>2, <2>1, <2>2, <2>3 DEF Verified
    <2>5. New(p) = {p.row.hash.salt} /\ p.row.hash.salt \notin spent
      <3>1. New(p) = {p.row.hash.salt}
        BY <1>1, <2>3 DEF New
      <3> QED
        BY <3>1 DEF StoreInv, FreshInv
    <2>6. user[i].token \in spent /\ row # None
      BY <1>2, <2>1, <2>2, NoneApart DEF Secrets, Held
    <2>7. p.ask.op = "login"
      BY <1>1, <1>2 DEF Verified
    <2> HIDE DEF p, q, i, row
    <2>8. /\ Promise!Put(i, row) /\ user'[i] = row
          /\ \A j \in Ids : user'[j] # user[j] => j = i
          /\ Secrets(user') \subseteq spent \cup {row.token, row.hash.salt}
      BY <1>1, <1>2, <2>1, <2>2, <2>6, PutStore
    <2>9. Promise!Rehash(i, row.hash)
      BY <1>1, <2>1, <2>2, <2>4, <2>5, <2>8 DEF Promise!Rehash
    <2>10. Promise!Next
      BY <1>2, <2>2, <2>8, <2>9, SameData DEF Promise!Next
    <2>11. \A j \in Ids : user'[j] # user[j] => Asked(p, j)
      <3>1. /\ user'[i] = [user[i] EXCEPT !.hash = user'[i].hash] /\ user[i].hash.pw = p.ask.pw
            /\ user'[i].hash.pw = p.ask.pw /\ user'[i] # None
        BY <2>2, <2>4, <2>6, <2>8
      <3>2. Asked(p, i)
        BY <2>1, <2>7, <3>1 DEF Asked
      <3> QED
        BY <2>8, <3>2
    <2>12. Secrets(user') \subseteq spent \cup New(req[r])
      BY <2>2, <2>5, <2>6, <2>8 DEF p
    <2>13. StoreInv'
      BY <1>1, <1>2, <2>12, StoreWritten
    <2> QED
      BY <2>10, <2>11, <2>13 DEF Written, p
  <1> QED
    BY <1>3, <1>4

\* A row is its four columns.
LEMMA SameRow ==
    ASSUME NEW a \in Row, NEW b \in Row,
           a.name = b.name, a.hash = b.hash, a.role = b.role, a.token = b.token
    PROVE  a = b
  BY DEF Row

\* What a save leaves of the row is the row as it is, with what was asked for.
LEMMA MergedRow ==
    ASSUME NEW now \in Row, NEW p, p.row \in Row, p.stored \in Row, Change(p),
           p.ask.op = "passwd" => p.row.hash # p.stored.hash,
           p.ask.op \in {"passwd", "rotate"} => p.row.token # p.stored.token,
           Merge(now, p.row, p.stored) # now
    PROVE  LET row == Merge(now, p.row, p.stored)
           IN /\ p.ask.op = "rename" => /\ row = [now EXCEPT !.name = p.ask.name]
                                        /\ p.row.name # p.stored.name /\ p.row.name = p.ask.name
              /\ p.ask.op = "passwd" => row = [now EXCEPT !.hash = p.row.hash, !.token = p.row.token]
              /\ p.ask.op = "rotate" => row = [now EXCEPT !.token = p.row.token]
              /\ p.ask.op = "role"   => row = [now EXCEPT !.role = p.ask.role]
  <1> DEFINE row == Merge(now, p.row, p.stored)
  <1>1. CASE p.ask.op = "rename"
    BY <1>1 DEF Merge, Row, Change
  <1>2. CASE p.ask.op = "passwd"
    <2>1. p.row.name = p.stored.name /\ p.row.role = p.stored.role
      BY <1>2 DEF Change, Row
    <2>2. p.row.hash # p.stored.hash /\ p.row.token # p.stored.token
      BY <1>2
    <2>3. row = [name |-> now.name, hash |-> p.row.hash, role |-> now.role, token |-> p.row.token]
      BY <2>1, <2>2 DEF Merge
    <2>4. row = [now EXCEPT !.hash = p.row.hash, !.token = p.row.token]
      <3> DEFINE new == [now EXCEPT !.hash = p.row.hash, !.token = p.row.token]
      <3>1. p.row.hash \in Hash /\ p.row.token \in Nat
        BY DEF Row
      <3>2. /\ new \in Row /\ new.name = now.name /\ new.hash = p.row.hash
            /\ new.role = now.role /\ new.token = p.row.token
        BY <3>1 DEF Row
      <3>3. row \in Row
        BY <2>3, <3>1 DEF Row
      <3>4. /\ row.name = now.name /\ row.hash = p.row.hash
            /\ row.role = now.role /\ row.token = p.row.token
        BY <2>3
      <3> HIDE DEF row, new
      <3>5. row = new
        BY <3>2, <3>3, <3>4, SameRow
      <3> QED
        BY <3>5 DEF new
    <2> QED
      BY <1>2, <2>4
  <1>3. CASE p.ask.op = "rotate"
    <2>1. /\ p.row.name = p.stored.name /\ p.row.role = p.stored.role
          /\ p.row.hash = p.stored.hash
      BY <1>3 DEF Change, Row
    <2> QED
      BY <1>3, <2>1 DEF Merge, Row
  <1>4. CASE p.ask.op = "role"
    BY <1>4 DEF Merge, Row, Change
  <1> QED
    BY <1>1, <1>2, <1>3, <1>4 DEF Change

LEMMA UpdateWritten ==
    ASSUME IInv, StoreInv, NEW r \in Requests, Update(r)
    PROVE  Written(r) /\ StoreInv'
  <1> DEFINE p == req[r]
             now == IF p.ask.op = "passwd" /\ user[p.id] # None
                    THEN [era EXCEPT ![p.id] = @ + 1] ELSE era
             done == IF p.ask.op = "passwd" THEN [p EXCEPT !.era = now[p.id]] ELSE p
             q == Finish(done)
             i == p.id
             row == Merge(user[i], p.row, p.stored)
  <1>1. /\ p.pc = "write" /\ p.ask.op # "register"
        /\ user' = Saved(user, p) /\ spent' = spent \cup Secrets(user')
        /\ req' = [req EXCEPT ![r] = q] /\ UNCHANGED <<seq, server, minted>>
    BY DEF Update, Store
  <1>2. /\ i \in Ids /\ p.row \in Row /\ p.stored \in Row /\ q.pc = "respond"
        /\ Known(p.stored, spent) /\ Change(p)
        /\ user \in Table /\ Secrets(user) \subseteq spent
    BY <1>1, Typed DEF InFlight, Saves, StoreInv, FreshInv, Carries, IInv, TypeOK, Finish, Idle
  <1>3. /\ p.ask.op = "passwd" => New(p) = {p.row.hash.salt, p.row.token}
        /\ p.ask.op = "rotate" => New(p) = {p.row.token}
        /\ New(p) \cap spent = {}
    <2>1. New(p) \cap spent = {}
      BY DEF StoreInv, FreshInv
    <2> QED
      BY <1>1, <2>1 DEF New
  <1>4. /\ p.ask.op = "passwd" => p.row.hash # p.stored.hash
        /\ p.ask.op \in {"passwd", "rotate"} => p.row.token # p.stored.token
    BY <1>2, <1>3 DEF Known
  <1>5. CASE user' = user
    <2>1. UNCHANGED <<user, seq, server, spent>>
      BY <1>1, <1>2, <1>5
    <2> HIDE DEF p, q
    <2> QED
      BY <1>1, <1>2, <2>1, Nothing, AnswerStore
  <1>6. CASE user' # user
    <2>1. /\ user[i] \in Row /\ user[i] # None /\ user' = [user EXCEPT ![i] = row]
          /\ p.row.name # p.stored.name => ~NameTaken(user, p.row.name, i)
      BY <1>1, <1>2, <1>6 DEF Saved, Refused, Table
    <2>2. row \in Row /\ row # None
      BY <1>2, <2>1, NoneApart DEF Merge, Row
    <2>3. row # user[i]
      BY <1>2, <1>6, <2>1 DEF Table
    <2>4. /\ p.ask.op = "rename" => /\ row = [user[i] EXCEPT !.name = p.ask.name]
                                    /\ p.row.name # p.stored.name /\ p.row.name = p.ask.name
          /\ p.ask.op = "passwd" => row = [user[i] EXCEPT !.hash = p.row.hash, !.token = p.row.token]
          /\ p.ask.op = "rotate" => row = [user[i] EXCEPT !.token = p.row.token]
          /\ p.ask.op = "role"   => row = [user[i] EXCEPT !.role = p.ask.role]
      BY <1>2, <1>4, <2>1, <2>3, MergedRow
    <2>5. p.ask.op \in {"rename", "passwd", "rotate", "role"}
      BY <1>2 DEF Change
    <2>6. user[i].token \in spent /\ user[i].hash.salt \in spent
      BY <1>2, <2>1 DEF Secrets, Held
    <2>7. /\ p.ask.op \in {"rename", "passwd", "rotate"} => p.cookie.uid = i
          /\ p.ask.op = "role" => i = p.ask.id /\ i # 1
          /\ p.ask.op = "passwd" => p.row.hash.pw = p.ask.new
      BY <1>2 DEF Change
    <2> HIDE DEF p, q, i, row
    <2>8. /\ Promise!Put(i, row) /\ user'[i] = row
          /\ \A j \in Ids : user'[j] # user[j] => j = i
          /\ Secrets(user') \subseteq spent \cup {row.token, row.hash.salt}
      BY <1>1, <1>2, <2>1, <2>2, PutStore
    <2>9. /\ \/ Promise!Rename(i, row.name) \/ Promise!SetPassword(i, row.hash, row.token)
             \/ Promise!RotateToken(i, row.token) \/ Promise!SetRole(i, row.role)
          /\ {row.token, row.hash.salt} \subseteq spent \cup New(p)
          /\ Asked(p, i)
      <3>1. CASE p.ask.op = "rename"
        <4>1. row.name = p.ask.name /\ row.token = user[i].token /\ row.hash = user[i].hash
          BY <2>1, <2>4, <3>1 DEF Row
        <4>2. Promise!Rename(i, row.name)
          BY <1>1, <2>1, <2>4, <2>8, <3>1, <4>1, SameData DEF Promise!Rename
        <4> QED
          BY <2>1, <2>2, <2>4, <2>6, <2>7, <2>8, <3>1, <4>1, <4>2 DEF Asked
      <3>2. CASE p.ask.op = "passwd"
        <4>1. row.hash = p.row.hash /\ row.token = p.row.token
          BY <2>1, <2>4, <3>2 DEF Row
        <4>2. Promise!SetPassword(i, row.hash, row.token)
          BY <1>1, <1>3, <2>1, <2>4, <2>8, <3>2, <4>1 DEF Promise!SetPassword
        <4>3. /\ user'[i] = [user[i] EXCEPT !.hash = user'[i].hash, !.token = user'[i].token]
              /\ user'[i].hash.pw = p.ask.new /\ user'[i] # None /\ p.cookie.uid = i
          BY <2>2, <2>4, <2>7, <2>8, <3>2, <4>1
        <4>4. Asked(p, i)
          BY <2>1, <3>2, <4>3 DEF Asked
        <4> QED
          BY <1>3, <3>2, <4>1, <4>2, <4>4
      <3>3. CASE p.ask.op = "rotate"
        <4>1. row.token = p.row.token /\ row.hash = user[i].hash
          BY <2>1, <2>4, <3>3 DEF Row
        <4>2. Promise!RotateToken(i, row.token)
          BY <1>1, <1>3, <2>1, <2>4, <2>8, <3>3, <4>1 DEF Promise!RotateToken
        <4> QED
          BY <1>3, <2>1, <2>2, <2>4, <2>6, <2>7, <2>8, <3>3, <4>1, <4>2 DEF Asked
      <3>4. CASE p.ask.op = "role"
        <4>1. row.role = p.ask.role /\ row.token = user[i].token /\ row.hash = user[i].hash
          BY <2>1, <2>4, <3>4 DEF Row
        <4>2. Promise!SetRole(i, row.role)
          BY <1>1, <2>1, <2>4, <2>7, <2>8, <3>4, <4>1 DEF Promise!SetRole
        <4> QED
          BY <2>1, <2>2, <2>4, <2>6, <2>7, <2>8, <3>4, <4>1, <4>2 DEF Asked
      <3> QED
        BY <2>5, <3>1, <3>2, <3>3, <3>4
    <2>10. Promise!Next
      BY <1>2, <2>2, <2>8, <2>9, SameData DEF Promise!Next
    <2>11. Secrets(user') \subseteq spent \cup New(req[r])
      BY <2>8, <2>9 DEF p
    <2>12. StoreInv'
      BY <1>1, <1>2, <2>11, StoreWritten
    <2> QED
      BY <2>8, <2>9, <2>10, <2>12 DEF Written, p
  <1> QED
    BY <1>5, <1>6

LEMMA DeleteUserWritten ==
    ASSUME IInv, StoreInv, NEW r \in Requests, DeleteUser(r)
    PROVE  Written(r) /\ StoreInv'
  <1> DEFINE p == req[r]
             i == p.ask.id
             q == Finish(p)
  <1>1. p \in Request /\ p.ask \in Asks /\ p.ask.op = "delete" /\ i # 1
    BY Entered DEF DeleteUser, May
  <1>2. i \in Ids /\ user \in Table /\ Secrets(user) \subseteq spent /\ q.pc = "respond"
    BY <1>1, AskFields, FinishTyped DEF IInv, TypeOK, StoreInv, FreshInv
  <1>3. /\ user' = [user EXCEPT ![i] = None] /\ req' = [req EXCEPT ![r] = q]
        /\ spent' = spent \cup Secrets(user') /\ UNCHANGED <<seq, server, minted>>
    BY DEF DeleteUser, Store, Done
  <1> HIDE DEF p, q, i
  <1>4. /\ Promise!Put(i, None) /\ user'[i] = None
        /\ \A j \in Ids : user'[j] # user[j] => j = i
        /\ Secrets(user') \subseteq spent
    BY <1>2, <1>3, PutStore
  <1>5. Promise!Remove(i)
    BY <1>1, <1>3, <1>4 DEF Promise!Remove
  <1>6. Promise!Next
    BY <1>2, <1>5, SameData DEF Promise!Next
  <1>7. \A j \in Ids : user'[j] # user[j] => Asked(p, j)
    BY <1>1, <1>4 DEF Asked, i
  <1>8. Secrets(user') \subseteq spent \cup New(req[r]) /\ (server' = server \/ IsFirstUser(user))
    BY <1>3, <1>4
  <1>9. StoreInv'
    BY <1>2, <1>3, <1>8, StoreWritten
  <1> QED
    BY <1>6, <1>7, <1>9 DEF Written, p
--------------------------------------------------------------------------------
(* Every step.                                                                *)

LEMMA LogoutStore ==
    ASSUME IInv, StoreInv, NEW r \in Requests, Logout(r)
    PROVE  StoreInv' /\ UNCHANGED <<user, seq, server, spent>>
  <1> DEFINE q == Finish([req[r] EXCEPT !.sess = NoSession])
  <1>1. /\ req' = [req EXCEPT ![r] = q] /\ q.pc = "respond"
        /\ UNCHANGED <<user, seq, server, spent, minted>>
    BY DEF Logout, tables, Finish, Idle, IInv, TypeOK
  <1> HIDE DEF q
  <1> QED
    BY <1>1, AnswerStore

\* The view ends where it stands, or the request does.
LEMMA EndStore ==
    ASSUME IInv, StoreInv, NEW r \in Requests,
           Done(r) \/ req' = [req EXCEPT ![r] = Idle], UNCHANGED <<tables, minted>>
    PROVE  StoreInv' /\ UNCHANGED <<user, seq, server, spent>>
  <1>1. UNCHANGED <<user, seq, server, spent, minted>>
    BY DEF tables
  <1>2. CASE Done(r)
    BY <1>1, <1>2, FinishTyped, AnswerStore DEF Done, IInv, TypeOK
  <1>3. CASE req' = [req EXCEPT ![r] = Idle]
    <2>1. Idle.pc = "idle"
      BY DEF Idle
    <2> QED
      BY <1>1, <1>3, <2>1, AnswerStore
  <1> QED
    BY <1>1, <1>2, <1>3

LEMMA StepStores ==
    ASSUME IInv, StoreInv, Behind, NEW r \in Requests, Step(r)
    PROVE  StoreInv' /\ (Written(r) \/ UNCHANGED <<user, seq, server, spent>>)
  <1>1. CASE Answer(r)
    BY <1>1, EndStore DEF Answer
  <1>2. CASE Register(r) \/ RegisterFirst(r)
    BY <1>2, RegisterStore, RegisterFirstStore DEF Register, RegisterFirst, tables
  <1>3. CASE Found(r) \/ Insert(r)
    BY <1>3, FoundWritten, InsertWritten
  <1>4. CASE Login(r)
    BY <1>4, LoginStore DEF Login, tables
  <1>5. CASE LoginSave(r) \/ Logout(r)
    BY <1>5, LoginSaveWritten, LogoutStore
  <1>6. CASE Rename(r) \/ ChangePassword(r)
    BY <1>6, RenameStore, ChangePasswordStore DEF Rename, ChangePassword, tables
  <1>7. CASE RegenerateToken(r) \/ ChangeRole(r)
    BY <1>7, RegenerateTokenStore, ChangeRoleStore DEF RegenerateToken, ChangeRole, tables
  <1>8. CASE Clash(r)
    BY <1>8, ClashStore DEF Clash, tables
  <1>9. CASE Update(r) \/ DeleteUser(r)
    BY <1>9, UpdateWritten, DeleteUserWritten
  <1>10. CASE Respond(r)
    BY <1>10, EndStore DEF Respond
  <1> QED
    BY <1>1, <1>2, <1>3, <1>4, <1>5, <1>6, <1>7, <1>8, <1>9, <1>10 DEF Step

\* A step that writes accounts is its view's last.
LEMMA StepMoves ==
    ASSUME IInv, NEW r \in Requests, Step(r), user' # user
    PROVE  req'[r] # req[r]
  <1>1. req[r] \in Request /\ req \in [Requests -> Request]
    BY DEF IInv, TypeOK
  <1>2. req[r].pc # "respond" /\ Done(r) => req'[r] # req[r]
    BY <1>1, FinishTyped DEF Done
  <1>3. CASE Found(r) \/ Insert(r) \/ LoginSave(r) \/ DeleteUser(r)
    BY <1>2, <1>3 DEF Found, Insert, LoginSave, DeleteUser, Enters
  <1>4. CASE Update(r)
    <2>1. PICK q : req' = [req EXCEPT ![r] = Finish(q)]
      BY <1>4 DEF Update
    <2>2. req'[r].pc = "respond" /\ req[r].pc = "write"
      BY <1>1, <1>4, <2>1 DEF Update, Finish, Idle
    <2> QED
      BY <2>2
  <1>5. ~(Answer(r) \/ Register(r) \/ RegisterFirst(r) \/ Login(r) \/ Logout(r))
    BY DEF Answer, Register, RegisterFirst, Login, Logout, tables
  <1>6. ~(Rename(r) \/ ChangePassword(r) \/ RegenerateToken(r) \/ ChangeRole(r))
    BY DEF Rename, ChangePassword, RegenerateToken, ChangeRole, tables
  <1>7. ~(Clash(r) \/ Respond(r))
    BY DEF Clash, Respond, tables
  <1> QED
    BY <1>3, <1>4, <1>5, <1>6, <1>7 DEF Step

\* AccountStore gives ids out in order.
LEMMA StillBehind ==
    ASSUME IInv, Behind, [Promise!Next]_(Promise!vars)
    PROVE  Behind'
  <1>1. user \in Table /\ seq \in 0..MaxId
    BY DEF IInv, TypeOK
  <1>2. CASE UNCHANGED Promise!vars
    BY <1>2 DEF Promise!vars, Behind
  <1>3. ASSUME NEW i \in Ids, NEW row, Promise!Put(i, row), seq' \in Nat, seq' >= seq,
               row = None \/ user[i] # None \/ i = seq'
        PROVE  Behind'
    <2>1. user' = [user EXCEPT ![i] = row]
      BY <1>3 DEF Promise!Put
    <2>2. ASSUME NEW j \in Held(user')
          PROVE  j <= seq'
      <3>1. j \in Ids /\ (j # i => user[j] # None)
        BY <1>1, <2>1, <2>2 DEF Held, Table
      <3>2. user[j] # None => j <= seq
        BY <3>1 DEF Behind, Held
      <3>3. j = i => row # None
        BY <1>1, <2>1, <2>2 DEF Held, Table
      <3> QED
        BY <1>1, <1>3, <3>1, <3>2, <3>3 DEF Ids
    <2> QED
      BY <2>2 DEF Behind
  <1>4. CASE Promise!Next
    <2>1. PICK i \in Ids :
             LET row == user'[i] IN
             \/ Promise!Remove(i)
             \/ i = 1 /\ Promise!Found(row, server')
             \/ i = seq + 1 /\ Promise!Enroll(row)
             \/ Promise!Rename(i, row.name)
             \/ Promise!SetPassword(i, row.hash, row.token)
             \/ Promise!Rehash(i, row.hash)
             \/ Promise!RotateToken(i, row.token)
             \/ Promise!SetRole(i, row.role)
      BY <1>4, SameData DEF Promise!Next
    <2> DEFINE row == user'[i]
    <2>2. CASE Promise!Remove(i)
      BY <1>1, <1>3, <2>2 DEF Promise!Remove
    <2>3. CASE i = 1 /\ Promise!Found(row, server')
      BY <1>1, <1>3, <2>3 DEF Promise!Found
    <2>4. CASE i = seq + 1 /\ Promise!Enroll(row)
      BY <1>1, <1>3, <2>4 DEF Promise!Enroll
    <2>5. CASE Promise!Rename(i, row.name)
      BY <1>1, <1>3, <2>5 DEF Promise!Rename
    <2>6. CASE Promise!SetPassword(i, row.hash, row.token)
      BY <1>1, <1>3, <2>6 DEF Promise!SetPassword
    <2>7. CASE Promise!Rehash(i, row.hash)
      BY <1>1, <1>3, <2>7 DEF Promise!Rehash
    <2>8. CASE Promise!RotateToken(i, row.token)
      BY <1>1, <1>3, <2>8 DEF Promise!RotateToken
    <2>9. CASE Promise!SetRole(i, row.role)
      BY <1>1, <1>3, <2>9 DEF Promise!SetRole
    <2> QED
      BY <2>1, <2>2, <2>3, <2>4, <2>5, <2>6, <2>7, <2>8, <2>9
  <1> QED
    BY <1>2, <1>4

\* The change of one step, as OnlyWhatWasAsked has it.
Owned == \A i \in Ids : user'[i] # user[i] =>
            \E r \in Requests : req'[r] # req[r] /\ Asked(req[r], i)

LEMMA NextStores ==
    ASSUME IInv, StoreInv, Behind, [Next]_vars
    PROVE  /\ StoreInv' /\ Behind'
           /\ [Promise!Next]_(Promise!vars)
           /\ [Owned]_vars
  <1>1. CASE UNCHANGED vars
    <2>1. UNCHANGED <<user, seq, server, spent, req, minted>>
      BY <1>1 DEF vars
    <2>2. StoreInv' /\ Behind'
      BY <2>1 DEF StoreInv, FreshInv, Behind
    <2> QED
      BY <1>1, <2>1, <2>2 DEF Promise!vars
  <1>2. ASSUME NEW r \in Requests, StoreInv',
               Written(r) \/ UNCHANGED <<user, seq, server, spent>>,
               user' # user => req'[r] # req[r]
        PROVE  /\ StoreInv' /\ Behind' /\ [Promise!Next]_(Promise!vars) /\ Owned
    <2>1. Written(r)
      BY <1>2, Nothing
    <2>2. Owned
      BY <1>2, <2>1 DEF Written, Owned
    <2> QED
      BY <1>2, <2>1, <2>2, StillBehind DEF Written
  <1>3. ASSUME NEW r \in Requests, NEW b \in Browsers, NEW a \in Asks, Start(r, b, a)
        PROVE  /\ StoreInv' /\ Behind' /\ [Promise!Next]_(Promise!vars) /\ Owned
    <2>1. StoreInv' /\ UNCHANGED <<user, seq, server, spent>>
      BY <1>3, StartStore DEF Start, tables
    <2> QED
      BY <1>2, <2>1
  <1>4. ASSUME NEW r \in Requests, Step(r)
        PROVE  /\ StoreInv' /\ Behind' /\ [Promise!Next]_(Promise!vars) /\ Owned
    BY <1>2, <1>4, StepStores, StepMoves
  <1>5. ASSUME NEW r \in Requests, Busy(r) \/ Lost(r)
        PROVE  /\ StoreInv' /\ Behind' /\ [Promise!Next]_(Promise!vars) /\ Owned
    <2>1. StoreInv' /\ UNCHANGED <<user, seq, server, spent>>
      BY <1>5, EndStore DEF Busy, Lost
    <2> QED
      BY <1>2, <2>1
  <1> QED
    BY <1>1, <1>3, <1>4, <1>5 DEF Next, Quiet

LEMMA InitStores ==
    ASSUME Init
    PROVE  StoreInv /\ Behind /\ Promise!Init
  <1>1. /\ user \in InitialTables /\ spent = Secrets(user) /\ minted = LastSecret
        /\ LastSecret \in Nat /\ req = [r \in Requests |-> Idle]
        /\ seq = IF IsFirstUser(user) THEN 0 ELSE LastId
    BY InitialAssumption DEF Init
  <1>2. \A i \in Held(user) : i <= LastId /\ user[i].token \in 0..minted
                                         /\ user[i].hash.salt \in 0..minted
    BY <1>1, InitialAssumption
  <1>3. spent \subseteq 0..minted
    BY <1>1, <1>2 DEF Secrets
  <1>4. \A r \in Requests : req[r].pc = "idle"
    BY <1>1 DEF Idle
  <1>5. \A r \in Requests : New(req[r]) = {} /\ Carries(req[r], spent, server)
    BY <1>4, NothingNew
  <1>6. StoreInv
    BY <1>1, <1>3, <1>5 DEF StoreInv, FreshInv
  <1>7. Behind
    BY <1>1, <1>2 DEF Behind, IsFirstUser
  <1>8. Promise!Init
    BY <1>1, SameData DEF Promise!Init, Init
  <1> QED
    BY <1>6, <1>7, <1>8
--------------------------------------------------------------------------------

\* What a request is about to write is new to the table, and is what was asked for, at
\* every moment: the inductive invariant behind the two theorems that follow.
THEOREM StoreGuarded == Spec => [](IInv /\ StoreInv /\ Behind)
  <1>1. Init => IInv /\ StoreInv /\ Behind
    BY InitHolds, InitStores
  <1>2. IInv /\ StoreInv /\ Behind /\ [Next]_vars => (IInv /\ StoreInv /\ Behind)'
    BY NextKeeps, NextStores
  <1> QED
    BY <1>1, <1>2, PTL DEF Spec

\* Requests that read a row, hold a copy and write it later implement accounts that
\* change in single steps: no id is given out twice, no hash or token that was replaced
\* comes back, a rehash is of the hash that was verified (UserInfo.saveToDb, saveLogin,
\* ServerInfo.saveToDb, authentication.register).
THEOREM StoreImplemented == Spec => ImplementsStore
  <1>1. Init => Promise!Init
    BY InitStores
  <1>2. IInv /\ StoreInv /\ Behind /\ [Next]_vars => [Promise!Next]_(Promise!vars)
    BY NextStores
  <1> QED
    BY <1>1, <1>2, StoreGuarded, PTL DEF Spec, ImplementsStore, Promise!Spec

\* Every change of an account is the one a request asked for and made in that step:
\* saves of old copies undo nothing that others wrote since (UserInfo.saveToDb).
THEOREM NothingUnasked == Spec => OnlyWhatWasAsked
  <1>1. IInv /\ StoreInv /\ Behind /\ [Next]_vars =>
           [\A i \in Ids : user'[i] # user[i] =>
               \E r \in Requests : req'[r] # req[r] /\ Asked(req[r], i)]_vars
    BY NextStores DEF Owned
  <1> QED
    BY <1>1, StoreGuarded, PTL DEF Spec, OnlyWhatWasAsked
--------------------------------------------------------------------------------
(* Sessions.  An account gets another hash only by a secret that one request  *)
(* holds and no cookie can be marked with yet, so a session that was of an    *)
(* earlier era stays one.                                                     *)

\* A session marked with the hash the account has is of the account's present era.
Current(c, u, e) ==
    c.uid # 0 /\ c.mark # None /\ u[c.uid] # None /\ c.mark = u[c.uid].hash => c.era = e[c.uid]

\* The mark is of a hash that was made, and that none of rs is still about to write.
Settled(c, n, rs, rq) ==
    c.mark # None => c.mark.salt <= n /\ \A s \in rs : c.mark.salt \notin New(rq[s])

\* The session a request would have if it were marked with g.user, and with what it verified.
OfMe(q) == [uid |-> q.sess.uid, mark |-> q.me.hash, era |-> q.era]
OfStored(q) == [uid |-> q.id, mark |-> q.stored.hash, era |-> q.sess.era]

SessionOf(q, r, n, rq, u, e) ==
    /\ Current(q.sess, u, e) /\ Settled(q.sess, n, Requests \ {r}, rq)
    /\ q.pc # "login" /\ q.sess.mark # None => q.sess.mark.salt \notin New(q)
    /\ q.me # None => /\ Current(OfMe(q), u, e) /\ Settled(OfMe(q), n, Requests \ {r}, rq)
                      /\ q.me.hash.salt \in New(q) => q.pc = "write" /\ q.ask.op = "passwd"
    /\ q.pc = "login" => Current(OfStored(q), u, e)

SessionInv ==
    /\ \A b \in Browsers : Current(jar[b], user, era) /\ Settled(jar[b], minted, Requests, req)
    /\ \A r \in Requests : SessionOf(req[r], r, minted, req, user, era)

\* What the step of r does to the hashes: an account keeps its own, or gets one r made.
Hashes(r) ==
    \A i \in Ids : user'[i] # None =>
        \/ user[i] # None /\ user'[i].hash = user[i].hash /\ era'[i] = era[i]
        \/ user'[i].hash.salt \in New(req[r])

LEMMA CurrentStays ==
    ASSUME NEW r \in Requests, Hashes(r), NEW c, c.uid \in Ids \cup {0}, Current(c, user, era),
           c.mark # None => c.mark.salt \notin New(req[r])
    PROVE  Current(c, user', era')
  <1> SUFFICES ASSUME c.uid # 0, c.mark # None, user'[c.uid] # None, c.mark = user'[c.uid].hash
               PROVE  c.era = era'[c.uid]
    BY DEF Current
  <1>1. user[c.uid] # None /\ user'[c.uid].hash = user[c.uid].hash /\ era'[c.uid] = era[c.uid]
    BY DEF Hashes
  <1> QED
    BY <1>1 DEF Current

\* r makes no secret that was made before.
LEMMA SettledStays ==
    ASSUME IInv, NEW r \in Requests, NEW q, req' = [req EXCEPT ![r] = q],
           minted' \in Nat, minted' >= minted,
           New(q) \subseteq (minted + 1)..minted' \cup New(req[r]),
           NEW rs \in SUBSET Requests, NEW c, c.mark \in Hash \cup {None},
           Settled(c, minted, rs, req)
    PROVE  Settled(c, minted', rs, req')
  <1> SUFFICES ASSUME c.mark # None
               PROVE  c.mark.salt <= minted' /\ \A s \in rs : c.mark.salt \notin New(req'[s])
    BY DEF Settled
  <1>1. /\ c.mark.salt \in Nat /\ c.mark.salt <= minted /\ minted \in Nat
        /\ \A s \in rs : c.mark.salt \notin New(req[s])
    BY DEF Settled, Hash, IInv, TypeOK
  <1>2. \A s \in Requests : req'[s] = IF s = r THEN q ELSE req[s]
    BY DEF IInv, TypeOK
  <1>3. c.mark.salt \notin (minted + 1)..minted'
    BY <1>1
  <1> QED
    BY <1>1, <1>2, <1>3

\* The salt of a row that was read was made, and nobody is about to write it.
LEMMA StoredSettled ==
    ASSUME IInv, StoreInv, NEW row, Known(row, spent), NEW s \in Requests
    PROVE  row.hash.salt <= minted /\ row.hash.salt \in Nat /\ row.hash.salt \notin New(req[s])
  <1>1. row.hash.salt \in spent /\ row.hash.salt \in 0..minted
    BY DEF StoreInv, FreshInv, Known
  <1>2. \A n \in New(req[s]) : n \notin spent
    BY DEF StoreInv, FreshInv
  <1>3. minted \in Nat
    BY DEF IInv, TypeOK
  <1> QED
    BY <1>1, <1>2, <1>3

\* A step leaves the sessions of others alone.
LEMMA MoveSession ==
    ASSUME IInv, StoreInv, SessionInv, NEW r \in Requests, NEW q, req' = [req EXCEPT ![r] = q],
           Hashes(r), minted' \in Nat, minted' >= minted,
           New(q) \subseteq (minted + 1)..minted' \cup New(req[r]),
           \A b \in Browsers : \/ jar'[b] = jar[b]
                               \/ Current(jar'[b], user', era') /\ Settled(jar'[b], minted', Requests, req'),
           SessionOf(q, r, minted', req', user', era')
    PROVE  SessionInv'
  <1>1. /\ req \in [Requests -> Request] /\ jar \in [Browsers -> Session]
        /\ req'[r] = q /\ \A s \in Requests : s # r => req'[s] = req[s]
    BY DEF IInv, TypeOK
  <1>2. ASSUME NEW b \in Browsers
        PROVE  Current(jar'[b], user', era') /\ Settled(jar'[b], minted', Requests, req')
    <2>1. jar[b] \in Session /\ Current(jar[b], user, era) /\ Settled(jar[b], minted, Requests, req)
      BY <1>1 DEF SessionInv
    <2>2. jar[b].uid \in Ids \cup {0} /\ jar[b].mark \in Hash \cup {None}
      BY <2>1 DEF Session
    <2>3. jar[b].mark # None => jar[b].mark.salt \notin New(req[r])
      BY <2>1 DEF Settled
    <2>4. Current(jar[b], user', era')
      BY <2>1, <2>2, <2>3, CurrentStays
    <2>5. Settled(jar[b], minted', Requests, req')
      BY <2>1, <2>2, SettledStays
    <2> QED
      BY <2>4, <2>5
  <1>3. ASSUME NEW s \in Requests, s # r
        PROVE  SessionOf(req[s], s, minted', req', user', era')
    <2> DEFINE p == req[s]
               rs == Requests \ {s}
    <2>1. /\ p \in Request /\ SessionOf(p, s, minted, req, user, era) /\ rs \in SUBSET Requests
          /\ r \in rs /\ Carries(p, spent, server)
      BY <1>1, <1>3 DEF SessionInv, StoreInv
    <2>2. Current(p.sess, user', era') /\ Settled(p.sess, minted', rs, req')
      <3>1. /\ p.sess.uid \in Ids \cup {0} /\ p.sess.mark \in Hash \cup {None}
            /\ Current(p.sess, user, era) /\ Settled(p.sess, minted, rs, req)
        BY <2>1 DEF SessionOf, Request, Session
      <3>2. p.sess.mark # None => p.sess.mark.salt \notin New(req[r])
        BY <2>1, <3>1 DEF Settled
      <3> HIDE DEF p, rs
      <3>3. Current(p.sess, user', era')
        BY <3>1, <3>2, CurrentStays
      <3>4. Settled(p.sess, minted', rs, req')
        BY <2>1, <3>1, SettledStays
      <3> QED
        BY <3>3, <3>4
    <2>3. ASSUME p.me # None
          PROVE  Current(OfMe(p), user', era') /\ Settled(OfMe(p), minted', rs, req')
      <3>1. /\ OfMe(p).uid \in Ids \cup {0} /\ OfMe(p).mark \in Hash \cup {None}
            /\ Current(OfMe(p), user, era) /\ Settled(OfMe(p), minted, rs, req)
        BY <2>1, <2>3 DEF SessionOf, Request, Session, OfMe, Row
      <3> DEFINE c == OfMe(p)
      <3>2. c.mark # None => c.mark.salt \notin New(req[r])
        BY <2>1, <3>1 DEF Settled
      <3> HIDE DEF p, rs, c
      <3>3. Current(c, user', era')
        BY <3>1, <3>2, CurrentStays DEF c
      <3>4. Settled(c, minted', rs, req')
        BY <2>1, <3>1, SettledStays DEF c
      <3> QED
        BY <3>3, <3>4 DEF c
    <2>4. ASSUME p.pc = "login"
          PROVE  Current(OfStored(p), user', era')
      <3> DEFINE c == OfStored(p)
      <3>1. c.uid \in Ids \cup {0} /\ Current(c, user, era) /\ c.mark = p.stored.hash
        BY <2>1, <2>4 DEF SessionOf, Request, OfStored
      <3>2. Known(p.stored, spent)
        BY <2>1, <2>4 DEF Carries
      <3>3. c.mark.salt \notin New(req[r])
        BY <3>1, <3>2, StoredSettled
      <3> HIDE DEF c
      <3>4. Current(c, user', era')
        BY <3>1, <3>3, CurrentStays
      <3> QED
        BY <3>4 DEF c
    <2> QED
      BY <2>1, <2>2, <2>3, <2>4 DEF SessionOf
  <1> QED
    BY <1>1, <1>2, <1>3 DEF SessionInv

\* The request goes on with the session it had, or none, and an unchanged password.
LEMMA SameSession ==
    ASSUME IInv, StoreInv, SessionInv, NEW r \in Requests, NEW q, req' = [req EXCEPT ![r] = q],
           Hashes(r), minted' \in Nat, minted' >= minted, UNCHANGED jar,
           New(q) \subseteq (minted + 1)..minted' \/ (New(q) = New(req[r]) /\ req[r].pc = "clash"),
           q.pc # "login", q.sess \in {req[r].sess, NoSession}, q.era = req[r].era,
           q.me # None => /\ req[r].me # None /\ q.me.hash = req[r].me.hash
                          /\ q.sess.uid = req[r].sess.uid \/ q.sess = NoSession,
           \/ UNCHANGED <<user, era>>
           \/ req[r].pc # "login" /\ ~(req[r].pc = "write" /\ req[r].ask.op = "passwd")
    PROVE  SessionInv'
  <1> DEFINE p == req[r]
             rs == Requests \ {r}
  <1>1. /\ p \in Request /\ SessionOf(p, r, minted, req, user, era) /\ rs \in SUBSET Requests
        /\ minted \in Nat
    BY DEF SessionInv, IInv, TypeOK
  <1>2. New(q) \subseteq (minted + 1)..minted' \cup New(req[r])
    OBVIOUS
  <1>3. \A c : c.uid = 0 => Current(c, user', era')
    BY DEF Current
  <1>4. ASSUME NEW c, c.mark \in Hash \cup {None}, c.uid \in Ids \cup {0},
               Current(c, user, era), Settled(c, minted, rs, req),
               UNCHANGED <<user, era>> \/ (c.mark # None => c.mark.salt \notin New(req[r])),
               p.pc = "clash" => (c.mark # None => c.mark.salt \notin New(req[r]))
        PROVE  /\ Current(c, user', era') /\ Settled(c, minted', rs, req')
               /\ c.mark # None => c.mark.salt \notin New(q)
    <2>1. Current(c, user', era')
      BY <1>4, CurrentStays
    <2> HIDE DEF rs
    <2>2. Settled(c, minted', rs, req')
      BY <1>1, <1>2, <1>4, SettledStays
    <2>3. c.mark # None => c.mark.salt \in Nat /\ c.mark.salt <= minted
      BY <1>4 DEF Settled, Hash
    <2>4. c.mark # None => c.mark.salt \notin New(q)
      <3>1. CASE New(q) \subseteq (minted + 1)..minted'
        BY <1>1, <2>3, <3>1
      <3>2. CASE New(q) = New(req[r]) /\ p.pc = "clash"
        BY <1>4, <3>2
      <3> QED
        BY <3>1, <3>2
    <2> QED
      BY <2>1, <2>2, <2>4
  <1>5. /\ Current(q.sess, user', era') /\ Settled(q.sess, minted', rs, req')
        /\ q.sess.mark # None => q.sess.mark.salt \notin New(q)
    <2>1. CASE q.sess = NoSession
      BY <1>3, <2>1 DEF NoSession, Settled
    <2>2. CASE q.sess = p.sess
      <3> DEFINE c == p.sess
      <3>1. /\ c.mark \in Hash \cup {None} /\ c.uid \in Ids \cup {0}
            /\ Current(c, user, era) /\ Settled(c, minted, rs, req)
        BY <1>1 DEF Request, Session, SessionOf
      <3>2. p.pc # "login" => (c.mark # None => c.mark.salt \notin New(req[r]))
        BY <1>1 DEF SessionOf
      <3>3. \/ UNCHANGED <<user, era>>
            \/ c.mark # None => c.mark.salt \notin New(req[r])
        BY <3>2
      <3>5. p.pc = "clash" => (c.mark # None => c.mark.salt \notin New(req[r]))
        BY <3>2
      <3> HIDE DEF c, rs
      <3>4. /\ Current(c, user', era') /\ Settled(c, minted', rs, req')
            /\ c.mark # None => c.mark.salt \notin New(q)
        BY <1>4, <3>1, <3>3, <3>5
      <3> QED
        BY <2>2, <3>4 DEF c
    <2> QED
      BY <2>1, <2>2
  <1>6. ASSUME q.me # None
        PROVE  /\ Current(OfMe(q), user', era') /\ Settled(OfMe(q), minted', rs, req')
               /\ q.me.hash.salt \notin New(q)
    <2> DEFINE c == OfMe(p)
    <2>1. /\ c.mark \in Hash /\ c.uid \in Ids \cup {0} /\ c.uid = p.sess.uid
          /\ Current(c, user, era) /\ Settled(c, minted, rs, req)
          /\ c.mark = p.me.hash /\ c.era = p.era
      BY <1>1, <1>6 DEF Request, Session, SessionOf, OfMe, Row
    <2>2. c.mark.salt \in New(req[r]) => p.pc = "write" /\ p.ask.op = "passwd"
      BY <1>1, <1>6, <2>1 DEF SessionOf
    <2>3. \/ UNCHANGED <<user, era>>
          \/ c.mark # None => c.mark.salt \notin New(req[r])
      BY <2>2
    <2>4. /\ OfMe(q).mark = c.mark /\ OfMe(q).era = c.era
          /\ OfMe(q).uid = 0 \/ OfMe(q).uid = c.uid
      BY <1>6, <2>1 DEF OfMe, NoSession
    <2>5. c.mark # None /\ (p.pc = "clash" => (c.mark # None => c.mark.salt \notin New(req[r])))
      BY <2>1, <2>2, NoneApart
    <2> HIDE DEF c, rs
    <2>6. /\ Current(c, user', era') /\ Settled(c, minted', rs, req')
          /\ c.mark # None => c.mark.salt \notin New(q)
      BY <1>4, <2>1, <2>3, <2>5
    <2>7. Current(OfMe(q), user', era')
      BY <2>4, <2>6 DEF Current
    <2>8. Settled(OfMe(q), minted', rs, req')
      BY <2>4, <2>6 DEF Settled
    <2>9. q.me.hash = c.mark
      BY <2>4 DEF OfMe
    <2> QED
      BY <2>5, <2>6, <2>7, <2>8, <2>9
  <1>7. SessionOf(q, r, minted', req', user', era')
    BY <1>5, <1>6 DEF SessionOf
  <1> HIDE DEF p, rs
  <1> QED
    BY <1>2, <1>7, MoveSession

\* An account that is only put, renamed, moved or removed keeps its hash.
LEMMA HashesKept ==
    ASSUME NEW r \in Requests, UNCHANGED <<user, era>>
    PROVE  Hashes(r)
  BY DEF Hashes

LEMMA HashesPut ==
    ASSUME IInv, NEW r \in Requests, NEW i \in Ids, NEW row, user' = [user EXCEPT ![i] = row],
           \/ row = None
           \/ row.hash.salt \in New(req[r])
           \/ user[i] # None /\ row.hash = user[i].hash /\ era'[i] = era[i],
           \A j \in Ids \ {i} : era'[j] = era[j]
    PROVE  Hashes(r)
  <1>1. \A j \in Ids : user'[j] = IF j = i THEN row ELSE user[j]
    BY DEF IInv, TypeOK, Table
  <1> QED
    BY <1>1 DEF Hashes

\* The view ends and its request keeps its session.
LEMMA DoneSession ==
    ASSUME IInv, StoreInv, SessionInv, NEW r \in Requests, Done(r), Hashes(r),
           UNCHANGED <<jar, minted>>,
           \/ UNCHANGED <<user, era>>
           \/ req[r].pc # "login" /\ ~(req[r].pc = "write" /\ req[r].ask.op = "passwd")
    PROVE  SessionInv'
  <1> DEFINE q == Finish(req[r])
  <1>1. /\ q.pc = "respond" /\ q.sess = req[r].sess /\ q.era = req[r].era /\ q.me = req[r].me
        /\ req' = [req EXCEPT ![r] = q]
    BY DEF Finish, Idle, Done, IInv, TypeOK
  <1> HIDE DEF q
  <1>2. New(q) \subseteq (minted + 1)..minted'
    BY <1>1, NothingNew
  <1>3. minted' \in Nat /\ minted' >= minted
    BY DEF IInv, TypeOK
  <1> QED
    BY <1>1, <1>2, <1>3, SameSession

LEMMA LogoutSession ==
    ASSUME IInv, StoreInv, SessionInv, NEW r \in Requests, Logout(r)
    PROVE  SessionInv'
  <1> DEFINE q == Finish([req[r] EXCEPT !.sess = NoSession])
  <1>1. req[r] \in Request
    BY DEF IInv, TypeOK
  <1>2. /\ q.pc = "respond" /\ q.sess = NoSession /\ q.era = req[r].era /\ q.me = req[r].me
    BY <1>1 DEF Finish, Idle, Request
  <1>3. /\ req' = [req EXCEPT ![r] = q] /\ UNCHANGED <<user, era, jar, minted>>
    BY DEF Logout, tables
  <1> HIDE DEF q
  <1>4. New(q) \subseteq (minted + 1)..minted' /\ Hashes(r)
    BY <1>2, <1>3, NothingNew, HashesKept
  <1>5. minted' \in Nat /\ minted' >= minted
    BY <1>3 DEF IInv, TypeOK
  <1> QED
    BY <1>2, <1>3, <1>4, <1>5, SameSession

\* A request that has no part in any session.
LEMMA OutOfSession ==
    ASSUME NEW q, NEW r, NEW n, NEW rq, NEW u, NEW e, q.sess = NoSession, q.me = None, q.pc # "login"
    PROVE  SessionOf(q, r, n, rq, u, e)
  BY DEF SessionOf, NoSession, Current, Settled

LEMMA StartSession ==
    ASSUME IInv, StoreInv, SessionInv,
           NEW r \in Requests, NEW b \in Browsers, NEW a \in Asks, Start(r, b, a)
    PROVE  SessionInv'
  <1> DEFINE cookie == jar[b]
             row    == IF cookie.uid = 0 THEN None ELSE user[cookie.uid]
             sess   == IF Ends(cookie, row) THEN NoSession ELSE cookie
             me     == IF Ends(cookie, row) THEN None ELSE row
             e      == IF row = None THEN 0 ELSE era[cookie.uid]
             q      == [Idle EXCEPT !.pc = "view", !.ask = a, !.by = b, !.cookie = cookie,
                                    !.first = IsFirstUser(user), !.sess = sess,
                                    !.me = me, !.era = e]
             rs     == Requests \ {r}
  <1>1. /\ cookie \in Session /\ Current(cookie, user, era) /\ Settled(cookie, minted, Requests, req)
    BY DEF IInv, TypeOK, SessionInv
  <1>2. me # None => /\ sess = cookie /\ cookie.uid \in Ids /\ cookie.uid # 0
                     /\ me = user[cookie.uid] /\ e = era[cookie.uid] /\ Known(me, spent)
    <2> SUFFICES ASSUME me # None
                 PROVE  /\ sess = cookie /\ cookie.uid \in Ids /\ cookie.uid # 0
                        /\ me = user[cookie.uid] /\ e = era[cookie.uid] /\ Known(me, spent)
      OBVIOUS
    <2>1. cookie.uid \in Ids /\ cookie.uid # 0 /\ me = user[cookie.uid] /\ sess = cookie
      BY <1>1 DEF Session
    <2>2. cookie.uid \in Held(user)
      BY <2>1 DEF Held
    <2> QED
      BY <2>1, <2>2, RowsKnown
  <1>3. sess = NoSession \/ sess = cookie
    OBVIOUS
  <1> HIDE DEF cookie, row, sess, me, e
  <1>4. q.pc = "view" /\ q.me = me /\ q.sess = sess /\ q.era = e
    BY DEF Idle
  <1>5. req' = [req EXCEPT ![r] = q]
    BY DEF Start, cookie, row, sess, me, e
  <1>6. /\ UNCHANGED <<user, era, jar, minted>> /\ minted' \in Nat /\ minted' >= minted
    BY DEF Start, tables, IInv, TypeOK
  <1> HIDE DEF q
  <1>7. New(q) = {}
    BY <1>4, NothingNew
  <1>8. \A s \in rs : req'[s] = req[s]
    BY <1>5 DEF IInv, TypeOK
  <1>9. Current(q.sess, user', era') /\ Settled(q.sess, minted', rs, req')
    <2>1. CASE sess = NoSession
      BY <1>4, <2>1 DEF NoSession, Current, Settled
    <2>2. CASE sess = cookie
      BY <1>1, <1>4, <1>6, <1>8, <2>2 DEF Current, Settled
    <2> QED
      BY <1>3, <2>1, <2>2
  <1>10. ASSUME q.me # None
         PROVE  Current(OfMe(q), user', era') /\ Settled(OfMe(q), minted', rs, req')
    <2>1. OfMe(q).uid = cookie.uid /\ OfMe(q).mark = me.hash /\ OfMe(q).era = era[cookie.uid]
      BY <1>2, <1>4, <1>10 DEF OfMe
    <2>2. Current(OfMe(q), user', era')
      BY <1>6, <2>1 DEF Current
    <2>3. me.hash.salt <= minted /\ \A s \in rs : me.hash.salt \notin New(req[s])
      BY <1>2, <1>4, <1>10, StoredSettled
    <2>4. Settled(OfMe(q), minted', rs, req')
      BY <1>6, <1>8, <2>1, <2>3 DEF Settled
    <2> QED
      BY <2>2, <2>4
  <1>11. SessionOf(q, r, minted', req', user', era')
    BY <1>4, <1>7, <1>9, <1>10 DEF SessionOf
  <1>12. New(q) \subseteq (minted + 1)..minted' \cup New(req[r]) /\ Hashes(r)
    BY <1>6, <1>7, HashesKept
  <1> QED
    BY <1>5, <1>6, <1>11, <1>12, MoveSession

LEMMA RegisterSession ==
    ASSUME IInv, StoreInv, SessionInv, NEW r \in Requests, Register(r) \/ RegisterFirst(r)
    PROVE  SessionInv'
  <1>1. /\ req[r] \in Request /\ req[r].ask.op = "register" /\ req[r].pc = "view"
        /\ UNCHANGED <<user, era, jar>> /\ minted \in Nat
        /\ minted' = minted + 2 /\ minted' \in Nat /\ minted' >= minted
    BY Entered DEF Register, RegisterFirst, tables, IInv, TypeOK
  <1>2. Hashes(r)
    BY <1>1, HashesKept
  <1>3. ASSUME NEW role, NEW pc \in {"clash", "found"},
               req' = [req EXCEPT ![r].pc = pc, ![r].row = NewRow(req[r].ask, role)]
        PROVE  SessionInv'
    <2> DEFINE row == NewRow(req[r].ask, role)
               q   == [req[r] EXCEPT !.pc = pc, !.row = row]
    <2>1. /\ q.pc = pc /\ q.row = row /\ q.ask = req[r].ask /\ q.sess = req[r].sess
          /\ q.era = req[r].era /\ q.me = req[r].me
      BY <1>1 DEF Request
    <2>2. req' = [req EXCEPT ![r] = q]
      BY <1>1, <1>3 DEF IInv, TypeOK, Request
    <2>3. {row.hash.salt, row.token} \subseteq (minted + 1)..(minted + 2)
      BY NewRowMade
    <2> HIDE DEF row, q
    <2>4. New(q) \subseteq (minted + 1)..minted'
      BY <1>1, <2>1, <2>3 DEF New
    <2>5. q.pc # "login" /\ q.sess \in {req[r].sess, NoSession}
      BY <2>1
    <2> QED
      BY <1>1, <1>2, <2>1, <2>2, <2>4, <2>5, SameSession
  <1>4. ASSUME Done(r)
        PROVE  SessionInv'
    <2> DEFINE q == Finish(req[r])
    <2>1. /\ q.pc = "respond" /\ q.sess = req[r].sess /\ q.era = req[r].era /\ q.me = req[r].me
          /\ req' = [req EXCEPT ![r] = q]
      BY <1>4 DEF Finish, Idle, Done, IInv, TypeOK
    <2> HIDE DEF q
    <2>2. New(q) \subseteq (minted + 1)..minted'
      BY <2>1, NothingNew
    <2> QED
      BY <1>1, <1>2, <2>1, <2>2, SameSession
  <1> QED
    BY <1>3, <1>4 DEF Register, RegisterFirst

LEMMA FoundSession ==
    ASSUME IInv, StoreInv, SessionInv, NEW r \in Requests, Found(r)
    PROVE  SessionInv'
  <1> DEFINE p == req[r]
  <1>1. /\ p.pc = "found" /\ user' = [user EXCEPT ![seq + 1] = p.row]
        /\ Done(r) /\ UNCHANGED <<era, jar, minted>>
    BY DEF Found, Store
  <1>2. p.ask.op = "register" /\ seq + 1 \in Ids
    BY <1>1, Typed, OneIsAnId DEF InFlight, IInv, Governed
  <1>3. p.row.hash.salt \in New(p)
    BY <1>1, <1>2 DEF New
  <1>4. Hashes(r)
    BY <1>1, <1>2, <1>3, HashesPut
  <1> QED
    BY <1>1, <1>4, DoneSession

LEMMA InsertSession ==
    ASSUME IInv, StoreInv, SessionInv, NEW r \in Requests, Insert(r)
    PROVE  SessionInv'
  <1> DEFINE p == req[r]
  <1>1. /\ p.pc = "write" /\ p.ask.op = "register" /\ seq + 1 \in Ids
        /\ Done(r) /\ UNCHANGED <<era, jar, minted>>
    BY MaxIdAssumption DEF Insert, IInv, TypeOK, Ids
  <1>2. p.row.hash.salt \in New(p)
    BY <1>1 DEF New
  <1>3. CASE UNCHANGED user
    BY <1>1, <1>3, HashesKept, DoneSession
  <1>4. CASE user' = [user EXCEPT ![seq + 1] = p.row]
    <2>1. Hashes(r)
      BY <1>1, <1>2, <1>4, HashesPut
    <2> QED
      BY <1>1, <2>1, DoneSession
  <1> QED
    BY <1>3, <1>4 DEF Insert, Store

LEMMA DeleteUserSession ==
    ASSUME IInv, StoreInv, SessionInv, NEW r \in Requests, DeleteUser(r)
    PROVE  SessionInv'
  <1> DEFINE i == req[r].ask.id
  <1>1. /\ req[r].pc = "view" /\ i \in Ids
    BY Entered, AskFields DEF DeleteUser
  <1>2. /\ user' = [user EXCEPT ![i] = None] /\ Done(r) /\ UNCHANGED <<era, jar, minted>>
    BY DEF DeleteUser, Store
  <1> HIDE DEF i
  <1>3. Hashes(r)
    BY <1>1, <1>2, HashesPut
  <1> QED
    BY <1>1, <1>2, <1>3, DoneSession

\* The session of a login is marked with the hash it found, or the one remade of it.
LEMMA LoginSession ==
    ASSUME IInv, StoreInv, SessionInv, NEW r \in Requests, Login(r)
    PROVE  SessionInv'
  <1> DEFINE ask == req[r].ask
             found == {i \in Held(user) : user[i].name = ask.name /\ user[i].hash.pw = ask.pw}
             rs == Requests \ {r}
  <1>1. /\ req[r] \in Request /\ req[r].pc = "view" /\ req[r].ask.op = "login"
        /\ LoginOpen(req[r]) /\ UNCHANGED <<user, era, jar>>
    <2>1. Enters(r, "login")
      BY DEF Login
    <2>2. UNCHANGED <<user, era, jar>>
      BY DEF Login, tables
    <2> QED
      BY <2>1, <2>2, Entered DEF May
  <1>2. req[r].me = None /\ Hashes(r)
    <2>1. InFlight(req[r], r, user, lock) /\ Carries(req[r], spent, server)
      BY Typed DEF StoreInv
    <2> QED
      BY <1>1, <2>1, HashesKept DEF InFlight, Carries, LoginOpen
  <1>3. CASE Done(r) /\ UNCHANGED minted
    BY <1>1, <1>2, <1>3, DoneSession
  <1>4. ASSUME NEW i \in found,
               LET stale == user[i].hash.method # "current"
                   row   == IF stale
                            THEN [user[i] EXCEPT !.hash.method = "current",
                                                 !.hash.salt = minted + 1]
                            ELSE user[i]
                   sess  == [uid |-> i, mark |-> Mark(row), era |-> era[i]]
               IN /\ req' = [req EXCEPT ![r] =
                        [@ EXCEPT !.pc = "login", !.id = i, !.stored = user[i],
                                  !.row = row, !.sess = sess]]
                  /\ minted' = IF stale THEN minted + 1 ELSE minted
        PROVE  SessionInv'
    <2> DEFINE stale == user[i].hash.method # "current"
               row   == IF stale
                        THEN [user[i] EXCEPT !.hash.method = "current",
                                             !.hash.salt = minted + 1]
                        ELSE user[i]
               sess  == [uid |-> i, mark |-> Mark(row), era |-> era[i]]
               q     == [req[r] EXCEPT !.pc = "login", !.id = i, !.stored = user[i],
                                       !.row = row, !.sess = sess]
    <2>1. /\ user[i] \in Row /\ user[i].hash \in Hash /\ minted \in Nat /\ i # 0
          /\ Known(user[i], spent)
      BY RowsKnown DEF IInv, TypeOK, Held, Table, Row, Ids
    <2>2. /\ stale => row.hash.salt = minted + 1
          /\ ~stale => row.hash = user[i].hash
      BY <2>1 DEF Row, Hash
    <2>3. /\ stale => minted' = minted + 1
          /\ ~stale => minted' = minted
      BY <1>4
    <2>4. minted' \in Nat /\ minted' >= minted
      BY <2>1, <2>3
    <2>5. req' = [req EXCEPT ![r] = q]
      BY <1>4 DEF IInv, TypeOK
    <2>6. sess.uid = i /\ sess.mark = row.hash /\ sess.era = era[i]
      BY DEF Mark
    <2> HIDE DEF row, sess, stale
    <2>7. /\ q.pc = "login" /\ q.id = i /\ q.stored = user[i] /\ q.row = row
          /\ q.sess = sess /\ q.me = None /\ q.ask = req[r].ask
      BY <1>1, <1>2 DEF Request
    <2> HIDE DEF q
    <2>8. New(q) \subseteq (minted + 1)..minted' \cup New(req[r])
      <3>1. New(q) = IF row.hash # user[i].hash THEN {row.hash.salt} ELSE {}
        BY <2>7 DEF New
      <3> QED
        BY <2>1, <2>2, <2>3, <3>1
    <2>9. \A s \in rs : req'[s] = req[s] /\ New(req[s]) \subseteq 0..minted
      BY <2>5 DEF IInv, TypeOK, StoreInv, FreshInv
    <2>10. row.hash.salt <= minted' /\ \A s \in rs : row.hash.salt \notin New(req[s])
      <3>1. CASE stale
        BY <2>1, <2>2, <2>3, <2>9, <3>1
      <3>2. CASE ~stale
        BY <2>1, <2>2, <2>3, <3>2, StoredSettled
      <3> QED
        BY <3>1, <3>2
    <2>11. Current(q.sess, user', era') /\ Settled(q.sess, minted', rs, req')
      BY <1>1, <2>6, <2>7, <2>9, <2>10 DEF Current, Settled
    <2>12. Current(OfStored(q), user', era')
      BY <1>1, <2>6, <2>7 DEF Current, OfStored
    <2>13. SessionOf(q, r, minted', req', user', era')
      BY <2>7, <2>11, <2>12 DEF SessionOf
    <2> QED
      BY <1>1, <1>2, <2>4, <2>5, <2>8, <2>13, MoveSession
  <1> QED
    BY <1>3, <1>4 DEF Login

\* saveLogin writes the rehash only over the hash that was verified, so the account is still
\* in the era the login found it in.
LEMMA LoginSaveSession ==
    ASSUME IInv, StoreInv, SessionInv, NEW r \in Requests, LoginSave(r)
    PROVE  SessionInv'
  <1> DEFINE p == req[r]
             q == Finish(p)
             i == p.id
             rs == Requests \ {r}
  <1>1. /\ p.pc = "login" /\ req' = [req EXCEPT ![r] = q]
        /\ user' = IF Rehashes(user, p) THEN [user EXCEPT ![i].hash = p.row.hash] ELSE user
        /\ UNCHANGED <<era, jar, minted>>
    BY DEF LoginSave, Store, Done
  <1>2. /\ p \in Request /\ i \in Ids /\ p.row \in Row /\ p.stored \in Row /\ i # 0
        /\ Verified(p) /\ user \in Table /\ SessionOf(p, r, minted, req, user, era)
    BY <1>1, Typed DEF InFlight, StoreInv, SessionInv, Carries, IInv, TypeOK, Ids
  <1>3. q.pc = "respond" /\ q.sess = p.sess /\ q.me = None
    BY <1>2 DEF Finish, Idle, Verified
  <1>4. /\ p.sess.uid = i /\ p.sess.mark = p.row.hash
        /\ p.row.hash # p.stored.hash => p.row.hash.salt \in New(p)
    BY <1>1, <1>2 DEF Verified, New
  <1>5. Hashes(r) /\ Current(p.sess, user', era')
    <2>1. CASE ~Rehashes(user, p)
      BY <1>1, <1>2, <2>1, HashesKept DEF SessionOf, Current
    <2>2. CASE Rehashes(user, p)
      <3> DEFINE row == [user[i] EXCEPT !.hash = p.row.hash]
      <3>1. /\ user[i] \in Row /\ user[i] # None /\ user[i].hash = p.stored.hash
            /\ user' = [user EXCEPT ![i] = row]
        BY <1>1, <1>2, <2>2 DEF Rehashes, Table
      <3>2. row.hash = p.row.hash
        BY <3>1 DEF Row
      <3>3. \/ row.hash.salt \in New(req[r])
            \/ user[i] # None /\ row.hash = user[i].hash /\ era'[i] = era[i]
        BY <1>1, <1>4, <3>1, <3>2
      <3> HIDE DEF row
      <3>4. Hashes(r)
        BY <1>1, <1>2, <3>1, <3>3, HashesPut
      <3>5. p.stored.hash # None
        BY <1>2, NoneApart DEF Row
      <3>6. p.sess.era = era[i]
        BY <1>1, <1>2, <3>1, <3>5 DEF SessionOf, Current, OfStored
      <3> QED
        BY <1>1, <1>4, <3>4, <3>6 DEF Current
    <2> QED
      BY <2>1, <2>2
  <1>6. New(q) = {} /\ \A s \in rs : req'[s] = req[s]
    BY <1>1, <1>3, NothingNew DEF IInv, TypeOK
  <1>7. Settled(p.sess, minted', rs, req')
    BY <1>1, <1>2, <1>6 DEF SessionOf, Settled
  <1> HIDE DEF q
  <1>8. SessionOf(q, r, minted', req', user', era')
    BY <1>3, <1>5, <1>6, <1>7 DEF SessionOf
  <1>9. /\ New(q) \subseteq (minted + 1)..minted' \cup New(req[r])
        /\ minted' \in Nat /\ minted' >= minted
    BY <1>1, <1>6 DEF IInv, TypeOK
  <1> HIDE DEF p
  <1> QED
    BY <1>1, <1>5, <1>8, <1>9, MoveSession

\* g.user gets a new name, or token, and keeps its hash.
LEMMA RenameSession ==
    ASSUME IInv, StoreInv, SessionInv, NEW r \in Requests, Rename(r) \/ RegenerateToken(r)
    PROVE  SessionInv'
  <1>1. /\ req[r] \in Request /\ req[r].me # None /\ req[r].me \in Row /\ req[r].pc = "view"
        /\ req[r].ask.op \in {"rename", "rotate"}
        /\ UNCHANGED <<user, era, jar>> /\ minted \in Nat
        /\ minted' \in Nat /\ minted' >= minted
    BY Entered DEF Rename, RegenerateToken, May, Proven, tables, IInv, TypeOK, Request
  <1>2. Hashes(r)
    BY <1>1, HashesKept
  <1>3. ASSUME NEW pc \in {"clash", "write"}, NEW row, row.hash = req[r].me.hash,
               req' = [req EXCEPT ![r] = Changed(req[r], pc, row)],
               req[r].ask.op # "rename" => row.token \in (minted + 1)..minted'
        PROVE  SessionInv'
    <2> DEFINE q == Changed(req[r], pc, row)
    <2>1. /\ q.pc = pc /\ q.me = row /\ q.row = row /\ q.ask = req[r].ask
          /\ q.sess = req[r].sess /\ q.era = req[r].era
      BY <1>1 DEF Request, Changed
    <2>2. req' = [req EXCEPT ![r] = q]
      BY <1>3
    <2> HIDE DEF q
    <2>3. New(q) \subseteq (minted + 1)..minted'
      BY <1>1, <1>3, <2>1 DEF New
    <2>4. q.pc # "login" /\ q.sess \in {req[r].sess, NoSession}
      BY <2>1
    <2>5. q.me # None => /\ req[r].me # None /\ q.me.hash = req[r].me.hash
                         /\ q.sess.uid = req[r].sess.uid \/ q.sess = NoSession
      BY <1>1, <1>3, <2>1
    <2>6. UNCHANGED jar /\ UNCHANGED <<user, era>>
      BY <1>1
    <2> QED
      BY <1>1, <1>2, <2>1, <2>2, <2>3, <2>4, <2>5, <2>6, SameSession
  <1>4. CASE Rename(r)
    <2> DEFINE row == [req[r].me EXCEPT !.name = req[r].ask.name]
    <2>1. row.hash = req[r].me.hash /\ req[r].ask.op = "rename"
      BY <1>1, <1>4, Entered DEF Row, Rename
    <2>2. CASE Done(r)
      BY <1>1, <1>2, <1>4, <2>2, DoneSession DEF Rename
    <2>3. CASE req' = [req EXCEPT ![r] = Changed(req[r], "clash", row)]
      <3> HIDE DEF row
      <3> QED
        BY <1>3, <2>1, <2>3
    <2> QED
      BY <1>4, <2>2, <2>3 DEF Rename
  <1>5. CASE RegenerateToken(r)
    <2> DEFINE row == [req[r].me EXCEPT !.token = minted + 1]
    <2>1. row.hash = req[r].me.hash /\ row.token = minted + 1
      BY <1>1 DEF Row
    <2>2. req' = [req EXCEPT ![r] = Changed(req[r], "write", row)] /\ minted' = minted + 1
      BY <1>5 DEF RegenerateToken
    <2> HIDE DEF row
    <2>3. row.token \in (minted + 1)..minted'
      BY <1>1, <2>1, <2>2
    <2> QED
      BY <1>3, <2>1, <2>2, <2>3
  <1> QED
    BY <1>4, <1>5

\* A new password: the request's own copy of the row is marked with it, the table not yet.
LEMMA ChangePasswordSession ==
    ASSUME IInv, StoreInv, SessionInv, NEW r \in Requests, ChangePassword(r)
    PROVE  SessionInv'
  <1> DEFINE hash == [pw |-> req[r].ask.new, method |-> "current", salt |-> minted + 1]
             row  == [req[r].me EXCEPT !.hash = hash, !.token = minted + 2]
             p == req[r]
             q == Changed(p, "write", row)
             rs == Requests \ {r}
  <1>1. /\ p \in Request /\ p.me # None /\ p.me \in Row /\ p.ask.op = "passwd" /\ p.pc = "view"
        /\ SessionOf(p, r, minted, req, user, era)
    BY Entered DEF ChangePassword, May, Proven, Request, SessionInv
  <1>2. /\ UNCHANGED <<user, era, jar>> /\ minted \in Nat /\ req' = [req EXCEPT ![r] = q]
        /\ minted' = minted + 2 /\ minted' \in Nat /\ minted' >= minted
    BY DEF ChangePassword, tables, IInv, TypeOK
  <1>3. hash.salt = minted + 1
    OBVIOUS
  <1> HIDE DEF hash
  <1>4. row.hash = hash /\ row.token = minted + 2
    BY <1>1 DEF Row
  <1> HIDE DEF row
  <1>5. /\ q.pc = "write" /\ q.me = row /\ q.row = row /\ q.ask = p.ask
        /\ q.sess = p.sess /\ q.era = p.era
    BY <1>1 DEF Request, Changed
  <1> HIDE DEF q
  <1>6. New(q) = {minted + 1, minted + 2}
    BY <1>1, <1>3, <1>4, <1>5 DEF New
  <1>7. \A s \in rs : req'[s] = req[s] /\ New(req[s]) \subseteq 0..minted
    BY <1>2 DEF IInv, TypeOK, StoreInv, FreshInv
  <1>8. /\ Current(q.sess, user', era') /\ Settled(q.sess, minted', rs, req')
        /\ q.sess.mark # None => q.sess.mark.salt \notin New(q)
    <2>1. p.sess.mark # None => p.sess.mark.salt \in Nat /\ p.sess.mark.salt <= minted
      BY <1>1 DEF SessionOf, Settled, Request, Session, Hash
    <2>2. Settled(p.sess, minted', rs, req')
      BY <1>1, <1>2, <1>7, <2>1 DEF SessionOf, Settled
    <2>3. Current(p.sess, user', era')
      BY <1>1, <1>2 DEF SessionOf, Current
    <2> QED
      BY <1>2, <1>5, <1>6, <2>1, <2>2, <2>3
  <1>9. Current(OfMe(q), user', era') /\ Settled(OfMe(q), minted', rs, req')
    <2>1. OfMe(q).uid = p.sess.uid /\ OfMe(q).mark = hash
      BY <1>4, <1>5 DEF OfMe
    <2>2. p.sess.uid # 0 /\ user'[p.sess.uid] # None => user'[p.sess.uid].hash # hash
      <3> SUFFICES ASSUME p.sess.uid # 0, user'[p.sess.uid] # None
                   PROVE  user'[p.sess.uid].hash # hash
        OBVIOUS
      <3>1. p.sess.uid \in Held(user)
        BY <1>1, <1>2 DEF Held, Request, Session
      <3>2. user[p.sess.uid].hash.salt <= minted
        BY <3>1, RowsKnown, StoredSettled
      <3>3. user[p.sess.uid].hash.salt \in Nat
        BY <3>1, RowsKnown, StoredSettled
      <3> QED
        BY <1>2, <1>3, <3>2, <3>3
    <2>3. Current(OfMe(q), user', era')
      BY <2>1, <2>2 DEF Current
    <2>4. Settled(OfMe(q), minted', rs, req')
      BY <1>2, <1>3, <1>7, <2>1 DEF Settled
    <2> QED
      BY <2>3, <2>4
  <1>10. SessionOf(q, r, minted', req', user', era')
    BY <1>1, <1>5, <1>8, <1>9 DEF SessionOf
  <1>11. New(q) \subseteq (minted + 1)..minted' \cup New(req[r]) /\ Hashes(r)
    BY <1>2, <1>6, HashesKept
  <1> HIDE DEF p
  <1> QED
    BY <1>2, <1>10, <1>11, MoveSession

LEMMA ChangeRoleSession ==
    ASSUME IInv, StoreInv, SessionInv, NEW r \in Requests, ChangeRole(r)
    PROVE  SessionInv'
  <1> DEFINE ask == req[r].ask
             row == [user[ask.id] EXCEPT !.role = ask.role]
             q   == [req[r] EXCEPT !.pc = "write", !.id = ask.id, !.stored = user[ask.id],
                                   !.row = row]
  <1>1. req[r] \in Request /\ ask.op = "role" /\ req[r].pc = "view"
    BY Entered DEF ChangeRole
  <1>2. UNCHANGED <<user, era, jar, minted>> /\ Hashes(r)
    BY HashesKept DEF ChangeRole, tables
  <1>3. CASE Done(r)
    BY <1>2, <1>3, DoneSession
  <1>4. CASE req' = [req EXCEPT ![r] = q]
    <2> HIDE DEF row
    <2>1. /\ q.pc = "write" /\ q.row = row /\ q.ask = ask /\ q.sess = req[r].sess
          /\ q.era = req[r].era /\ q.me = req[r].me
      BY <1>1 DEF Request
    <2> HIDE DEF q
    <2>2. New(q) \subseteq (minted + 1)..minted'
      BY <1>1, <2>1 DEF New
    <2>3. minted' \in Nat /\ minted' >= minted
      BY <1>2 DEF IInv, TypeOK
    <2> QED
      BY <1>2, <1>4, <2>1, <2>2, <2>3, SameSession
  <1> QED
    BY <1>3, <1>4 DEF ChangeRole

LEMMA ClashSession ==
    ASSUME IInv, StoreInv, SessionInv, NEW r \in Requests, Clash(r)
    PROVE  SessionInv'
  <1> DEFINE p == req[r]
             q == [p EXCEPT !.pc = "write"]
  <1>1. p \in Request /\ p.pc = "clash" /\ Carries(p, spent, server)
    BY Typed DEF Clash, StoreInv
  <1>2. UNCHANGED <<user, era, jar, minted>> /\ Hashes(r)
    BY HashesKept DEF Clash, tables
  <1>3. CASE Done(r)
    BY <1>2, <1>3, DoneSession
  <1>4. CASE Go(r, "write")
    <2>1. req' = [req EXCEPT ![r] = q]
      BY <1>4 DEF Go
    <2>2. /\ q.pc = "write" /\ q.row = p.row /\ q.ask = p.ask /\ q.sess = p.sess
          /\ q.era = p.era /\ q.me = p.me
      BY <1>1 DEF Request
    <2> HIDE DEF q
    <2>3. New(q) = New(req[r])
      <3>1. Saves(p) => p.ask.op = "rename"
        BY <1>1 DEF Carries, Change
      <3> QED
        BY <1>1, <2>2, <3>1 DEF New, Saves
    <2>4. minted' \in Nat /\ minted' >= minted
      BY <1>2 DEF IInv, TypeOK
    <2> QED
      BY <1>1, <1>2, <2>1, <2>2, <2>3, <2>4, SameSession
  <1> QED
    BY <1>3, <1>4 DEF Clash

\* A save of anything but a password leaves every hash; a save of a password starts an era
\* of its account, and the request's own session is of that era.
LEMMA UpdateSession ==
    ASSUME IInv, StoreInv, SessionInv, NEW r \in Requests, Update(r)
    PROVE  SessionInv'
  <1> DEFINE p == req[r]
             now == IF p.ask.op = "passwd" /\ user[p.id] # None
                    THEN [era EXCEPT ![p.id] = @ + 1] ELSE era
             done == IF p.ask.op = "passwd" THEN [p EXCEPT !.era = now[p.id]] ELSE p
             q == Finish(done)
             i == p.id
             row == Merge(user[i], p.row, p.stored)
             rs == Requests \ {r}
  <1>1. /\ p.pc = "write" /\ p.ask.op # "register"
        /\ user' = Saved(user, p) /\ era' = now
        /\ req' = [req EXCEPT ![r] = q] /\ UNCHANGED <<jar, minted>>
    BY DEF Update, Store
  <1>2. /\ p \in Request /\ i \in Ids /\ i # 0 /\ p.row \in Row /\ p.stored \in Row
        /\ Known(p.stored, spent) /\ Change(p) /\ SessionOf(p, r, minted, req, user, era)
        /\ user \in Table /\ era \in [Ids -> Nat]
    BY <1>1, Typed DEF InFlight, Saves, StoreInv, SessionInv, Carries, IInv, TypeOK, Ids
  <1>3. row.hash = IF p.row.hash = p.stored.hash THEN user[i].hash ELSE p.row.hash
    BY DEF Merge
  <1>4. user' = user \/ (user[i] # None /\ user' = [user EXCEPT ![i] = row])
    BY <1>1 DEF Saved
  <1> HIDE DEF row
  <1>5. CASE p.ask.op # "passwd"
    <2>1. p.row.hash = p.stored.hash
      BY <1>1, <1>2, <1>5 DEF Change, Row
    <2>2. era' = era /\ Done(r)
      BY <1>1, <1>5 DEF Done, IInv, TypeOK
    <2>3. Hashes(r)
      <3>1. CASE user' = user
        BY <2>2, <3>1, HashesKept
      <3>2. CASE user[i] # None /\ user' = [user EXCEPT ![i] = row]
        <4> HIDE DEF i
        <4>1. user[i] # None /\ row.hash = user[i].hash /\ era'[i] = era[i]
          BY <1>3, <2>1, <2>2, <3>2 DEF i
        <4>2. \A j \in Ids \ {i} : era'[j] = era[j]
          BY <2>2
        <4>3. i \in Ids
          BY <1>2 DEF i
        <4> QED
          BY <3>2, <4>1, <4>2, <4>3, HashesPut
      <3> QED
        BY <1>4, <3>1, <3>2
    <2>4. UNCHANGED <<jar, minted>> /\ req[r].pc # "login"
             /\ ~(req[r].pc = "write" /\ req[r].ask.op = "passwd")
      BY <1>1, <1>5
    <2> QED
      BY <2>2, <2>3, <2>4, DoneSession
  <1>6. CASE p.ask.op = "passwd"
    <2>1. /\ p.row.name = p.stored.name /\ p.id = p.sess.uid /\ p.me = p.row
          /\ New(p) = {p.row.hash.salt, p.row.token}
      BY <1>1, <1>2, <1>6 DEF Change, Row, New
    <2>2. p.row.hash # p.stored.hash
      <3>1. \A n \in New(p) : n \notin spent
        BY DEF StoreInv, FreshInv
      <3> QED
        BY <1>2, <2>1, <3>1 DEF Known
    <2>3. \A j \in Ids \ {i} : era'[j] = era[j]
      BY <1>1, <1>2
    <2>4. Hashes(r)
      <3>1. CASE user[i] = None
        <4>1. user' = user /\ era' = era
          BY <1>1, <3>1 DEF Saved
        <4> QED
          BY <4>1, HashesKept
      <3>2. CASE user[i] # None
        <4>1. user' = [user EXCEPT ![i] = row]
          BY <1>1, <2>1, <3>2 DEF Saved, Refused, row
        <4>2. row.hash.salt \in New(req[r])
          BY <1>3, <2>1, <2>2
        <4> HIDE DEF i
        <4>3. i \in Ids
          BY <1>2 DEF i
        <4> QED
          BY <2>3, <4>1, <4>2, <4>3, HashesPut
      <3> QED
        BY <3>1, <3>2
    <2>5. /\ q.pc = "respond" /\ q.sess = p.sess /\ q.me = p.row /\ q.era = era'[i]
      <3> HIDE DEF now
      <3>1. /\ done.sess = p.sess /\ done.me = p.me /\ done.era = now[i]
        BY <1>2, <1>6 DEF Request
      <3> HIDE DEF done, p, i
      <3>2. q.pc = "respond" /\ q.sess = done.sess /\ q.me = done.me /\ q.era = done.era
        BY DEF Finish, Idle
      <3> QED
        BY <1>1, <2>1, <3>1, <3>2
    <2> HIDE DEF q, now, done
    <2>6. New(q) = {} /\ \A s \in rs : req'[s] = req[s]
      BY <1>1, <2>5, NothingNew DEF IInv, TypeOK
    <2>7. Current(q.sess, user', era') /\ Settled(q.sess, minted', rs, req')
      <3> DEFINE c == p.sess
      <3>1. /\ c.uid \in Ids \cup {0} /\ Current(c, user, era)
            /\ c.mark # None => c.mark.salt \notin New(req[r])
        BY <1>1, <1>2 DEF SessionOf, Request, Session
      <3>2. Settled(c, minted', rs, req')
        BY <1>1, <1>2, <2>6 DEF SessionOf, Settled
      <3> HIDE DEF c
      <3>3. Current(c, user', era')
        BY <2>4, <3>1, CurrentStays
      <3> QED
        BY <2>5, <3>2, <3>3 DEF c
    <2>8. Current(OfMe(q), user', era') /\ Settled(OfMe(q), minted', rs, req')
      <3>1. OfMe(q).uid = i /\ OfMe(q).mark = p.row.hash /\ OfMe(q).era = era'[i]
        BY <2>1, <2>5 DEF OfMe
      <3>2. Current(OfMe(q), user', era')
        BY <3>1 DEF Current
      <3>3. p.me # None /\ OfMe(p).mark = p.row.hash
        BY <1>2, <2>1, NoneApart DEF OfMe
      <3>4. Settled(OfMe(q), minted', rs, req')
        BY <1>1, <1>2, <2>6, <3>1, <3>3 DEF SessionOf, Settled
      <3> QED
        BY <3>2, <3>4
    <2>9. SessionOf(q, r, minted', req', user', era')
      BY <2>5, <2>6, <2>7, <2>8 DEF SessionOf
    <2>10. /\ New(q) \subseteq (minted + 1)..minted' \cup New(req[r])
           /\ minted' \in Nat /\ minted' >= minted
      BY <1>1, <2>6 DEF IInv, TypeOK
    <2> HIDE DEF p
    <2> QED
      BY <1>1, <2>4, <2>9, <2>10, MoveSession
  <1> QED
    BY <1>5, <1>6

\* The request is over, and the browser has the session it ended with, or the one it had.
LEMMA OverSession ==
    ASSUME IInv, StoreInv, SessionInv, NEW r \in Requests, req' = [req EXCEPT ![r] = Idle],
           UNCHANGED <<tables, minted>>,
           \/ UNCHANGED jar
           \/ jar' = [jar EXCEPT ![req[r].by] = Marked(req[r])]
    PROVE  SessionInv'
  <1> DEFINE p == req[r]
             rs == Requests \ {r}
  <1>1. /\ p \in Request /\ SessionOf(p, r, minted, req, user, era)
        /\ UNCHANGED <<user, era, minted>> /\ minted' \in Nat /\ minted' >= minted
    BY DEF SessionInv, tables, IInv, TypeOK
  <1>2. Idle.pc = "idle" /\ Idle.sess = NoSession /\ Idle.me = None
    BY DEF Idle
  <1>3. New(Idle) = {} /\ SessionOf(Idle, r, minted', req', user', era')
    BY <1>2, NothingNew, OutOfSession
  <1>4. Current(Marked(p), user', era') /\ Settled(Marked(p), minted', Requests, req')
    <2>1. \A s \in Requests : req'[s] = IF s = r THEN Idle ELSE req[s]
      BY DEF IInv, TypeOK
    <2>2. ASSUME NEW c, Current(c, user, era), Settled(c, minted, rs, req)
          PROVE  Current(c, user', era') /\ Settled(c, minted', Requests, req')
      BY <1>1, <1>3, <2>1, <2>2 DEF Current, Settled
    <2>3. CASE p.me # None /\ p.sess.mark # Mark(p.me)
      <3>1. Marked(p) = [uid |-> p.sess.uid, mark |-> p.me.hash, era |-> p.era]
        BY <1>1, <2>3 DEF Marked, Mark, Request, Session
      <3> QED
        BY <1>1, <2>2, <2>3, <3>1 DEF SessionOf, OfMe
    <2>4. CASE Marked(p) = p.sess
      BY <1>1, <2>2, <2>4 DEF SessionOf
    <2> QED
      BY <2>3, <2>4 DEF Marked
  <1>5. \A b \in Browsers : \/ jar'[b] = jar[b]
                            \/ Current(jar'[b], user', era') /\ Settled(jar'[b], minted', Requests, req')
    BY <1>4 DEF IInv, TypeOK
  <1>6. New(Idle) \subseteq (minted + 1)..minted' \cup New(req[r]) /\ Hashes(r)
    BY <1>1, <1>3, HashesKept
  <1> HIDE DEF p
  <1> QED
    BY <1>1, <1>3, <1>5, <1>6, MoveSession

LEMMA NextSessions ==
    ASSUME IInv, StoreInv, SessionInv, [Next]_vars
    PROVE  SessionInv'
  <1>1. CASE UNCHANGED vars
    BY <1>1 DEF vars, SessionInv
  <1>2. ASSUME NEW r \in Requests, Done(r), UNCHANGED <<tables, jar, minted>>
        PROVE  SessionInv'
    <2>1. UNCHANGED <<user, era, jar, minted>>
      BY <1>2 DEF tables
    <2> QED
      BY <1>2, <2>1, HashesKept, DoneSession
  <1>3. ASSUME NEW r \in Requests, Step(r)
        PROVE  SessionInv'
    <2>1. CASE Answer(r) \/ Register(r) \/ RegisterFirst(r) \/ Found(r) \/ Insert(r)
      BY <1>2, <2>1, RegisterSession, FoundSession, InsertSession DEF Answer
    <2>2. CASE Login(r) \/ LoginSave(r) \/ Logout(r)
      BY <2>2, LoginSession, LoginSaveSession, LogoutSession
    <2>3. CASE Rename(r) \/ ChangePassword(r) \/ RegenerateToken(r) \/ ChangeRole(r)
      BY <2>3, RenameSession, ChangePasswordSession, ChangeRoleSession
    <2>4. CASE Clash(r) \/ Update(r) \/ DeleteUser(r)
      BY <2>4, ClashSession, UpdateSession, DeleteUserSession
    <2>5. CASE Respond(r)
      BY <2>5, OverSession DEF Respond
    <2> QED
      BY <1>3, <2>1, <2>2, <2>3, <2>4, <2>5 DEF Step
  <1>4. ASSUME NEW r \in Requests, Busy(r) \/ Lost(r)
        PROVE  SessionInv'
    BY <1>2, <1>4, OverSession DEF Busy, Lost
  <1> QED
    BY <1>1, <1>3, <1>4, StartSession DEF Next, Quiet

LEMMA InitSessions ==
    ASSUME Init
    PROVE  SessionInv
  <1>1. /\ IInv /\ StoreInv /\ spent = Secrets(user) /\ era = [i \in Ids |-> 0]
        /\ \A r \in Requests : req[r] = Idle
    BY InitHolds, InitStores DEF Init
  <1>2. Idle.pc = "idle" /\ Idle.sess = NoSession /\ Idle.me = None
    BY DEF Idle
  <1>3. New(Idle) = {} /\ \A r \in Requests : SessionOf(req[r], r, minted, req, user, era)
    BY <1>1, <1>2, NothingNew, OutOfSession
  <1>4. ASSUME NEW b \in Browsers
        PROVE  Current(jar[b], user, era) /\ Settled(jar[b], minted, Requests, req)
    <2>1. CASE jar[b] = NoSession
      BY <2>1 DEF NoSession, Current, Settled
    <2>2. CASE jar[b] # NoSession
      <3>1. PICK c \in OldCookies : c.uid \in Held(user) /\ jar[b] = OldCookie(c)
        BY <2>2 DEF Init
      <3>2. /\ jar[b].uid = c.uid /\ jar[b].era = 0 /\ c.uid \in Ids
            /\ jar[b].mark = None \/ jar[b].mark = user[c.uid].hash
        BY <3>1 DEF OldCookie, Mark, Held
      <3>3. user[c.uid].hash.salt <= minted
        <4>1. Known(user[c.uid], spent)
          BY <1>1, <3>1, RowsKnown
        <4> QED
          BY <1>1, <4>1 DEF StoreInv, FreshInv, Known
      <3> QED
        BY <1>1, <1>3, <3>2, <3>3 DEF Current, Settled
    <2> QED
      BY <2>1, <2>2
  <1> QED
    BY <1>3, <1>4 DEF SessionInv

\* However requests, saves and responses interleave, a browser's session that is accepted as
\* logged in was marked with a row read in the account's present era: what a password change
\* ends stays ended (authentication.password_mark, load_logged_in_user,
\* mark_the_session_with_the_current_password, UserInfo.saveLogin).
THEOREM NoSessionOutlives == Spec => []NoSessionOutlivesPassword
  <1>1. Init => SessionInv
    BY InitSessions
  <1>2. IInv /\ StoreInv /\ SessionInv /\ [Next]_vars => SessionInv'
    BY NextSessions
  <1>3. SessionInv => NoSessionOutlivesPassword
    BY DEF SessionInv, Current, NoSessionOutlivesPassword, Ends, Mark
  <1> QED
    BY <1>1, <1>2, <1>3, StoreGuarded, PTL DEF Spec
--------------------------------------------------------------------------------
(* The throttle that stands in front of /login and /register (LoginThrottle).  *)
(* What counts is counted one attempt at a time: an attempt is a row with a    *)
(* number, a second maps the attempts one to one to those of the second        *)
(* before, and a failure adds a single one.  WithinBudget is inductive next to *)
(* MeterInv, because a request that has been let through is in Trying until it *)
(* has recorded its failure.                                                   *)

\* One element for each attempt the rows hold.
Attempts(attempts, rows) == UNION {{row} \X (1..attempts[row]) : row \in rows}
Recent(addr) == RowsOf(addr, Recorded, {age \in Ages : InWindow(age)})

\* The table holds finitely many attempts, and who clears has logged in.
MeterInv ==
    /\ ThrottleTypeOK
    /\ IsFiniteSet(Attempts(login_attempt, Rows))
    /\ \A r \in Callers : At(r, "clear") => request[r].as[1] = "login"

\* What is counted is the attempts.
LEMMA AttemptsOf ==
    ASSUME NEW attempts, NEW rows
    PROVE  /\ Count(attempts, rows) = Cardinality(Attempts(attempts, rows))
           /\ \A u : u \in Attempts(attempts, rows)
                        <=> \E row \in rows : u \in {row} \X (1..attempts[row])
  BY DEF Count, Attempts

\* Fewer rows hold no more attempts.
LEMMA FewerAttempts ==
    ASSUME NEW set, IsFiniteSet(set), NEW attempts, NEW rows, Attempts(attempts, rows) \subseteq set
    PROVE  /\ IsFiniteSet(Attempts(attempts, rows)) /\ Count(attempts, rows) \in Nat
           /\ Count(attempts, rows) <= Cardinality(set)
<1>1. Attempts(attempts, rows) \in SUBSET set
  OBVIOUS
<1>2. IsFiniteSet(Attempts(attempts, rows)) /\ Cardinality(Attempts(attempts, rows)) <= Cardinality(set)
  BY <1>1, FS_Subset
<1>3. Cardinality(Attempts(attempts, rows)) \in Nat
  BY <1>2, FS_CardinalityType
<1> QED BY <1>2, <1>3, AttemptsOf

\* Which rows RowsOf asks for.
LEMMA RowsWithin ==
    ASSUME NEW addr \in Addresses, NEW recorded, recorded \subseteq Recorded,
           NEW ages, ages \subseteq Ages
    PROVE  /\ RowsOf(addr, recorded, ages) \subseteq Rows
           /\ \A row \in Rows : row \in RowsOf(addr, recorded, ages)
                <=> row[1] = addr /\ row[2] \in recorded /\ row[3] \in ages
  BY DEF RowsOf, Rows

\* Attempts of some of the rows are finitely many.
LEMMA SomeAttempts ==
    ASSUME NEW attempts, IsFiniteSet(Attempts(attempts, Rows)), NEW rows, rows \subseteq Rows
    PROVE  IsFiniteSet(Attempts(attempts, rows)) /\ Count(attempts, rows) \in Nat
<1>1. Attempts(attempts, rows) \subseteq Attempts(attempts, Rows)
  BY AttemptsOf
<1> QED BY <1>1, FewerAttempts

\* Where no row gained, none of the counts grew.
LEMMA NoneMore ==
    ASSUME NEW old, IsFiniteSet(Attempts(old, Rows)), NEW new, NEW rows, rows \subseteq Rows,
           \A row \in rows : 1..new[row] \subseteq 1..old[row]
    PROVE  /\ IsFiniteSet(Attempts(new, rows)) /\ Count(new, rows) \in Nat
           /\ Count(new, rows) <= Count(old, rows)
<1>1. Attempts(new, rows) \subseteq Attempts(old, rows)
  BY AttemptsOf
<1>2. IsFiniteSet(Attempts(old, rows))
  BY SomeAttempts
<1>3. /\ IsFiniteSet(Attempts(new, rows)) /\ Count(new, rows) \in Nat
      /\ Count(new, rows) <= Cardinality(Attempts(old, rows))
  BY <1>1, <1>2, FewerAttempts
<1> QED BY <1>3, AttemptsOf
--------------------------------------------------------------------------------
(* A second passes.                                                           *)

\* Each attempt is one of a second ago.
LEMMA OlderAttempts ==
    ASSUME NEW attempts \in [Rows -> Nat], IsFiniteSet(Attempts(attempts, Rows))
    PROVE  /\ Older(attempts) \in [Rows -> Nat] /\ IsFiniteSet(Attempts(Older(attempts), Rows))
           /\ \A addr \in Addresses :
                Count(Older(attempts), Recent(addr)) <= Count(attempts, Recent(addr))
<1> DEFINE old == Older(attempts)
           kept(row) == IF InWindow(row[3]) THEN 0 ELSE attempts[row]
           aged(row) == IF row[3] = 0 THEN 0 ELSE attempts[Younger(row)]
           from(u) == IF u[2] <= kept(u[1]) THEN u ELSE <<Younger(u[1]), u[2] - kept(u[1])>>
           all == Attempts(old, Rows)
           was == Attempts(attempts, Rows)
<1>1. \A row \in Rows : /\ row[3] \in Nat /\ kept(row) \in Nat
                        /\ row = <<row[1], row[2], row[3]>>
  BY LimitAndWindow DEF Rows, Ages, InWindow
<1>2. \A row \in Rows : row[3] # 0 => /\ Younger(row) \in Rows
                                      /\ attempts[Younger(row)] \in Nat
  BY LimitAndWindow DEF Rows, Ages, Younger
<1>3. old \in [Rows -> Nat] /\ \A row \in Rows : old[row] = aged(row) + kept(row)
  BY <1>1, <1>2 DEF Older
<1>4. \A row \in Rows, s \in Rows : row[3] # 0 /\ s[3] # 0 /\ Younger(row) = Younger(s) => row = s
  BY <1>1, LimitAndWindow DEF Rows, Ages, Younger
<1> HIDE DEF old
<1>5. ASSUME NEW row \in Rows, NEW i \in 1..old[row]
      PROVE  /\ from(<<row, i>>) \in was
             /\ ~(i <= kept(row)) => /\ row[3] # 0 /\ i - kept(row) \in 1..attempts[Younger(row)]
                                     /\ from(<<row, i>>) = <<Younger(row), i - kept(row)>>
             /\ i <= kept(row) => from(<<row, i>>) = <<row, i>> /\ ~InWindow(row[3])
  <2>1. CASE i <= kept(row)
    <3>1. ~InWindow(row[3]) /\ kept(row) = attempts[row] /\ from(<<row, i>>) = <<row, i>>
      BY <2>1
    <3>2. i \in 1..attempts[row]
      BY <2>1, <3>1
    <3>3. <<row, i>> \in was
      BY <3>2, AttemptsOf
    <3> QED BY <2>1, <3>1, <3>3
  <2>2. CASE ~(i <= kept(row))
    <3>1. from(<<row, i>>) = <<Younger(row), i - kept(row)>>
      BY <2>2
    <3>2. old[row] = aged(row) + kept(row) /\ old[row] \in Nat /\ kept(row) \in Nat
      BY <1>1, <1>3
    <3>3. row[3] # 0 /\ aged(row) = attempts[Younger(row)]
      <4>1. CASE row[3] = 0
        <5>1. aged(row) = 0
          BY <4>1
        <5> HIDE DEF aged, kept
        <5> QED BY <2>2, <3>2, <5>1
      <4> QED BY <4>1
    <3>4. attempts[Younger(row)] \in Nat /\ Younger(row) \in Rows
      BY <1>2, <3>3
    <3>5. i - kept(row) \in 1..attempts[Younger(row)]
      <4> HIDE DEF aged, kept
      <4> QED BY <2>2, <3>2, <3>3, <3>4
    <3>6. <<Younger(row), i - kept(row)>> \in was
      <4> HIDE DEF kept
      <4> QED BY <3>4, <3>5, AttemptsOf
    <3> HIDE DEF from, kept
    <3> QED BY <2>2, <3>1, <3>3, <3>5, <3>6
  <2> QED BY <2>1, <2>2
<1>6. ASSUME NEW row \in Rows, NEW i \in 1..old[row], NEW s \in Rows, NEW j \in 1..old[s],
             from(<<row, i>>) = from(<<s, j>>)
      PROVE  row = s /\ i = j
  <2>1. kept(row) \in Nat /\ kept(s) \in Nat /\ i \in Nat /\ j \in Nat
    <3>1. old[row] \in Nat /\ old[s] \in Nat
      BY <1>3
    <3> QED BY <1>1, <3>1
  <2>2. /\ ~(i <= kept(row)) => /\ row[3] # 0 /\ i - kept(row) \in 1..attempts[Younger(row)]
                                /\ from(<<row, i>>) = <<Younger(row), i - kept(row)>>
        /\ i <= kept(row) => from(<<row, i>>) = <<row, i>> /\ ~InWindow(row[3])
    BY <1>5
  <2>3. /\ ~(j <= kept(s)) => /\ s[3] # 0 /\ j - kept(s) \in 1..attempts[Younger(s)]
                              /\ from(<<s, j>>) = <<Younger(s), j - kept(s)>>
        /\ j <= kept(s) => from(<<s, j>>) = <<s, j>> /\ ~InWindow(s[3])
    BY <1>5
  <2>4. \A q \in Rows : q[3] # 0 => InWindow(Younger(q)[3])
    BY LimitAndWindow DEF Rows, Ages, Younger, InWindow
  <2>5. CASE i <= kept(row) /\ j <= kept(s)
    <3>1. <<row, i>> = <<s, j>>
      <4> HIDE DEF from, kept
      <4> QED BY <1>6, <2>2, <2>3, <2>5
    <3> QED BY <3>1
  <2>6. CASE i <= kept(row) /\ ~(j <= kept(s))
    <3>1. <<row, i>> = <<Younger(s), j - kept(s)>> /\ s[3] # 0 /\ ~InWindow(row[3])
      <4> HIDE DEF from, kept
      <4> QED BY <1>6, <2>2, <2>3, <2>6
    <3>2. row = Younger(s)
      <4> HIDE DEF kept
      <4> QED BY <3>1
    <3> QED BY <2>4, <3>1, <3>2
  <2>7. CASE ~(i <= kept(row)) /\ j <= kept(s)
    <3>1. <<s, j>> = <<Younger(row), i - kept(row)>> /\ row[3] # 0 /\ ~InWindow(s[3])
      <4> HIDE DEF from, kept
      <4> QED BY <1>6, <2>2, <2>3, <2>7
    <3>2. s = Younger(row)
      <4> HIDE DEF kept
      <4> QED BY <3>1
    <3> QED BY <2>4, <3>1, <3>2
  <2>8. CASE ~(i <= kept(row)) /\ ~(j <= kept(s))
    <3>1. /\ <<Younger(row), i - kept(row)>> = <<Younger(s), j - kept(s)>>
          /\ row[3] # 0 /\ s[3] # 0
      <4> HIDE DEF from, kept
      <4> QED BY <1>6, <2>2, <2>3, <2>8
    <3>2. Younger(row) = Younger(s) /\ i - kept(row) = j - kept(s)
      <4> HIDE DEF kept
      <4> QED BY <3>1
    <3>3. row = s
      BY <1>4, <3>1, <3>2
    <3> HIDE DEF kept
    <3> QED BY <2>1, <3>2, <3>3
  <2> HIDE DEF kept
  <2> QED BY <2>5, <2>6, <2>7, <2>8
<1>7. \A u \in all : /\ u[1] \in Rows /\ u[2] \in 1..old[u[1]] /\ u = <<u[1], u[2]>>
  BY AttemptsOf
<1>8. \A u, v \in all : from(u) = from(v) => u = v
  <2> SUFFICES ASSUME NEW u \in all, NEW v \in all, from(u) = from(v) PROVE u = v
    OBVIOUS
  <2>1. from(<<u[1], u[2]>>) = from(<<v[1], v[2]>>)
    BY <1>7
  <2> HIDE DEF from, all
  <2>2. u[1] = v[1] /\ u[2] = v[2]
    BY <1>6, <1>7, <2>1
  <2> QED BY <1>7, <2>2
<1>9. \A u \in all : from(u) \in was
  <2> HIDE DEF from, all, was
  <2> QED BY <1>5, <1>7
<1>10. IsFiniteSet(all)
  <2> DEFINE f == [u \in all |-> from(u)]
  <2>1. f \in Injection(all, was)
    <3> HIDE DEF from, all, was
    <3> QED BY <1>8, <1>9 DEF Injection, IsInjective
  <2>2. IsFiniteSet(was)
    OBVIOUS
  <2> HIDE DEF f, all, was
  <2> QED BY <2>1, <2>2, FS_Injection DEF ExistsInjection
<1>11. ASSUME NEW addr \in Addresses
       PROVE  Count(old, Recent(addr)) <= Count(attempts, Recent(addr))
  <2> DEFINE now == Attempts(old, Recent(addr))
             then == Attempts(attempts, Recent(addr))
             f == [u \in now |-> from(u)]
  <2>1. /\ Recent(addr) \subseteq Rows
        /\ \A row \in Rows : row \in Recent(addr) <=>
              row[1] = addr /\ row[2] \in Recorded /\ row[3] \in Ages /\ InWindow(row[3])
    BY RowsWithin DEF Recent
  <2>2. \A u \in now : u \in all /\ u[1] \in Recent(addr)
    BY <2>1, AttemptsOf
  <2>3. IsFiniteSet(then)
    BY <2>1, SomeAttempts
  <2>4. ASSUME NEW u \in now PROVE from(u) \in then
    <3>1. /\ u[1] \in Rows /\ u[2] \in 1..old[u[1]] /\ u = <<u[1], u[2]>>
          /\ u[1] \in Recent(addr) /\ InWindow(u[1][3])
      BY <1>7, <2>1, <2>2
    <3>2. u[2] \in Nat /\ u[2] >= 1 /\ kept(u[1]) = 0
      <4>1. old[u[1]] \in Nat
        BY <1>3, <3>1
      <4> QED BY <3>1, <4>1
    <3>3. ~(u[2] <= kept(u[1]))
      <4> HIDE DEF kept
      <4> QED BY <3>2
    <3>4. /\ u[1][3] # 0 /\ u[2] - kept(u[1]) \in 1..attempts[Younger(u[1])]
          /\ from(u) = <<Younger(u[1]), u[2] - kept(u[1])>>
      <4> HIDE DEF kept, from
      <4> QED BY <1>5, <3>1, <3>3
    <3>5. Younger(u[1]) \in Recent(addr)
      <4>1. Younger(u[1]) \in Rows
        BY <1>2, <3>1, <3>4
      <4>2. /\ Younger(u[1])[1] = u[1][1] /\ Younger(u[1])[2] = u[1][2]
            /\ Younger(u[1])[3] = u[1][3] - 1
        BY DEF Younger
      <4>3. u[1][3] \in Ages /\ u[1][1] = addr /\ u[1][2] \in Recorded
        BY <2>1, <3>1
      <4>4. u[1][3] - 1 \in Ages /\ InWindow(u[1][3] - 1)
        BY <3>1, <3>4, <4>3, LimitAndWindow DEF Ages, InWindow
      <4> QED BY <2>1, <4>1, <4>2, <4>3, <4>4
    <3> HIDE DEF from, kept
    <3> QED BY <3>4, <3>5, AttemptsOf
  <2>5. f \in Injection(now, then)
    <3> HIDE DEF from, all, now, then
    <3> QED BY <1>8, <2>2, <2>4 DEF Injection, IsInjective
  <2>6. Cardinality(now) <= Cardinality(then)
    <3> HIDE DEF f, now, then
    <3> QED BY <2>3, <2>5, FS_Injection DEF ExistsInjection
  <2> QED BY <2>6, AttemptsOf
<1> QED BY <1>3, <1>10, <1>11 DEF old
--------------------------------------------------------------------------------
(* A failure, and a login.                                                    *)

\* A failure adds one attempt, to its own row.
LEMMA FailureCounted ==
    ASSUME NEW old \in [Rows -> Nat], IsFiniteSet(Attempts(old, Rows)),
           NEW addr \in Addresses, NEW as \in Recorded,
           NEW new, new = Prune([old EXCEPT ![<<addr, as, 0>>] = @ + 1])
    PROVE  /\ new \in [Rows -> Nat] /\ IsFiniteSet(Attempts(new, Rows))
           /\ \A a \in Addresses : Count(new, Recent(a)) \in Nat /\ Count(old, Recent(a)) \in Nat
           /\ Count(new, Recent(addr)) <= Count(old, Recent(addr)) + 1
           /\ \A a \in Addresses \ {addr} : Count(new, Recent(a)) <= Count(old, Recent(a))
           /\ \A a \in Addresses, s \in Recorded : Outstanding(old, a, s) <= Outstanding(new, a, s)
<1> DEFINE row0 == <<addr, as, 0>>
           x == <<row0, old[row0] + 1>>
<1>1. row0 \in Rows /\ row0[1] = addr /\ row0[3] = 0
  <2>1. 0 \in Ages
    BY LimitAndWindow DEF Ages
  <2> QED BY <2>1 DEF Rows
<1> HIDE DEF row0
<1>2. /\ new \in [Rows -> Nat]
      /\ \A row \in Rows : /\ old[row] \in Nat
                           /\ InWindow(row[3]) /\ row # row0 => new[row] = old[row]
                           /\ InWindow(row[3]) /\ row = row0 => new[row] = old[row] + 1
                           /\ ~InWindow(row[3]) => new[row] = 0
  <2> DEFINE more == [old EXCEPT ![row0] = @ + 1]
  <2>1. new = Prune(more)
    BY DEF row0
  <2>2. \A row \in Rows : more[row] = IF row = row0 THEN old[row] + 1 ELSE old[row]
    OBVIOUS
  <2> HIDE DEF more
  <2>3. new = [row \in Rows |-> IF InWindow(row[3]) THEN more[row] ELSE 0]
    BY <2>1 DEF Prune
  <2>4. \A row \in Rows : old[row] \in Nat /\ new[row] = IF InWindow(row[3]) THEN more[row] ELSE 0
    BY <2>3
  <2>5. ASSUME NEW row \in Rows PROVE new[row] \in Nat
    <3>1. more[row] \in Nat
      BY <2>2, <2>4
    <3>2. new[row] = more[row] \/ new[row] = 0
      BY <2>4
    <3> QED BY <3>1, <3>2
  <2>6. new \in [Rows -> Nat]
    BY <2>3, <2>5
  <2> QED BY <2>2, <2>4, <2>6
<1>3. ASSUME NEW rows, rows \subseteq Rows
      PROVE  /\ Attempts(new, rows) \subseteq Attempts(old, rows) \cup {x}
             /\ row0 \notin rows => Attempts(new, rows) \subseteq Attempts(old, rows)
  <2>1. ASSUME NEW row \in rows, NEW i \in 1..new[row]
        PROVE  i \in 1..old[row] \/ (row = row0 /\ <<row, i>> = x)
    <3>1. row \in Rows /\ old[row] \in Nat
      BY <1>2, <1>3
    <3>2. CASE ~InWindow(row[3])
      <4>1. new[row] = 0
        BY <1>2, <3>1, <3>2
      <4>2. i \in 1..0
        BY <2>1, <4>1
      <4> QED BY <4>2
    <3>3. CASE InWindow(row[3]) /\ row # row0
      BY <1>2, <3>1, <3>3
    <3>4. CASE InWindow(row[3]) /\ row = row0
      <4>1. i \in 1..old[row] + 1
        BY <1>2, <3>1, <3>4
      <4>2. i \in 1..old[row] \/ i = old[row] + 1
        BY <3>1, <4>1
      <4> QED BY <3>4, <4>2
    <3> QED BY <3>2, <3>3, <3>4
  <2>2. \A u \in Attempts(new, rows) : u \in Attempts(old, rows) \/ (row0 \in rows /\ u = x)
    <3> SUFFICES ASSUME NEW u \in Attempts(new, rows)
                 PROVE  u \in Attempts(old, rows) \/ (row0 \in rows /\ u = x)
      OBVIOUS
    <3>1. PICK row \in rows : u \in {row} \X (1..new[row])
      BY AttemptsOf
    <3>2. PICK i \in 1..new[row] : u = <<row, i>>
      BY <3>1
    <3> HIDE DEF x
    <3> QED BY <2>1, <3>2, AttemptsOf
  <2> HIDE DEF x
  <2> QED BY <2>2
<1>4. ASSUME NEW rows, rows \subseteq Rows
      PROVE  /\ IsFiniteSet(Attempts(new, rows))
             /\ Count(new, rows) \in Nat /\ Count(old, rows) \in Nat
             /\ Count(new, rows) <= Count(old, rows) + 1
             /\ row0 \notin rows => Count(new, rows) <= Count(old, rows)
  <2>1. IsFiniteSet(Attempts(old, rows)) /\ Count(old, rows) \in Nat
    BY <1>4, SomeAttempts
  <2>2. Count(old, rows) = Cardinality(Attempts(old, rows))
    BY AttemptsOf
  <2>3. /\ IsFiniteSet(Attempts(old, rows) \cup {x})
        /\ Cardinality(Attempts(old, rows) \cup {x}) <= Cardinality(Attempts(old, rows)) + 1
    <3> HIDE DEF x
    <3>1. /\ IsFiniteSet(Attempts(old, rows) \cup {x})
          /\ Cardinality(Attempts(old, rows) \cup {x}) =
                IF x \in Attempts(old, rows) THEN Cardinality(Attempts(old, rows))
                                             ELSE Cardinality(Attempts(old, rows)) + 1
      BY <2>1, FS_AddElement
    <3> QED BY <2>1, <2>2, <3>1
  <2> HIDE DEF x
  <2>4. /\ IsFiniteSet(Attempts(new, rows)) /\ Count(new, rows) \in Nat
        /\ Count(new, rows) <= Cardinality(Attempts(old, rows) \cup {x})
    <3>1. Attempts(new, rows) \subseteq Attempts(old, rows) \cup {x}
      BY <1>3, <1>4
    <3> QED BY <2>3, <3>1, FewerAttempts
  <2>5. Cardinality(Attempts(old, rows) \cup {x}) \in Nat
    BY <2>3, FS_CardinalityType
  <2>6. Count(new, rows) <= Count(old, rows) + 1
    BY <2>1, <2>2, <2>3, <2>4, <2>5
  <2>7. row0 \notin rows => Count(new, rows) <= Count(old, rows)
    <3> SUFFICES ASSUME row0 \notin rows PROVE Count(new, rows) <= Count(old, rows)
      OBVIOUS
    <3>1. Attempts(new, rows) \subseteq Attempts(old, rows)
      BY <1>3, <1>4
    <3> QED BY <2>1, <2>2, <3>1, FewerAttempts
  <2> QED BY <2>1, <2>4, <2>6, <2>7
<1>5. IsFiniteSet(Attempts(new, Rows))
  BY <1>4
<1>6. \A a \in Addresses : /\ Recent(a) \subseteq Rows
                           /\ a # addr => row0 \notin Recent(a)
  BY <1>1, RowsWithin DEF Recent
<1>7. ASSUME NEW a \in Addresses, NEW s \in Recorded
      PROVE  Outstanding(old, a, s) <= Outstanding(new, a, s)
  <2> DEFINE rows == RowsOf(a, {s}, 0..Window)
  <2>1. rows \subseteq Rows /\ \A row \in rows : InWindow(row[3])
    <3> DEFINE ages == 0..Window
    <3>1. ages \subseteq Ages /\ \A age \in ages : InWindow(age)
      BY LimitAndWindow DEF Ages, InWindow
    <3> HIDE DEF ages
    <3>2. /\ RowsOf(a, {s}, ages) \subseteq Rows
          /\ \A row \in Rows : row \in RowsOf(a, {s}, ages)
                <=> row[1] = a /\ row[2] \in {s} /\ row[3] \in ages
      BY <1>7, <3>1, RowsWithin
    <3> QED BY <3>1, <3>2 DEF ages
  <2> HIDE DEF rows
  <2>2. ASSUME NEW row \in rows PROVE 1..old[row] \subseteq 1..new[row]
    <3>1. row \in Rows /\ InWindow(row[3]) /\ old[row] \in Nat
      BY <1>2, <2>1
    <3>2. new[row] = old[row] \/ new[row] = old[row] + 1
      BY <1>2, <3>1
    <3> QED BY <3>1, <3>2
  <2>3. Count(old, rows) <= Count(new, rows)
    BY <1>5, <2>1, <2>2, NoneMore
  <2> QED BY <2>3 DEF Outstanding, rows
<1> QED BY <1>2, <1>4, <1>5, <1>6, <1>7, <1>1

\* A login clears its own failures.
LEMMA LoginForgets ==
    ASSUME NEW old \in [Rows -> Nat], IsFiniteSet(Attempts(old, Rows)),
           NEW addr \in Addresses, NEW as \in Recorded, NEW new, new = Without(old, addr, as)
    PROVE  /\ new \in [Rows -> Nat] /\ IsFiniteSet(Attempts(new, Rows))
           /\ \A a \in Addresses : /\ Count(new, Recent(a)) \in Nat /\ Count(old, Recent(a)) \in Nat
                                   /\ Count(new, Recent(a)) <= Count(old, Recent(a))
           /\ \A a \in Addresses, s \in Recorded : ~(a = addr /\ s = as) =>
                Outstanding(old, a, s) <= Outstanding(new, a, s)
<1>1. /\ new \in [Rows -> Nat]
      /\ \A row \in Rows : /\ row[1] = addr /\ row[2] = as => new[row] = 0
                           /\ ~(row[1] = addr /\ row[2] = as) => new[row] = old[row]
  BY DEF Without
<1>2. ASSUME NEW row \in Rows PROVE 1..new[row] \subseteq 1..old[row]
  <2>1. new[row] = 0 \/ new[row] = old[row]
    BY <1>1
  <2>2. CASE new[row] = 0
    <3>1. 1..new[row] = {}
      BY <2>2
    <3> QED BY <3>1
  <2> QED BY <2>1, <2>2
<1>3. IsFiniteSet(Attempts(new, Rows))
  BY <1>2, NoneMore
<1>4. ASSUME NEW a \in Addresses
      PROVE  /\ Count(new, Recent(a)) \in Nat /\ Count(old, Recent(a)) \in Nat
             /\ Count(new, Recent(a)) <= Count(old, Recent(a))
  <2>1. Recent(a) \subseteq Rows
    BY RowsWithin DEF Recent
  <2> QED BY <1>2, <2>1, SomeAttempts, NoneMore
<1>5. ASSUME NEW a \in Addresses, NEW s \in Recorded, ~(a = addr /\ s = as)
      PROVE  Outstanding(old, a, s) <= Outstanding(new, a, s)
  <2> DEFINE rows == RowsOf(a, {s}, 0..Window)
  <2>1. rows \subseteq Rows /\ \A row \in rows : row[1] = a /\ row[2] = s
    <3> DEFINE ages == 0..Window
    <3>1. ages \subseteq Ages
      BY LimitAndWindow DEF Ages
    <3> HIDE DEF ages
    <3>2. /\ RowsOf(a, {s}, ages) \subseteq Rows
          /\ \A row \in Rows : row \in RowsOf(a, {s}, ages)
                <=> row[1] = a /\ row[2] \in {s} /\ row[3] \in ages
      BY <1>5, <3>1, RowsWithin
    <3> QED BY <3>2 DEF ages
  <2> HIDE DEF rows
  <2>2. \A row \in rows : 1..old[row] \subseteq 1..new[row]
    BY <1>1, <1>5, <2>1
  <2>3. Count(old, rows) <= Count(new, rows)
    BY <1>3, <2>1, <2>2, NoneMore
  <2> QED BY <2>3 DEF Outstanding, rows
<1> QED BY <1>1, <1>3, <1>4, <1>5
--------------------------------------------------------------------------------
(* The requests.                                                              *)

Spent(addr) == count_recent_login_failures(addr) + Cardinality(Trying(addr))

\* What the throttle counts, now and after a step.
LEMMA CountedRecent ==
    /\ \A addr : count_recent_login_failures(addr) = Count(login_attempt, Recent(addr))
    /\ \A addr : count_recent_login_failures(addr)' = Count(login_attempt', Recent(addr))
  BY DEF count_recent_login_failures, Recent

\* There are no more let through than there are callers.
LEMMA TryingCounted ==
    ASSUME NEW addr
    PROVE  /\ IsFiniteSet(Trying(addr)) /\ Cardinality(Trying(addr)) \in Nat
           /\ Cardinality(Trying(addr)) <= Cardinality(Callers) /\ Cardinality(Callers) \in Nat
<1>1. Trying(addr) \in SUBSET Callers
  BY DEF Trying
<1>2. IsFiniteSet(Trying(addr)) /\ Cardinality(Trying(addr)) <= Cardinality(Callers)
  BY <1>1, CallersAssumption, FS_Subset
<1> QED BY <1>2, CallersAssumption, FS_CardinalityType

\* A part of a finite set has no more elements.
LEMMA FewerTrying ==
    ASSUME NEW set, IsFiniteSet(set), NEW less, less \subseteq set
    PROVE  Cardinality(less) \in Nat /\ Cardinality(set) \in Nat /\ Cardinality(less) <= Cardinality(set)
<1>1. less \in SUBSET set
  OBVIOUS
<1>2. IsFiniteSet(less) /\ Cardinality(less) <= Cardinality(set)
  BY <1>1, FS_Subset
<1> QED BY <1>2, FS_CardinalityType

\* A request that goes on, or is over, leaves the others where they are.
LEMMA RequestMoves ==
    ASSUME MeterInv, NEW r \in Callers, NEW q \in Ask \cup {NoRequest},
           request' = [request EXCEPT ![r] = q],
           q # NoRequest /\ q.at = "clear" => q.as[1] = "login"
    PROVE  /\ request' \in [Callers -> Ask \cup {NoRequest}]
           /\ \A s \in Callers : request'[s] = IF s = r THEN q ELSE request[s]
           /\ (\A s \in Callers : At(s, "clear") => request[s].as[1] = "login")'
<1>1. request \in [Callers -> Ask \cup {NoRequest}]
  BY DEF MeterInv, ThrottleTypeOK
<1>2. \A s \in Callers : request'[s] = IF s = r THEN q ELSE request[s]
  BY <1>1
<1>3. request' \in [Callers -> Ask \cup {NoRequest}]
  BY <1>1
<1>4. ASSUME NEW s \in Callers, request'[s] # NoRequest, request'[s].at = "clear"
      PROVE  request'[s].as[1] = "login"
  <2>1. CASE s = r
    BY <1>2, <1>4, <2>1
  <2>2. CASE s # r
    BY <1>2, <1>4, <2>2 DEF MeterInv, ThrottleTypeOK, At
  <2> QED BY <2>1, <2>2
<1> QED BY <1>2, <1>3, <1>4 DEF At

\* Where a request is, after a step of its own.
LEMMA Goes ==
    ASSUME MeterInv, NEW r \in Callers, request[r] # NoRequest,
           NEW at \in {"ask", "try", "record", "clear"},
           at = "clear" => request[r].as[1] = "login",
           GoOn(r, at) \/ Answered(r)
    PROVE  \E q \in Ask \cup {NoRequest} :
              /\ request' = [request EXCEPT ![r] = q]
              /\ q # NoRequest => /\ q.at = at /\ q.addr = request[r].addr /\ q.as = request[r].as
                                  /\ GoOn(r, at)
              /\ Answered(r) => q = NoRequest
<1>1. request[r] \in Ask
  BY DEF MeterInv, ThrottleTypeOK
<1>2. CASE Answered(r)
  BY <1>2 DEF Answered
<1>3. CASE GoOn(r, at) /\ ~Answered(r)
  <2> DEFINE q == [request[r] EXCEPT !.at = at]
  <2>1. request' = [request EXCEPT ![r] = q]
    BY <1>3 DEF GoOn
  <2>2. q \in Ask /\ q.at = at /\ q.addr = request[r].addr /\ q.as = request[r].as
    BY <1>1 DEF Ask
  <2> HIDE DEF q
  <2> QED BY <1>3, <2>1, <2>2
<1> QED BY <1>2, <1>3

\* What a step of request r does: it moves on, and the table changes as where it was says.
Moves(r, q) ==
    /\ request' = [request EXCEPT ![r] = q]
    /\ q # NoRequest /\ q.at = "clear" => q.as[1] = "login"
    /\ \/ UNCHANGED login_attempt
       \/ /\ At(r, "record") /\ q = NoRequest
          /\ login_attempt' =
                Prune([login_attempt EXCEPT ![<<request[r].addr, request[r].as, 0>>] = @ + 1])
       \/ /\ At(r, "clear") /\ q = NoRequest
          /\ login_attempt' = Without(login_attempt, request[r].addr, request[r].as)
    /\ q # NoRequest /\ q.at \in {"try", "record"} =>
          /\ UNCHANGED login_attempt
          /\ \/ q.at = "record" /\ At(r, "try") /\ q.addr = request[r].addr
             \/ q.at = "try" /\ ~login_is_throttled(q.addr)

\* Every step of a request is one of those Moves tells apart.
LEMMA AnswerMoves ==
    ASSUME MeterInv, NEW r \in Callers, Post(r) \/ Answers(r) \/ Killed(r)
    PROVE  \E q \in Ask \cup {NoRequest} : Moves(r, q)
<1>1. CASE Post(r)
  <2>1. PICK addr \in Addresses, as \in Recorded :
            request' = [request EXCEPT ![r] = [addr |-> addr, as |-> as, at |-> "ask"]]
    BY <1>1 DEF Post
  <2> DEFINE q == [addr |-> addr, as |-> as, at |-> "ask"]
  <2>2. q \in Ask /\ q.at = "ask" /\ UNCHANGED login_attempt
    BY <1>1 DEF Ask, Post
  <2>3. request' = [request EXCEPT ![r] = q]
    BY <2>1
  <2> HIDE DEF q
  <2>4. Moves(r, q)
    BY <2>2, <2>3 DEF Moves
  <2> QED BY <2>2, <2>4
<1>2. CASE AskThrottle(r)
  <2>1. /\ request[r] # NoRequest /\ UNCHANGED login_attempt
        /\ Answered(r) \/ (GoOn(r, "try") /\ ~login_is_throttled(request[r].addr))
    BY <1>2 DEF AskThrottle, At
  <2>2. CASE Answered(r)
    <3>1. Moves(r, NoRequest)
      BY <2>1, <2>2 DEF Moves, Answered
    <3> QED BY <3>1
  <2>3. CASE GoOn(r, "try") /\ ~login_is_throttled(request[r].addr) /\ ~Answered(r)
    <3>1. PICK q \in Ask \cup {NoRequest} :
              /\ request' = [request EXCEPT ![r] = q]
              /\ q # NoRequest => q.at = "try" /\ q.addr = request[r].addr
      BY <2>1, <2>3, Goes
    <3>2. Moves(r, q)
      BY <2>1, <2>3, <3>1 DEF Moves
    <3> QED BY <3>2
  <2> QED BY <2>1, <2>2, <2>3
<1>3. CASE Try(r)
  <2>1. /\ request[r] # NoRequest /\ UNCHANGED login_attempt /\ At(r, "try")
        /\ Answered(r) \/ GoOn(r, "record") \/ (request[r].as[1] = "login" /\ GoOn(r, "clear"))
    BY <1>3 DEF Try, At
  <2>2. CASE Answered(r)
    <3>1. Moves(r, NoRequest)
      BY <2>1, <2>2 DEF Moves, Answered
    <3> QED BY <3>1
  <2>3. CASE GoOn(r, "record")
    <3>1. PICK q \in Ask \cup {NoRequest} :
              /\ request' = [request EXCEPT ![r] = q]
              /\ q # NoRequest => q.at = "record" /\ q.addr = request[r].addr
      BY <2>1, <2>3, Goes
    <3>2. Moves(r, q)
      BY <2>1, <3>1 DEF Moves
    <3> QED BY <3>2
  <2>4. CASE request[r].as[1] = "login" /\ GoOn(r, "clear")
    <3>1. PICK q \in Ask \cup {NoRequest} :
              /\ request' = [request EXCEPT ![r] = q]
              /\ q # NoRequest => q.at = "clear" /\ q.as = request[r].as
      BY <2>1, <2>4, Goes
    <3>2. Moves(r, q)
      BY <2>1, <2>4, <3>1 DEF Moves
    <3> QED BY <3>2
  <2> QED BY <2>1, <2>2, <2>3, <2>4
<1>4. CASE record_failed_login(r) \/ clear_login_failures(r)
  <2>1. Moves(r, NoRequest)
    BY <1>4 DEF record_failed_login, clear_login_failures, Answered, Moves
  <2> QED BY <2>1
<1>5. CASE Killed(r)
  <2>1. Moves(r, NoRequest)
    BY <1>5 DEF Killed, Answered, Moves
  <2> QED BY <2>1
<1> QED BY <1>1, <1>2, <1>3, <1>4, <1>5 DEF Answers

\* What the table counts after a step of request r.
LEMMA MovesTable ==
    ASSUME MeterInv, NEW r \in Callers, NEW q, Moves(r, q)
    PROVE  /\ login_attempt' \in [Rows -> Nat] /\ IsFiniteSet(Attempts(login_attempt', Rows))
           /\ \A a \in Addresses :
                /\ Count(login_attempt, Recent(a)) \in Nat /\ Count(login_attempt', Recent(a)) \in Nat
                /\ \/ Count(login_attempt', Recent(a)) <= Count(login_attempt, Recent(a))
                   \/ /\ At(r, "record") /\ q = NoRequest /\ a = request[r].addr
                      /\ Count(login_attempt', Recent(a)) <= Count(login_attempt, Recent(a)) + 1
<1>1. login_attempt \in [Rows -> Nat] /\ IsFiniteSet(Attempts(login_attempt, Rows))
  BY DEF MeterInv, ThrottleTypeOK
<1>2. \A s : At(r, s) => request[r].addr \in Addresses /\ request[r].as \in Recorded
  BY DEF MeterInv, ThrottleTypeOK, At, Ask
<1>3. CASE UNCHANGED login_attempt
  <2>1. \A a \in Addresses : Recent(a) \subseteq Rows
    BY RowsWithin DEF Recent
  <2>2. \A a \in Addresses : Count(login_attempt, Recent(a)) \in Nat
    BY <1>1, <2>1, SomeAttempts
  <2>3. \A a \in Addresses :
            /\ Count(login_attempt', Recent(a)) = Count(login_attempt, Recent(a))
            /\ Count(login_attempt, Recent(a)) <= Count(login_attempt, Recent(a))
    BY <1>3, <2>2
  <2> QED BY <1>1, <1>3, <2>2, <2>3
<1>4. CASE /\ At(r, "record") /\ q = NoRequest
           /\ login_attempt' =
                Prune([login_attempt EXCEPT ![<<request[r].addr, request[r].as, 0>>] = @ + 1])
  <2> DEFINE addr == request[r].addr
             as == request[r].as
  <2>1. addr \in Addresses /\ as \in Recorded
    BY <1>2, <1>4
  <2>2. login_attempt' = Prune([login_attempt EXCEPT ![<<addr, as, 0>>] = @ + 1])
    BY <1>4
  <2> HIDE DEF addr, as
  <2>3. /\ login_attempt' \in [Rows -> Nat] /\ IsFiniteSet(Attempts(login_attempt', Rows))
        /\ \A a \in Addresses : /\ Count(login_attempt', Recent(a)) \in Nat
                                /\ Count(login_attempt, Recent(a)) \in Nat
        /\ Count(login_attempt', Recent(addr)) <= Count(login_attempt, Recent(addr)) + 1
        /\ \A a \in Addresses \ {addr} :
              Count(login_attempt', Recent(a)) <= Count(login_attempt, Recent(a))
    BY <1>1, <2>1, <2>2, FailureCounted
  <2> QED BY <1>4, <2>3 DEF addr
<1>5. CASE /\ At(r, "clear") /\ q = NoRequest
           /\ login_attempt' = Without(login_attempt, request[r].addr, request[r].as)
  <2> DEFINE addr == request[r].addr
             as == request[r].as
  <2>1. addr \in Addresses /\ as \in Recorded /\ login_attempt' = Without(login_attempt, addr, as)
    BY <1>2, <1>5
  <2> HIDE DEF addr, as
  <2> QED BY <1>1, <2>1, LoginForgets
<1> QED BY <1>3, <1>4, <1>5 DEF Moves

\* Whom the throttle has let through after a step of request r.
LEMMA MovesTrying ==
    ASSUME MeterInv, NEW r \in Callers, NEW q \in Ask \cup {NoRequest}, Moves(r, q), NEW a \in Addresses
    PROVE  /\ \/ Trying(a)' \subseteq Trying(a)
              \/ UNCHANGED login_attempt /\ ~login_is_throttled(a)
           /\ At(r, "record") /\ q = NoRequest /\ a = request[r].addr =>
                r \in Trying(a) /\ Trying(a)' \subseteq Trying(a) \ {r}
<1>1. \A s \in Callers : request'[s] = IF s = r THEN q ELSE request[s]
  BY RequestMoves DEF Moves
<1>2. \A s : s \in Trying(a)' <=> /\ s \in Callers /\ request'[s] # NoRequest /\ request'[s].addr = a
                                  /\ request'[s].at \in {"try", "record"}
  BY DEF Trying
<1>3. \A s : s \in Trying(a) <=> /\ s \in Callers /\ request[s] # NoRequest /\ request[s].addr = a
                                 /\ request[s].at \in {"try", "record"}
  BY DEF Trying
<1>4. \A s \in Trying(a)' : s # r => s \in Trying(a)
  BY <1>1, <1>2, <1>3
<1>5. CASE r \notin Trying(a)'
  <2>1. Trying(a)' \subseteq Trying(a) \ {r}
    BY <1>4, <1>5
  <2> QED BY <1>3, <2>1 DEF At
<1>6. CASE r \in Trying(a)'
  <2>1. q # NoRequest /\ q.at \in {"try", "record"} /\ q.addr = a
    BY <1>1, <1>2, <1>6
  <2>2. /\ UNCHANGED login_attempt
        /\ \/ At(r, "try") /\ a = request[r].addr
           \/ ~login_is_throttled(a)
    BY <2>1 DEF Moves
  <2>3. CASE At(r, "try") /\ a = request[r].addr
    <3>1. r \in Trying(a)
      BY <1>3, <2>3 DEF At
    <3>2. Trying(a)' \subseteq Trying(a)
      BY <1>4, <3>1
    <3> QED BY <2>1, <3>2
  <2> QED BY <2>1, <2>2, <2>3
<1> QED BY <1>5, <1>6

\* No step of a request breaks the invariant or overdraws the budget.
LEMMA MovesKeep ==
    ASSUME MeterInv, WithinBudget, NEW r \in Callers, NEW q \in Ask \cup {NoRequest}, Moves(r, q)
    PROVE  MeterInv' /\ WithinBudget'
<1>1. MeterInv'
  BY RequestMoves, MovesTable DEF Moves, MeterInv, ThrottleTypeOK
<1>2. ASSUME NEW a \in Addresses
      PROVE  Count(login_attempt', Recent(a)) + Cardinality(Trying(a)')
                < Limit + Cardinality(Callers)
  <2> DEFINE was == Count(login_attempt, Recent(a))
             now == Count(login_attempt', Recent(a))
             all == Cardinality(Callers)
             tried == Cardinality(Trying(a))
             tries == Cardinality(Trying(a)')
  <2>1. was + tried < Limit + all
    BY CountedRecent DEF WithinBudget
  <2>2. /\ was \in Nat /\ now \in Nat
        /\ \/ now <= was
           \/ At(r, "record") /\ q = NoRequest /\ a = request[r].addr /\ now <= was + 1
    BY MovesTable
  <2>3. IsFiniteSet(Trying(a)) /\ tried \in Nat /\ tried <= all /\ all \in Nat
    BY TryingCounted
  <2>4. tries \in Nat /\ tries <= all
    <3>1. Trying(a)' \subseteq Callers
      BY DEF Trying
    <3> QED BY <3>1, CallersAssumption, FewerTrying
  <2>5. Limit \in Nat
    BY LimitAndWindow
  <2>6. CASE At(r, "record") /\ q = NoRequest /\ a = request[r].addr
    <3>1. r \in Trying(a) /\ Trying(a)' \subseteq Trying(a) \ {r}
      BY <2>6, MovesTrying
    <3>2. IsFiniteSet(Trying(a) \ {r}) /\ Cardinality(Trying(a) \ {r}) = tried - 1
      BY <2>3, <3>1, FS_RemoveElement
    <3>3. tries <= tried - 1
      <4> HIDE DEF tried
      <4> QED BY <3>1, <3>2, FewerTrying
    <3> HIDE DEF was, now, all, tried, tries
    <3>4. now + tries < Limit + all
      BY <2>1, <2>2, <2>3, <2>4, <2>5, <3>3
    <3> QED BY <3>4 DEF was, now, all, tried, tries
  <2>7. CASE Trying(a)' \subseteq Trying(a) /\ now <= was
    <3>1. tries <= tried
      BY <2>3, <2>7, FewerTrying
    <3> HIDE DEF was, now, all, tried, tries
    <3>2. now <= was
      BY <2>7 DEF was, now
    <3>3. now + tries < Limit + all
      BY <2>1, <2>2, <2>3, <2>4, <2>5, <3>1, <3>2
    <3> QED BY <3>3 DEF was, now, all, tried, tries
  <2>8. CASE UNCHANGED login_attempt /\ ~login_is_throttled(a)
    <3>1. ~(was >= Limit) /\ now = was
      BY <2>8, CountedRecent DEF login_is_throttled
    <3> HIDE DEF was, now, all, tried, tries
    <3>2. now + tries < Limit + all
      BY <2>2, <2>3, <2>4, <2>5, <3>1
    <3> QED BY <3>2 DEF was, now, all, tried, tries
  <2>9. Trying(a)' \subseteq Trying(a) \/ (UNCHANGED login_attempt /\ ~login_is_throttled(a))
    BY MovesTrying
  <2> HIDE DEF was, now, all, tried, tries
  <2>10. CASE now <= was
    BY <2>7, <2>8, <2>9, <2>10
  <2> QED BY <2>2, <2>6, <2>10 DEF was, now, all, tried, tries
<1>3. WithinBudget'
  BY <1>2, CountedRecent DEF WithinBudget
<1> QED BY <1>1, <1>3

\* Nor does the clock.
LEMMA TickKeeps == ASSUME MeterInv, WithinBudget, Tick PROVE MeterInv' /\ WithinBudget'
<1>1. login_attempt' = Older(login_attempt) /\ request' = request
  BY DEF Tick
<1>2. /\ login_attempt' \in [Rows -> Nat] /\ IsFiniteSet(Attempts(login_attempt', Rows))
      /\ \A a \in Addresses : Count(login_attempt', Recent(a)) <= Count(login_attempt, Recent(a))
  BY <1>1, OlderAttempts DEF MeterInv, ThrottleTypeOK
<1>3. MeterInv'
  BY <1>1, <1>2 DEF MeterInv, ThrottleTypeOK, At
<1>4. ASSUME NEW a \in Addresses
      PROVE  Count(login_attempt', Recent(a)) + Cardinality(Trying(a)')
                < Limit + Cardinality(Callers)
  <2>1. Trying(a)' = Trying(a)
    BY <1>1 DEF Trying
  <2>2. Recent(a) \subseteq Rows
    BY RowsWithin DEF Recent
  <2>3. Count(login_attempt', Recent(a)) \in Nat /\ Count(login_attempt, Recent(a)) \in Nat
    BY <1>2, <2>2, SomeAttempts DEF MeterInv, ThrottleTypeOK
  <2>4. Count(login_attempt, Recent(a)) + Cardinality(Trying(a)) < Limit + Cardinality(Callers)
    BY CountedRecent DEF WithinBudget
  <2>5. Cardinality(Trying(a)) \in Nat /\ Cardinality(Callers) \in Nat /\ Limit \in Nat
    BY TryingCounted, LimitAndWindow
  <2> QED BY <1>2, <2>1, <2>3, <2>4, <2>5
<1>5. WithinBudget'
  BY <1>4, CountedRecent DEF WithinBudget
<1> QED BY <1>3, <1>5

\* An empty table is within the budget: the limit is at least one.
LEMMA InitMeter == ThrottleInit => MeterInv /\ WithinBudget
<1> SUFFICES ASSUME ThrottleInit PROVE MeterInv /\ WithinBudget
  OBVIOUS
<1>1. \A row \in Rows : login_attempt[row] = 0
  BY DEF ThrottleInit
<1>2. \A rows : rows \subseteq Rows => Attempts(login_attempt, rows) = {}
  <2> SUFFICES ASSUME NEW rows, rows \subseteq Rows PROVE Attempts(login_attempt, rows) = {}
    OBVIOUS
  <2>1. \A row \in rows : 1..login_attempt[row] = {}
    BY <1>1
  <2> QED BY <2>1, AttemptsOf
<1>3. IsFiniteSet(Attempts(login_attempt, Rows))
  BY <1>2, FS_EmptySet
<1>4. MeterInv
  BY <1>3 DEF ThrottleInit, MeterInv, ThrottleTypeOK, At
<1>5. ASSUME NEW a \in Addresses
      PROVE  Count(login_attempt, Recent(a)) + Cardinality(Trying(a)) < Limit + Cardinality(Callers)
  <2>1. Recent(a) \subseteq Rows
    BY RowsWithin DEF Recent
  <2>2. Attempts(login_attempt, Recent(a)) = {} /\ Trying(a) = {}
    BY <1>2, <2>1 DEF ThrottleInit, Trying
  <2>3. Count(login_attempt, Recent(a)) = 0 /\ Cardinality(Trying(a)) = 0
    BY <2>2, AttemptsOf, FS_EmptySet
  <2>4. Cardinality(Callers) \in Nat /\ Limit \in Nat /\ Limit > 0
    BY CallersAssumption, FS_CardinalityType, LimitAndWindow
  <2> QED BY <2>3, <2>4
<1>6. WithinBudget
  BY <1>5, CountedRecent DEF WithinBudget
<1> QED BY <1>4, <1>6

\* Both are kept by every step.
LEMMA NextMeter == MeterInv /\ WithinBudget /\ [ThrottleNext]_throttle_vars => MeterInv' /\ WithinBudget'
<1> SUFFICES ASSUME MeterInv, WithinBudget, [ThrottleNext]_throttle_vars PROVE MeterInv' /\ WithinBudget'
  OBVIOUS
<1>1. CASE Tick
  BY <1>1, TickKeeps
<1>2. ASSUME NEW r \in Callers, Post(r) \/ Answers(r) \/ Killed(r)
      PROVE  MeterInv' /\ WithinBudget'
  BY <1>2, AnswerMoves, MovesKeep
<1>3. CASE UNCHANGED throttle_vars
  <2>1. MeterInv'
    BY <1>3 DEF throttle_vars, MeterInv, ThrottleTypeOK, At
  <2>2. \A a \in Addresses : /\ count_recent_login_failures(a)' = count_recent_login_failures(a)
                             /\ Trying(a)' = Trying(a)
    BY <1>3, CountedRecent DEF throttle_vars, Trying
  <2> QED BY <2>1, <2>2 DEF WithinBudget
<1> QED BY <1>1, <1>2, <1>3 DEF ThrottleNext

\* login_attempt holds finitely many attempts, and only a request that logged in gets to
\* clear any (authentication.login: a registration never calls clear_login_failures).
THEOREM MeterInvariant == ThrottleSpec => []MeterInv
<1>1. ThrottleInit => MeterInv /\ WithinBudget
  BY InitMeter
<1> QED BY <1>1, NextMeter, PTL DEF ThrottleSpec

\* However requests interleave between asking, trying and recording, the failures an address
\* has in the window never pass the limit by more than the requests that were let through
\* together (_throttled, login_is_throttled, record_failed_login).
THEOREM AlwaysWithinBudget == ThrottleSpec => []WithinBudget
<1>1. ThrottleInit => MeterInv /\ WithinBudget
  BY InitMeter
<1> QED BY <1>1, NextMeter, PTL DEF ThrottleSpec

\* A failure that still counts is forgotten only by a login from its address under its name:
\* not by the pruning of another, nor by a registration (record_failed_login,
\* clear_login_failures).
THEOREM AlwaysForgottenFairly == ThrottleSpec => ForgottenFairly
<1>1. ASSUME MeterInv, [ThrottleNext]_throttle_vars, NEW a \in Addresses, NEW s \in Recorded
      PROVE  \/ Outstanding(login_attempt', a, s) >= Outstanding(login_attempt, a, s)
             \/ login_attempt' = Older(login_attempt)
             \/ s[1] = "login" /\ \E r \in Callers :
                   /\ At(r, "clear") /\ request'[r] = NoRequest
                   /\ request[r].addr = a /\ request[r].as = s
  <2>1. login_attempt \in [Rows -> Nat] /\ IsFiniteSet(Attempts(login_attempt, Rows))
    BY <1>1 DEF MeterInv, ThrottleTypeOK
  <2>2. CASE UNCHANGED login_attempt
    <3> DEFINE ages == 0..Window
    <3>1. ages \subseteq Ages
      BY LimitAndWindow DEF Ages
    <3> HIDE DEF ages
    <3>2. RowsOf(a, {s}, ages) \subseteq Rows
      BY <1>1, <3>1, RowsWithin
    <3>3. Count(login_attempt, RowsOf(a, {s}, ages)) \in Nat
      BY <2>1, <3>2, SomeAttempts
    <3>4. Outstanding(login_attempt, a, s) \in Nat
      BY <3>3 DEF Outstanding, ages
    <3> QED BY <2>2, <3>4
  <2>3. CASE Tick
    BY <2>3 DEF Tick
  <2>4. ASSUME NEW r \in Callers, Post(r) \/ Answers(r) \/ Killed(r), ~UNCHANGED login_attempt
        PROVE  \/ Outstanding(login_attempt', a, s) >= Outstanding(login_attempt, a, s)
               \/ s[1] = "login" /\ \E q \in Callers :
                     /\ At(q, "clear") /\ request'[q] = NoRequest
                     /\ request[q].addr = a /\ request[q].as = s
    <3>1. PICK q \in Ask \cup {NoRequest} : Moves(r, q)
      BY <1>1, <2>4, AnswerMoves
    <3>2. request'[r] = q
      BY <1>1, <3>1, RequestMoves DEF Moves
    <3> DEFINE addr == request[r].addr
               as == request[r].as
    <3>3. \A where : At(r, where) => addr \in Addresses /\ as \in Recorded
      BY <1>1 DEF MeterInv, ThrottleTypeOK, At, Ask
    <3>4. CASE At(r, "record") /\ login_attempt' =
                  Prune([login_attempt EXCEPT ![<<addr, as, 0>>] = @ + 1])
      <4>1. addr \in Addresses /\ as \in Recorded
        BY <3>3, <3>4
      <4> HIDE DEF addr, as
      <4>2. Outstanding(login_attempt, a, s) <= Outstanding(login_attempt', a, s)
        BY <1>1, <2>1, <3>4, <4>1, FailureCounted
      <4> QED BY <4>2
    <3>5. CASE /\ At(r, "clear") /\ q = NoRequest
               /\ login_attempt' = Without(login_attempt, addr, as)
      <4>1. addr \in Addresses /\ as \in Recorded
        BY <3>3, <3>5
      <4>2. CASE a = addr /\ s = as
        <5>1. as[1] = "login"
          BY <1>1, <3>5 DEF MeterInv, ThrottleTypeOK
        <5> QED BY <3>2, <3>5, <4>2, <5>1
      <4>3. CASE ~(a = addr /\ s = as)
        <5> HIDE DEF addr, as
        <5>1. Outstanding(login_attempt, a, s) <= Outstanding(login_attempt', a, s)
          BY <1>1, <2>1, <3>5, <4>1, <4>3, LoginForgets
        <5> QED BY <5>1
      <4> QED BY <4>2, <4>3
    <3> QED BY <2>4, <3>1, <3>4, <3>5 DEF Moves
  <2> QED BY <1>1, <2>2, <2>3, <2>4 DEF ThrottleNext, throttle_vars
<1>2. MeterInv /\ [ThrottleNext]_throttle_vars =>
        [\A addr \in Addresses, as \in Recorded :
          \/ Outstanding(login_attempt', addr, as) >= Outstanding(login_attempt, addr, as)
          \/ login_attempt' = Older(login_attempt)
          \/ as[1] = "login" /\ \E r \in Callers :
                /\ At(r, "clear") /\ request'[r] = NoRequest
                /\ request[r].addr = addr /\ request[r].as = as]_throttle_vars
  BY <1>1
<1> QED BY <1>2, MeterInvariant, PTL DEF ThrottleSpec, ForgottenFairly
================================================================================
