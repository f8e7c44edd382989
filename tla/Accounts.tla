-------------------------------- MODULE Accounts --------------------------------
(***************************************************************************)
(* User accounts of mcritweb: views/authentication.py, the account routes  *)
(* of views/administration.py, and UserInfo and ServerInfo in db.py.       *)
(*                                                                         *)
(* A request is a process.  It reads the caller's row before its view runs *)
(* (load_logged_in_user), works on that copy, and writes later; gunicorn   *)
(* runs requests in threads and processes over one SQLite file, so between *)
(* any two statements of one request the statements of others may fall.    *)
(* One action is one statement, or several between which nothing another   *)
(* request does can matter.  A login session is a signed cookie: it lives  *)
(* in the browser's jar, a request carries a copy of it, and a response    *)
(* may put the request's version back.                                     *)
(***************************************************************************)
EXTENDS AccountData

CONSTANTS
    Browsers,       \* cookie jars
    Requests,       \* requests that can be in flight at once
    Asks,           \* what the requests may ask for
    OldCookies,     \* the sessions browsers may hold already: [uid, marked]
    Faults,         \* whether statements may time out and responses be lost
    MaxStarts       \* bound on the requests of a behaviour

ASSUME BoundsAssumption == MaxStarts \in Nat /\ Faults \in BOOLEAN
ASSUME RequestsAssumption == None \notin Requests
ASSUME OldCookiesAssumption == OldCookies \subseteq [uid : Ids \cup {0}, marked : BOOLEAN]
ASSUME AsksAssumption ==
    Asks \subseteq
        [op : {"page", "logout", "rotate"}]
        \cup [op : {"register"}, name : Names, pw : Passwords,
              regtoken : RegTokens, setup : Settings]
        \cup [op : {"login", "rename"}, name : Names, pw : Passwords]
        \cup [op : {"passwd"}, pw : Passwords, new : Passwords]
        \cup [op : {"role"}, id : Ids, role : STRING]
        \cup [op : {"delete"}, id : Ids]

VARIABLES
    user,           \* the user table
    seq,            \* the last id AUTOINCREMENT gave out
    server,         \* the server row
    lock,           \* the request that holds SQLite's write lock between steps
    jar,            \* the session cookie each browser holds
    req,            \* the requests in flight
    minted,         \* how many hashes and tokens were made so far
    started,        \* how many requests started so far
    spent,          \* ghost: every token and salt the table ever held
    era             \* ghost: how often each account changed its password

tables == <<user, seq, server, spent, era>>
vars == <<user, seq, server, lock, jar, req, minted, started, spent, era>>

\* session['user_id'], session[PASSWORD_MARK]; era is a ghost, the era of the
\* account when the row the mark was made of was read (or written).
NoSession == [uid |-> 0, mark |-> None, era |-> 0]
Session   == [uid : Ids \cup {0}, mark : Hash \cup {None}, era : Nat]

\* password_mark(): keyed and injective, so the hash itself stands for it.
Mark(row) == row.hash

Idle == [pc |-> "idle", ask |-> None, by |-> None, cookie |-> NoSession,
         sess |-> NoSession, first |-> FALSE, me |-> None, era |-> 0,
         id |-> 0, stored |-> None, row |-> None]

--------------------------------------------------------------------------------

\* A cookie this instance gave out before: to no account, from before marks
\* existed, or marked with the hash the account still has.
OldCookie(c) ==
    [uid |-> c.uid, era |-> 0,
     mark |-> IF c.marked THEN Mark(user[c.uid]) ELSE None]

Init ==
    /\ user \in InitialTables
    /\ seq = IF IsFirstUser(user) THEN 0 ELSE LastId
    /\ server \in IF IsFirstUser(user) THEN {None} ELSE InitialSettings
    /\ lock = None
    /\ jar \in [Browsers -> {NoSession} \cup
                 {OldCookie(c) : c \in {c \in OldCookies : c.uid \in Held(user)}}]
    /\ req = [r \in Requests |-> Idle]
    /\ minted = LastSecret
    /\ started = 0
    /\ spent = Secrets(user)
    /\ era = [i \in Ids |-> 0]

\* load_logged_in_user: a mark that is not the stored hash's ends the session;
\* no mark at all does not.
Ends(cookie, row) == row # None /\ cookie.mark # None /\ cookie.mark # Mark(row)

\* A browser sends a request, and the before_app_request hooks run: is the table
\* empty, which settings hold (they never change again once they are there), and
\* who is asking.
Start(r, b, a) ==
    LET cookie == jar[b]
        row    == IF cookie.uid = 0 THEN None ELSE user[cookie.uid]
        ends   == Ends(cookie, row)
    IN /\ req[r].pc = "idle"
       /\ started < MaxStarts
       /\ req' = [req EXCEPT ![r] =
             [Idle EXCEPT !.pc = "view", !.ask = a, !.by = b, !.cookie = cookie,
                          !.first = IsFirstUser(user),
                          !.sess = IF ends THEN NoSession ELSE cookie,
                          !.me = IF ends THEN None ELSE row,
                          !.era = IF row = None THEN 0 ELSE era[cookie.uid]]]
       /\ started' = started + 1
       /\ UNCHANGED <<tables, lock, jar, minted>>

--------------------------------------------------------------------------------
(* What a view checks before it does anything: the decorators and the early   *)
(* returns.  Everything is read from the request's own copies but `server`,    *)
(* which a request that found the table empty reads here for the first time.   *)

RegisterOpen(q) ==
    /\ ~q.first => server.mode = "multi" /\ q.sess.uid = 0
    /\ server # None => server.regtoken \in {"", q.ask.regtoken}

LoginOpen(q) == q.first \/ q.sess.uid = 0

Proven(q) == q.me # None /\ q.me.hash.pw = q.ask.pw

IsAdmin(q) == q.me # None /\ q.me.role = "admin"

May(q) ==
    \/ q.ask.op = "register" /\ RegisterOpen(q)
    \/ q.ask.op = "login" /\ LoginOpen(q)
    \/ q.ask.op \in {"logout", "rotate"} /\ q.me # None
    \/ q.ask.op \in {"rename", "passwd"} /\ Proven(q)
    \/ q.ask.op = "role" /\ IsAdmin(q) /\ q.ask.id # 1 /\ q.ask.role \in Roles
    \/ q.ask.op = "delete" /\ IsAdmin(q) /\ q.ask.id # 1

\* The view of request r runs, and is allowed to go on.
Enters(r, op) == req[r].pc = "view" /\ req[r].ask.op = op /\ May(req[r])

Go(r, pc) == req' = [req EXCEPT ![r].pc = pc]

\* The view is done; what the response needs is kept.
Finish(q) ==
    [Idle EXCEPT !.pc = "respond", !.by = q.by, !.cookie = q.cookie,
                 !.sess = q.sess, !.me = q.me, !.era = q.era]

Done(r) == req' = [req EXCEPT ![r] = Finish(@)]

\* A page that changes nothing, or a request turned away.
Answer(r) ==
    /\ req[r].pc = "view" /\ ~May(req[r])
    /\ Done(r)
    /\ UNCHANGED <<tables, lock, jar, minted, started>>

--------------------------------------------------------------------------------
(* Registration.                                                              *)

\* The account a registration makes: generate_password_hash, generate_apitoken.
NewRow(ask, role) ==
    [name  |-> ask.name,
     hash  |-> [pw |-> ask.pw, method |-> "current", salt |-> minted + 1],
     role  |-> role,
     token |-> minted + 2]

Register(r) ==
    /\ Enters(r, "register") /\ ~req[r].first
    /\ req' = [req EXCEPT ![r].pc = "clash", ![r].row = NewRow(req[r].ask, "pending")]
    /\ minted' = minted + 2
    /\ UNCHANGED <<tables, lock, jar, started>>

\* Mutant: the lock is taken, the question is not asked again.
RegisterFirstUnasked(r) ==
    /\ Enters(r, "register") /\ req[r].first
    /\ lock = None
    /\ lock' = r
    /\ req' = [req EXCEPT ![r].pc = "found", ![r].row = NewRow(req[r].ask, "admin")]
    /\ minted' = minted + 2
    /\ UNCHANGED <<tables, jar, started>>

\* BEGIN IMMEDIATE, and is_first_user asked again under the write lock.
RegisterFirst(r) ==
    /\ Enters(r, "register") /\ req[r].first
    /\ lock = None
    /\ lock' = r
    /\ IF IsFirstUser(user)
       THEN req' = [req EXCEPT ![r].pc = "found", ![r].row = NewRow(req[r].ask, "admin")]
       ELSE Done(r)
    /\ minted' = minted + 2
    /\ UNCHANGED <<tables, jar, started>>

\* The rows a write leaves in the table, and what is known of them ever after.
Store(u) == user' = u /\ spent' = spent \cup Secrets(u)

\* Mutant: the settings are committed before the account.
FoundInTwoCommits(r) ==
    /\ req[r].pc = "found" /\ lock = r
    /\ server' = req[r].ask.setup
    /\ IF server = None
       THEN UNCHANGED <<user, seq, spent, lock, req>>
       ELSE /\ Store([user EXCEPT ![seq + 1] = req[r].row])
            /\ seq' = seq + 1
            /\ lock' = None
            /\ Done(r)
    /\ UNCHANGED <<jar, minted, started, era>>

\* The server row and the user row, in the one commit that ends the transaction.
Found(r) ==
    /\ req[r].pc = "found" /\ lock = r
    /\ Store([user EXCEPT ![seq + 1] = req[r].row])
    /\ seq' = seq + 1
    /\ server' = req[r].ask.setup
    /\ lock' = None
    /\ Done(r)
    /\ UNCHANGED <<jar, minted, started, era>>

\* INSERT; a name taken by now is refused by the UNIQUE column, and the error
\* swallowed.  The transaction it opened stays open until the connection closes.
Insert(r) ==
    /\ req[r].pc = "write" /\ req[r].ask.op = "register"
    /\ lock = None /\ seq < MaxId
    /\ IF NameTaken(user, req[r].row.name, seq + 1)
       THEN lock' = r /\ UNCHANGED <<user, seq, spent>>
       ELSE /\ Store([user EXCEPT ![seq + 1] = req[r].row])
            /\ seq' = seq + 1
            /\ UNCHANGED lock
    /\ Done(r)
    /\ UNCHANGED <<server, jar, minted, started, era>>

--------------------------------------------------------------------------------
(* Login and logout.                                                          *)

\* The row of that name is read and its password checked; session.clear(), the
\* new session, and its mark, taken after a stale hash was remade.
Login(r) ==
    LET ask == req[r].ask
        found == {i \in Held(user) : user[i].name = ask.name /\ user[i].hash.pw = ask.pw}
    IN /\ Enters(r, "login")
       /\ \/ /\ found = {}
             /\ Done(r)
             /\ UNCHANGED minted
          \/ \E i \in found :
                LET stale == user[i].hash.method # "current"
                    row   == IF stale
                             THEN [user[i] EXCEPT !.hash.method = "current",
                                                  !.hash.salt = minted + 1]
                             ELSE user[i]
                    sess  == [uid |-> i, mark |-> Mark(row), era |-> era[i]]
                IN /\ req' = [req EXCEPT ![r] =
                         [@ EXCEPT !.pc = "login", !.id = i, !.stored = user[i],
                                   !.row = row, !.sess = sess]]
                   /\ minted' = IF stale THEN minted + 1 ELSE minted
       /\ UNCHANGED <<tables, lock, jar, started>>

\* Mutant: the rehash is written whatever the stored hash is by now.
RehashesAnyway(u, q) == u[q.id] # None /\ q.row.hash # q.stored.hash

\* saveLogin: the rehash is written only over the hash that was verified.
Rehashes(u, q) == u[q.id] # None /\ u[q.id].hash = q.stored.hash

LoginSave(r) ==
    LET q == req[r] IN
    /\ q.pc = "login" /\ lock = None
    /\ Store(IF Rehashes(user, q) THEN [user EXCEPT ![q.id].hash = q.row.hash] ELSE user)
    /\ Done(r)
    /\ UNCHANGED <<seq, server, lock, jar, minted, started, era>>

Logout(r) ==
    /\ Enters(r, "logout")
    /\ req' = [req EXCEPT ![r] = Finish([@ EXCEPT !.sess = NoSession])]
    /\ UNCHANGED <<tables, lock, jar, minted, started>>

--------------------------------------------------------------------------------
(* Changes to an account, made on a copy of its row and saved from there.      *)

\* g.user becomes the row to save, and what it was is kept as what was stored.
Changed(q, pc, row) ==
    [q EXCEPT !.pc = pc, !.id = q.sess.uid, !.stored = q.me, !.row = row, !.me = row]

\* The lookup is by exact name; saveToDb asks again, in any case (Clash below).
Rename(r) ==
    LET q == req[r]
        row == [q.me EXCEPT !.name = q.ask.name]
    IN /\ Enters(r, "rename")
       /\ IF \E i \in Held(user) : user[i].name = q.ask.name
          THEN Done(r)
          ELSE req' = [req EXCEPT ![r] = Changed(q, "clash", row)]
       /\ UNCHANGED <<tables, lock, jar, minted, started>>

\* g.user gets the new hash and a new token before anything is written.
ChangePassword(r) ==
    LET q == req[r]
        hash == [pw |-> q.ask.new, method |-> "current", salt |-> minted + 1]
        row  == [q.me EXCEPT !.hash = hash, !.token = minted + 2]
    IN /\ Enters(r, "passwd")
       /\ req' = [req EXCEPT ![r] = Changed(q, "write", row)]
       /\ minted' = minted + 2
       /\ UNCHANGED <<tables, lock, jar, started>>

RegenerateToken(r) ==
    LET q == req[r]
        row == [q.me EXCEPT !.token = minted + 1]
    IN /\ Enters(r, "rotate")
       /\ req' = [req EXCEPT ![r] = Changed(q, "write", row)]
       /\ minted' = minted + 1
       /\ UNCHANGED <<tables, lock, jar, started>>

\* The account's row is read now; it may be gone.
ChangeRole(r) ==
    LET ask == req[r].ask IN
    /\ Enters(r, "role")
    /\ IF user[ask.id] = None
       THEN Done(r)
       ELSE req' = [req EXCEPT ![r] =
               [@ EXCEPT !.pc = "write", !.id = ask.id, !.stored = user[ask.id],
                         !.row = [user[ask.id] EXCEPT !.role = ask.role]]]
    /\ UNCHANGED <<tables, lock, jar, minted, started>>

\* saveToDb's question, when the account or its name is new.
Clash(r) ==
    LET q == req[r] IN
    /\ q.pc = "clash"
    /\ IF NameClash(user, q.row.name, q.id) THEN Done(r) ELSE Go(r, "write")
    /\ UNCHANGED <<tables, lock, jar, minted, started>>

\* Mutant: the whole copy is written back.
MergeNothing(now, row, stored) == row

\* saveToDb writes the columns the request changed over the row as it is now.
Merge(now, row, stored) ==
    [name  |-> IF row.name  = stored.name  THEN now.name  ELSE row.name,
     hash  |-> IF row.hash  = stored.hash  THEN now.hash  ELSE row.hash,
     role  |-> IF row.role  = stored.role  THEN now.role  ELSE row.role,
     token |-> IF row.token = stored.token THEN now.token ELSE row.token]

\* The UNIQUE column refuses a name that was taken since it was asked for ...
Refused(u, q) ==
    u[q.id] # None /\ q.row.name # q.stored.name /\ NameTaken(u, q.row.name, q.id)

\* ... and an UPDATE matches no row that is gone.
Saved(u, q) ==
    IF u[q.id] = None \/ Refused(u, q)
    THEN u
    ELSE [u EXCEPT ![q.id] = Merge(u[q.id], q.row, q.stored)]

Update(r) ==
    LET q == req[r]
        now == IF q.ask.op = "passwd" /\ user[q.id] # None
               THEN [era EXCEPT ![q.id] = @ + 1] ELSE era
    IN /\ q.pc = "write" /\ q.ask.op # "register" /\ lock = None
       /\ Store(Saved(user, q))
       /\ era' = now
       /\ lock' = IF Refused(user, q) THEN r ELSE lock
       /\ req' = [req EXCEPT ![r] =
             Finish(IF q.ask.op = "passwd" THEN [q EXCEPT !.era = now[q.id]] ELSE q)]
       /\ UNCHANGED <<seq, server, jar, minted, started>>

\* One transaction: the account and everything keyed to it.
DeleteUser(r) ==
    /\ Enters(r, "delete") /\ lock = None
    /\ Store([user EXCEPT ![req[r].ask.id] = None])
    /\ Done(r)
    /\ UNCHANGED <<seq, server, lock, jar, minted, started, era>>

--------------------------------------------------------------------------------
(* The end of a request.                                                      *)

\* Mutant: the mark is made of the row as it is when the request ends.
MarkedLate(q) ==
    IF q.me # None /\ q.sess.uid # 0 /\ user[q.sess.uid] # None
    THEN [q.sess EXCEPT !.mark = Mark(user[q.sess.uid]), !.era = q.era]
    ELSE q.sess

\* mark_the_session_with_the_current_password, after the view.
Marked(q) ==
    IF q.me # None /\ q.sess.mark # Mark(q.me)
    THEN [q.sess EXCEPT !.mark = Mark(q.me), !.era = q.era]
    ELSE q.sess

\* Mutant: the connection is left open, and its transaction with it.
RespondWithoutClosing(r) ==
    /\ req[r].pc = "respond"
    /\ jar' = [jar EXCEPT ![req[r].by] = Marked(req[r])]
    /\ req' = [req EXCEPT ![r] = Idle]
    /\ UNCHANGED <<tables, lock, minted, started>>

\* Flask sends the cookie when the session was modified.  A flash message or a
\* new CSRF token modifies it too, so a session that still says the same may be
\* sent as well.  The connection is closed: an open transaction is discarded.
Respond(r) ==
    LET q == req[r]
        sess == Marked(q)
        same == sess.uid = q.cookie.uid /\ sess.mark = q.cookie.mark
    IN /\ q.pc = "respond"
       /\ \/ jar' = [jar EXCEPT ![q.by] = sess]
          \/ same /\ UNCHANGED jar
       /\ req' = [req EXCEPT ![r] = Idle]
       /\ lock' = IF lock = r THEN None ELSE lock
       /\ UNCHANGED <<tables, minted, started>>

\* The file stays locked past sqlite3's timeout (by writers of other tables too, or
\* by readers when it comes to the commit): the statement raises, nothing is written,
\* and the error page still passes the after_app_request hook.  What was begun stays
\* open until the connection closes, as does the transaction of a first registration
\* whose settings or account could not be saved.
Busy(r) ==
    /\ Faults
    /\ \/ req[r].pc \in {"found", "login", "write"}
       \/ Enters(r, "delete")
       \/ Enters(r, "register") /\ req[r].first
    /\ \/ UNCHANGED lock
       \/ lock = None /\ lock' = r /\ ~Enters(r, "register")
    /\ Done(r)
    /\ UNCHANGED <<tables, jar, minted, started>>

\* The worker is killed or the connection lost: no response reaches the browser.
Lost(r) ==
    /\ Faults
    /\ req[r].pc # "idle"
    /\ req' = [req EXCEPT ![r] = Idle]
    /\ lock' = IF lock = r THEN None ELSE lock
    /\ UNCHANGED <<tables, jar, minted, started>>

\* What request r does next when nothing goes wrong.
Step(r) ==
    \/ Answer(r)
    \/ Register(r) \/ RegisterFirst(r) \/ Found(r) \/ Insert(r)
    \/ Login(r) \/ LoginSave(r) \/ Logout(r)
    \/ Rename(r) \/ ChangePassword(r) \/ RegenerateToken(r) \/ ChangeRole(r)
    \/ Clash(r) \/ Update(r) \/ DeleteUser(r)
    \/ Respond(r)

\* Nothing in flight and no more requests to come.
Quiet == started = MaxStarts /\ req = [r \in Requests |-> Idle] /\ UNCHANGED vars

Next ==
    \/ \E r \in Requests :
         \/ \E b \in Browsers, a \in Asks : Start(r, b, a)
         \/ Step(r) \/ Busy(r) \/ Lost(r)
    \/ Quiet

Spec == Init /\ [][Next]_vars

\* A worker thread keeps running the request it has; nobody has to send one.
FairSpec == Spec /\ \A r \in Requests : WF_vars(Step(r))

--------------------------------------------------------------------------------
(* Properties.                                                                *)

Request ==
    [pc : {"idle", "view", "found", "clash", "write", "login", "respond"},
     ask : Asks \cup {None}, by : Browsers \cup {None},
     cookie : Session, sess : Session, first : BOOLEAN,
     me : Row \cup {None}, era : Nat,
     id : Ids \cup {0}, stored : Row \cup {None}, row : Row \cup {None}]

TypeOK ==
    /\ user \in Table
    /\ seq \in 0..MaxId
    /\ server \in Settings \cup {None}
    /\ lock \in Requests \cup {None}
    /\ jar \in [Browsers -> Session]
    /\ req \in [Requests -> Request]
    /\ minted \in Nat
    /\ started \in Nat
    /\ spent \in SUBSET Nat
    /\ era \in [Ids -> Nat]

\* An instance is set up once and as a whole: as long as nobody registered there
\* are no settings, and from then on there are settings and an account 1 that is
\* an admin - whatever two first registrations, role changes and deletions do at
\* the same time (authentication.register, admin.change_user_role, delete_user).
Governed ==
    IF IsFirstUser(user)
    THEN server = None /\ seq = 0
    ELSE server # None /\ user[1] # None /\ user[1].role = "admin"

\* A session accepted as logged in was marked with a row read since the account's
\* last password change: no request that was in flight across the change - a login
\* with the old password, a page about to mark its session, another change - can
\* leave a browser with a session that outlives it (password_mark, saveLogin).
NoSessionOutlivesPassword ==
    \A b \in Browsers :
        LET cookie == jar[b] IN
        (cookie.uid # 0 /\ cookie.mark # None) =>
            LET row == user[cookie.uid] IN
            (row # None /\ ~Ends(cookie, row)) => cookie.era = era[cookie.uid]

\* Every change of an account is the one that a request in flight asked for, made to
\* the account it asked it for, and to nothing else in the row: no save of a copy
\* undoes a role, a name, a password or a token written since the copy was read, and
\* none brings back an account that was deleted (UserInfo.saveToDb, saveLogin).
Asked(q, i) ==
    LET old == user[i]
        new == user'[i]
        own == q.cookie.uid = i
    IN \/ /\ q.ask.op = "register" /\ old = None /\ i = seq'
          /\ new.name = q.ask.name /\ new.hash.pw = q.ask.pw
          /\ IF i = 1
             THEN new.role = "admin" /\ server' = q.ask.setup
             ELSE new.role = "pending" /\ server.regtoken \in {"", q.ask.regtoken}
       \/ q.ask.op = "delete" /\ i = q.ask.id /\ new = None
       \/ /\ old # None /\ new # None
          /\ \/ /\ q.ask.op = "rename" /\ own
                /\ new = [old EXCEPT !.name = q.ask.name]
             \/ /\ q.ask.op = "passwd" /\ own
                /\ new = [old EXCEPT !.hash = new.hash, !.token = new.token]
                /\ new.hash.pw = q.ask.new
             \/ /\ q.ask.op = "rotate" /\ own
                /\ new = [old EXCEPT !.token = new.token]
             \/ /\ q.ask.op = "role" /\ i = q.ask.id
                /\ new = [old EXCEPT !.role = q.ask.role]
             \/ /\ q.ask.op = "login"
                /\ new = [old EXCEPT !.hash = new.hash]
                /\ old.hash.pw = q.ask.pw /\ new.hash.pw = q.ask.pw

OnlyWhatWasAsked ==
    [][\A i \in Ids : user'[i] # user[i] =>
          \E r \in Requests : req'[r] # req[r] /\ Asked(req[r], i)]_vars

\* The tables do what AccountStore promises: ids are not reused, no password hash or
\* API token that was replaced comes back, a new password brings a new token, a
\* rehash keeps the password, later accounts start without rights, the first one
\* keeps its own.
Promise == INSTANCE AccountStore
    WITH user <- user, seq <- seq, server <- server, spent <- spent
ImplementsStore == Promise!Spec

\* Every request that was started is over at some time, and the write lock with it:
\* a first registration that comes too late does not keep the lock it took.
EveryRequestEnds == \A r \in Requests : req[r].pc # "idle" ~> req[r].pc = "idle"

\* README.md:83: new usernames that differ from an existing one only in case are
\* refused at registration and rename.
NamesDifferBeyondCase ==
    \A i, j \in Held(user) : i # j => Fold[user[i].name] # Fold[user[j].name]

\* README.md:83: a session whose user was deleted lands on the login page.
DeletedUserMayLogIn ==
    \A r \in Requests :
        (req[r].pc = "view" /\ req[r].ask.op = "login" /\ req[r].me = None)
            => LoginOpen(req[r])

\* authentication.py:361: a session is ended because "the password was changed after
\* this session logged in".
SessionEndsOnlyByPasswordChange ==
    \A r \in Requests :
        (req[r].pc = "view" /\ req[r].cookie.uid # 0 /\ req[r].sess.uid = 0)
            => req[r].cookie.era < req[r].era
================================================================================
