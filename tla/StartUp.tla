-------------------------------- MODULE StartUp --------------------------------
(***************************************************************************)
(* The start of the worker processes of one instance: create_app finds or  *)
(* makes the key that signs the sessions (secret_key.py), then brings the  *)
(* database up to date (db.migrate).  Workers start together or one after  *)
(* the other, are killed at any point, and start again.                    *)
(*                                                                         *)
(* sqlite3 is used with its default transactions: ALTER, DROP and CREATE   *)
(* are committed at once unless a transaction is open, the first UPDATE    *)
(* opens one and holds the write lock until commit, and executescript      *)
(* commits before it runs.  Whoever needs the lock waits for it, then      *)
(* gives up ("database is locked").                                        *)
(***************************************************************************)
EXTENDS Naturals, Sequences

CONSTANTS
    Workers,     \* the processes of the WSGI server
    Users,       \* the accounts the database holds
    Databases,   \* the databases the instance may be started on
    MaxStarts,   \* bound: how many times a worker starts
    None         \* no transaction

\* the tables migrate() knows how to create, in the order it asks for them
Tables == <<"user_filters", "user_column_settings", "login_attempt", "query_upload">>

NoKey == 0             \* instance/secret_key does not exist, or is empty

\* apitoken says that the column exists, tokens which start gave each account
\* its token (0: NULL); server_token is "absent", "null" or "set".
Database == [tables : SUBSET ({"user"} \cup {Tables[i] : i \in DOMAIN Tables}),
             apitoken : BOOLEAN,
             tokens : [Users -> 0..MaxStarts],
             server_token : {"absent", "null", "set"}]

\* Tokens are kept in a column: what an old release leaves has none.
ASSUME StartUpAssumption ==
    /\ MaxStarts \in Nat /\ None \notin Workers
    /\ Databases \subseteq Database
    /\ \A d \in Databases : ~d.apitoken => \A u \in Users : d.tokens[u] = 0

VARIABLES
    keyFile,    \* the key on disk: the start that made it, or NoKey
    db,         \* the committed database
    writer,     \* the worker whose transaction holds the write lock, or None
    staged,     \* the database as that transaction leaves it
    pc,         \* where each worker is
    life,       \* which start of the server this process is
    key,        \* the key it signs with, NoKey before
    starts,     \* starts so far
    calm        \* no worker has ever started while another was starting

vars == <<keyFile, db, writer, staged, pc, life, key, starts, calm>>
database == <<db, writer, staged>>

Look == [at : {"look"}, table : DOMAIN Tables]
Script == [at : {"drop", "create"}, table : DOMAIN Tables]
Point(at) == [at |-> at, table |-> 0]
Points == {Point(at) : at \in {"down", "read", "open", "write", "user", "columns", "alter_user",
                               "give_tokens", "server", "alter_server", "fill_server", "commit",
                               "serving", "failed"}}
At(w, at) == pc[w].at = at
Go(w, at) == pc' = [pc EXCEPT ![w] = Point(at)]
Starting(w) == ~\E at \in {"down", "serving", "failed"} : At(w, at)

\* what worker w's connection reads, and whether it may write
View(w) == IF writer = w THEN staged ELSE db
MayWrite(w) == writer \in {None, w}

Init ==
    /\ keyFile = NoKey
    /\ db \in Databases
    /\ writer = None /\ staged = db
    /\ pc = [w \in Workers |-> Point("down")]
    /\ life = [w \in Workers |-> 0] /\ key = [w \in Workers |-> 0]
    /\ starts = 0 /\ calm = TRUE
--------------------------------------------------------------------------------
Start(w) ==
    /\ At(w, "down") /\ starts < MaxStarts
    /\ starts' = starts + 1 /\ life' = [life EXCEPT ![w] = starts + 1]
    /\ calm' = (calm /\ ~\E v \in Workers : Starting(v))
    /\ Go(w, "read")
    /\ UNCHANGED <<keyFile, database, key>>

\* Mutant: every process makes a key of its own.
ReadKeyOrNot(w) ==
    /\ At(w, "read")
    /\ Go(w, "open")
    /\ UNCHANGED <<keyFile, database, key, life, starts, calm>>
\* load_or_create_secret_key: a key that is there is used, an empty file is not
ReadKey(w) ==
    /\ At(w, "read")
    /\ IF keyFile = NoKey
       THEN Go(w, "open") /\ UNCHANGED key
       ELSE Go(w, "user") /\ key' = [key EXCEPT ![w] = keyFile]
    /\ UNCHANGED <<keyFile, database, life, starts, calm>>

\* os.open(... O_CREAT | O_TRUNC)
OpenKey(w) ==
    /\ At(w, "open")
    /\ keyFile' = NoKey /\ Go(w, "write")
    /\ UNCHANGED <<database, life, key, starts, calm>>

\* the file's one buffer is written when it is closed: over what another wrote
WriteKey(w) ==
    /\ At(w, "write")
    /\ keyFile' = life[w] /\ key' = [key EXCEPT ![w] = life[w]]
    /\ Go(w, "user")
    /\ UNCHANGED <<database, life, starts, calm>>

key_vars == <<keyFile, life, key, starts, calm>>
--------------------------------------------------------------------------------
\* The outcomes of a write: to the connection's open transaction, or - DDL
\* outside one - straight to the database.
WriteThrough(w, d) ==
    IF writer = w THEN staged' = d /\ UNCHANGED <<db, writer>>
                  ELSE db' = d /\ UNCHANGED <<writer, staged>>
WriteInTransaction(w, d) == writer' = w /\ staged' = d /\ UNCHANGED db

\* Mutant: a worker whose migration raised serves all the same.
ServeAnyway(w) ==
    /\ writer' = (IF writer = w THEN None ELSE writer)
    /\ Go(w, "serving")
    /\ UNCHANGED <<db, staged, key_vars>>
\* an exception leaves migrate() through its finally: close() rolls back, and
\* create_app does not return
Fail(w) ==
    /\ writer' = (IF writer = w THEN None ELSE writer)
    /\ Go(w, "failed")
    /\ UNCHANGED <<db, staged, key_vars>>

LookTable(w, i) == pc' = [pc EXCEPT ![w] = [at |-> "look", table |-> i]]

\* a database init-db has not created yet is left alone
LookUser(w) ==
    /\ At(w, "user")
    /\ IF "user" \in View(w).tables THEN LookTable(w, 1) ELSE Go(w, "serving")
    /\ UNCHANGED <<database, key_vars>>

\* where migrate() goes on once it has table i
After(w, i) ==
    IF i = 1 THEN Go(w, "columns")
             ELSE IF i = Len(Tables) THEN Go(w, "commit") ELSE LookTable(w, i + 1)

AskTable(w) ==
    /\ At(w, "look")
    /\ LET i == pc[w].table IN
       IF Tables[i] \in View(w).tables
       THEN After(w, i)
       ELSE pc' = [pc EXCEPT ![w].at = "drop"]
    /\ UNCHANGED <<database, key_vars>>

\* executescript commits what is open ...
CommitFirst(w) ==
    /\ At(w, "drop") /\ writer = w
    /\ db' = staged /\ writer' = None
    /\ UNCHANGED <<staged, pc, key_vars>>

\* ... then DROP TABLE IF EXISTS
DropTable(w) ==
    /\ At(w, "drop") /\ writer = None
    /\ db' = [db EXCEPT !.tables = @ \ {Tables[pc[w].table]}]
    /\ pc' = [pc EXCEPT ![w].at = "create"]
    /\ UNCHANGED <<writer, staged, key_vars>>

\* ... and CREATE TABLE, which raises when the table is there
CreateTable(w) ==
    /\ At(w, "create") /\ writer = None
    /\ LET i == pc[w].table IN
       IF Tables[i] \in db.tables
       THEN Fail(w)
       ELSE /\ db' = [db EXCEPT !.tables = @ \cup {Tables[i]}]
            /\ After(w, i)
            /\ UNCHANGED <<writer, staged, key_vars>>

AskColumns(w) ==
    /\ At(w, "columns")
    /\ Go(w, IF View(w).apitoken THEN "server" ELSE "alter_user")
    /\ UNCHANGED <<database, key_vars>>

\* Mutant: a column that is there already is taken for one's own.
AlterUserIfNeeded(w) ==
    /\ At(w, "alter_user") /\ MayWrite(w)
    /\ WriteThrough(w, [View(w) EXCEPT !.apitoken = TRUE])
    /\ Go(w, "give_tokens")
    /\ UNCHANGED key_vars
\* ALTER TABLE raises when another worker has added the column since
AlterUser(w) ==
    /\ At(w, "alter_user") /\ MayWrite(w)
    /\ IF View(w).apitoken
       THEN Fail(w)
       ELSE /\ WriteThrough(w, [View(w) EXCEPT !.apitoken = TRUE])
            /\ Go(w, "give_tokens")
            /\ UNCHANGED key_vars

\* one UPDATE for each account; without accounts no transaction is opened
GiveTokens(w) ==
    /\ At(w, "give_tokens") /\ MayWrite(w)
    /\ IF Users = {}
       THEN UNCHANGED database
       ELSE WriteInTransaction(w, [View(w) EXCEPT !.tokens = [u \in Users |-> life[w]]])
    /\ Go(w, "server")
    /\ UNCHANGED key_vars

AskServer(w) ==
    /\ At(w, "server")
    /\ IF View(w).server_token = "absent" THEN Go(w, "alter_server") ELSE LookTable(w, 2)
    /\ UNCHANGED <<database, key_vars>>

AlterServer(w) ==
    /\ At(w, "alter_server") /\ MayWrite(w)
    /\ IF View(w).server_token # "absent"
       THEN Fail(w)
       ELSE /\ WriteThrough(w, [View(w) EXCEPT !.server_token = "null"])
            /\ Go(w, "fill_server")
            /\ UNCHANGED key_vars

FillServer(w) ==
    /\ At(w, "fill_server") /\ MayWrite(w)
    /\ WriteInTransaction(w, [View(w) EXCEPT !.server_token = "set"])
    /\ LookTable(w, 2)
    /\ UNCHANGED key_vars

\* db.commit(), close(), and create_app returns
Commit(w) ==
    /\ At(w, "commit")
    /\ IF writer = w THEN db' = staged /\ writer' = None ELSE UNCHANGED <<db, writer>>
    /\ Go(w, "serving")
    /\ UNCHANGED <<staged, key_vars>>

\* sqlite3 waits five seconds for the lock, then raises
GiveUp(w) ==
    /\ \E at \in {"drop", "create", "alter_user", "give_tokens", "alter_server", "fill_server"} : At(w, at)
    /\ ~MayWrite(w)
    /\ Fail(w)

\* a process can be killed at any time, and its supervisor starts another;
\* its connection is gone, so what it had not committed is rolled back
Kill(w) ==
    /\ ~At(w, "down")
    /\ writer' = (IF writer = w THEN None ELSE writer)
    /\ Go(w, "down")
    /\ UNCHANGED <<db, staged, key_vars>>

Step(w) ==
    \/ ReadKey(w) \/ OpenKey(w) \/ WriteKey(w)
    \/ LookUser(w) \/ AskTable(w) \/ CommitFirst(w) \/ DropTable(w) \/ CreateTable(w)
    \/ AskColumns(w) \/ AlterUser(w) \/ GiveTokens(w)
    \/ AskServer(w) \/ AlterServer(w) \/ FillServer(w) \/ Commit(w) \/ GiveUp(w)

Next == \E w \in Workers : Start(w) \/ Step(w) \/ Kill(w)

Spec == Init /\ [][Next]_vars
--------------------------------------------------------------------------------
TypeOK ==
    /\ keyFile \in 0..MaxStarts
    /\ db \in Database /\ staged \in Database
    /\ writer \in Workers \cup {None}
    /\ pc \in [Workers -> Points \cup Look \cup Script]
    /\ life \in [Workers -> 0..MaxStarts] /\ key \in [Workers -> 0..MaxStarts]
    /\ starts \in 0..MaxStarts /\ calm \in BOOLEAN

initialised == "user" \in db.tables

\* No worker serves requests on tables that lack a column its queries name,
\* whoever else was altering them while it started (db.migrate).
ServesMigrated ==
    \A w \in Workers : At(w, "serving") /\ initialised =>
        db.apitoken /\ db.server_token # "absent"

\* While workers only ever start one after the other - and are killed wherever
\* they are - a start repairs what the killed one left: every worker that
\* serves signs with the key that is on disk, every table is there, and no
\* start fails.
OneKey == \A w \in Workers : At(w, "serving") => key[w] = keyFile
Complete == \A w \in Workers : At(w, "serving") /\ initialised =>
                \A i \in DOMAIN Tables : Tables[i] \in db.tables
CalmStartsRepair == calm => OneKey /\ Complete /\ \A w \in Workers : ~At(w, "failed")

\* A start gives tokens only to accounts that have none: the token a worker
\* already answers to is not replaced by another worker's migration.
TokensStay ==
    [][\A u \in Users : db.tokens[u] # 0 => db'.tokens[u] = db.tokens[u]]_vars

\* The doc of load_or_create_secret_key: "Return the persisted key for this
\* instance, creating it on first call" - all workers of a WSGI server share it.
WorkersShareKey ==
    \A v, w \in Workers : At(v, "serving") /\ At(w, "serving") => key[v] = key[w]
================================================================================
