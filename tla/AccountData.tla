------------------------------ MODULE AccountData ------------------------------
(***************************************************************************)
(* The data of the `user` and `server` tables (sql/create_table_user.sql,  *)
(* sql/create_table_server.sql) and the questions db.py asks of them.      *)
(*                                                                         *)
(* A stored password hash is [pw, method, salt]: the plaintext it was made *)
(* of, whether werkzeug would make it the same way today, and the salt     *)
(* that makes two hashes of one password different.  A salt or an API      *)
(* token is a natural number taken from one counter: secrets do not repeat.*)
(* `registered` and `last_login` are only displayed, and left out.         *)
(***************************************************************************)
EXTENDS Naturals

CONSTANTS
    Names,          \* well-formed, unreserved usernames
    Fold,           \* Fold[n]: n as COLLATE NOCASE compares it
    Passwords,      \* plaintext passwords
    MaxId,          \* bound on the AUTOINCREMENT ids handed out
    RegTokens,      \* registration tokens a founder may set; "" asks for none
    InitialTables,  \* `user` tables an instance may start with
    InitialSettings,\* the settings of an instance that starts set up
    LastId,         \* the last id such an instance gave out
    LastSecret,     \* every secret it gave out is at most this
    None            \* SQL NULL, Python None: no row, no mark, no request

Ids      == 1..MaxId
Roles    == {"pending", "visitor", "contributor", "admin"}
Hash     == [pw : Passwords, method : {"old", "current"}, salt : Nat]
Row      == [name : Names, hash : Hash, role : Roles, token : Nat]
Settings == [mode : {"single", "multi"}, regtoken : RegTokens]
Table    == [Ids -> Row \cup {None}]

\* The ids that have a row.
Held(u) == {i \in Ids : u[i] # None}

\* db.is_first_user: the table is empty.
IsFirstUser(u) == Held(u) = {}

\* The UNIQUE column: another row holds exactly this name.
NameTaken(u, n, i) == \E j \in Held(u) \ {i} : u[j].name = n

\* UserInfo.saveToDb's own question: another row holds this name in some case.
NameClash(u, n, i) == \E j \in Held(u) \ {i} : Fold[u[j].name] = Fold[n]

\* Every token and every salt a table holds.
Secrets(u) == {u[i].token : i \in Held(u)} \cup {u[i].hash.salt : i \in Held(u)}

\* A table of an instance that is set up: the first account ever made is there
\* and is an admin, and no name and no secret is held twice.
SetUp(u) ==
    /\ 1 \in Held(u) /\ u[1].role = "admin"
    /\ \A i, j \in Held(u) :
         i # j => u[i].name # u[j].name /\ u[i].token # u[j].token
                                        /\ u[i].hash.salt # u[j].hash.salt
    /\ \A i, j \in Held(u) : u[i].token # u[j].hash.salt

ASSUME MaxIdAssumption == MaxId \in Nat \ {0}
ASSUME FoldAssumption == Fold \in [Names -> Names]
ASSUME NoneAssumption == None \notin Row \cup Hash \cup Settings
ASSUME InitialAssumption ==
    /\ LastId \in Ids /\ LastSecret \in Nat
    /\ InitialSettings \subseteq Settings
    /\ InitialTables \subseteq Table
    /\ \A u \in InitialTables :
         /\ IsFirstUser(u) \/ SetUp(u)
         /\ \A i \in Held(u) : i <= LastId /\ u[i].token \in 1..LastSecret
                                          /\ u[i].hash.salt \in 1..LastSecret
================================================================================
