----------------------------- MODULE StartUpProofs -----------------------------
(***************************************************************************)
(* Theorems about StartUp, for any workers, accounts and databases.        *)
(*                                                                         *)
(* What a worker has got past in migrate() holds of the database as its    *)
(* own connection reads it (Reached).  That carries over to what all read  *)
(* because a database only ever gains columns (Gains), and because the one *)
(* open transaction is ahead of the committed database, never beside it.   *)
(*                                                                         *)
(* The last part is about starts that do not overlap.  The one worker on   *)
(* its way is alone with the key file and the tables, so they are still as *)
(* it found them, whoever was killed before (Mended).                      *)
(***************************************************************************)
EXTENDS StartUp, TLAPS

\* How far into migrate() a worker at point p is.
HasUserColumn(p) == p.table >= 2 \/ p.at \in {"give_tokens", "server", "alter_server", "fill_server", "commit"}
HasServerColumn(p) == p.table >= 2 \/ p.at \in {"fill_server", "commit"}
Migrating(p) == p.table >= 1 \/ p.at \in {"columns", "alter_user", "give_tokens", "server",
                                           "alter_server", "fill_server", "commit"}

\* What a worker at p relies on in the database d it reads.
Reached(p, d) ==
    /\ Migrating(p) => "user" \in d.tables
    /\ HasUserColumn(p) => d.apitoken
    /\ HasServerColumn(p) => d.server_token # "absent"
    /\ p.at = "serving" /\ "user" \in d.tables => d.apitoken /\ d.server_token # "absent"

\* e has what d has.
Gains(d, e) ==
    /\ "user" \in d.tables <=> "user" \in e.tables
    /\ d.apitoken => e.apitoken
    /\ d.server_token # "absent" => e.server_token # "absent"

\* where a transaction is open
InTransaction(p) == \/ p.at \in {"server", "alter_server", "fill_server", "commit"}
                    \/ p.at \in {"look", "drop"} /\ p.table >= 2

ColumnsInv ==
    /\ \A w \in Workers : Reached(pc[w], View(w))
    /\ writer # None => Gains(db, staged) /\ InTransaction(pc[writer])

IInv == TypeOK /\ ColumnsInv

LEMMA TableNames ==
    /\ DOMAIN Tables = 1..4 /\ Len(Tables) = 4
    /\ \A i \in 1..4 : Tables[i] \in {"user_filters", "user_column_settings", "login_attempt", "query_upload"}
  BY DEF Tables

LEMMA PointsTyped ==
    \A at \in {"down", "read", "open", "write", "user", "columns", "alter_user", "give_tokens",
               "server", "alter_server", "fill_server", "commit", "serving", "failed"} :
        Point(at) \in Points /\ Point(at).at = at /\ Point(at).table = 0
  BY DEF Point, Points

LEMMA LookInTransaction == \A i \in 2..4 : InTransaction([at |-> "look", table |-> i])
  BY DEF InTransaction

LEMMA ReachedGains ==
    ASSUME NEW p, NEW d, NEW e, Reached(p, d), Gains(d, e)
    PROVE  Reached(p, e)
  BY DEF Reached, Gains
--------------------------------------------------------------------------------
(* Types.                                                                     *)

LEMMA LookTyped == \A i \in 1..4 : [at |-> "look", table |-> i] \in Look
  BY TableNames DEF Look

LEMMA TablePoints ==
    ASSUME NEW p \in Points \cup Look \cup Script
    PROVE  /\ p.at \in {"look", "drop", "create"} <=> p.table >= 1
           /\ p.at \in {"look", "drop", "create"} => p.table \in 1..4
           /\ p.at \notin {"look", "drop", "create"} => p.table = 0
           /\ p.at \in {"look", "drop", "create"} =>
                 \A at \in {"drop", "create"} : [p EXCEPT !.at = at] = [at |-> at, table |-> p.table]
           /\ p.at \in {"look", "drop", "create"} =>
                 \A at \in {"drop", "create"} : [at |-> at, table |-> p.table] \in Script
  <1>1. CASE p \in Points
    BY <1>1 DEF Points, Point
  <1>2. CASE p \in Look
    BY <1>2, TableNames DEF Look, Script
  <1>3. CASE p \in Script
    BY <1>3, TableNames DEF Script
  <1> QED
    BY <1>1, <1>2, <1>3

LEMMA DatabaseUpdates ==
    ASSUME NEW d \in Database
    PROVE  /\ [d EXCEPT !.apitoken = TRUE] \in Database
           /\ \A t \in [Users -> 0..MaxStarts] : [d EXCEPT !.tokens = t] \in Database
           /\ \A s \in {"null", "set"} : [d EXCEPT !.server_token = s] \in Database
           /\ \A i \in 1..4 : /\ [d EXCEPT !.tables = @ \cup {Tables[i]}] \in Database
                             /\ [d EXCEPT !.tables = @ \ {Tables[i]}] \in Database
  <1> DEFINE Names == {"user"} \cup {Tables[i] : i \in DOMAIN Tables}
  <1>1. /\ d.tables \in SUBSET Names
        /\ \A i \in 1..4 : Tables[i] \in Names
    BY TableNames DEF Database
  <1>2. [d EXCEPT !.apitoken = TRUE] \in Database
    BY Zenon DEF Database
  <1>3. \A t \in [Users -> 0..MaxStarts] : [d EXCEPT !.tokens = t] \in Database
    BY Zenon DEF Database
  <1>4. \A s \in {"null", "set"} : [d EXCEPT !.server_token = s] \in Database
    BY DEF Database
  <1>5. \A ts \in SUBSET Names : [d EXCEPT !.tables = ts] \in Database
    BY Zenon DEF Database
  <1>6. \A i \in 1..4 : d.tables \cup {Tables[i]} \in SUBSET Names /\ d.tables \ {Tables[i]} \in SUBSET Names
    BY <1>1
  <1> HIDE DEF Names
  <1> QED
    BY <1>2, <1>3, <1>4, <1>5, <1>6

LEMMA TypeStep ==
    ASSUME TypeOK, [Next]_vars
    PROVE  TypeOK'
  <1> USE StartUpAssumption DEF TypeOK, key_vars, database
  <1>1. ASSUME NEW w \in Workers, Start(w)  PROVE TypeOK'
    BY <1>1, PointsTyped DEF Start, Go
  <1>2. ASSUME NEW w \in Workers, ReadKey(w)  PROVE TypeOK'
    BY <1>2, PointsTyped DEF ReadKey, Go
  <1>3. ASSUME NEW w \in Workers, OpenKey(w)  PROVE TypeOK'
    BY <1>3, PointsTyped DEF OpenKey, Go, NoKey
  <1>4. ASSUME NEW w \in Workers, WriteKey(w)  PROVE TypeOK'
    BY <1>4, PointsTyped DEF WriteKey, Go
  <1>5. ASSUME NEW w \in Workers, LookUser(w)  PROVE TypeOK'
    BY <1>5, PointsTyped, LookTyped DEF LookUser, LookTable, Go
  <1>6. ASSUME NEW w \in Workers, AskTable(w)  PROVE TypeOK'
    <2>1. pc[w].table \in 1..4 /\ [pc[w] EXCEPT !.at = "drop"] \in Script
      BY <1>6, TablePoints DEF AskTable, At
    <2>2. CASE Tables[pc[w].table] \in View(w).tables
      BY <1>6, <2>1, <2>2, PointsTyped, LookTyped, TableNames DEF AskTable, After, LookTable, Go
    <2>3. CASE Tables[pc[w].table] \notin View(w).tables
      BY <1>6, <2>1, <2>3 DEF AskTable
    <2> QED
      BY <2>2, <2>3
  <1>7. ASSUME NEW w \in Workers, CommitFirst(w)  PROVE TypeOK'
    BY <1>7 DEF CommitFirst
  <1>8. ASSUME NEW w \in Workers, DropTable(w)  PROVE TypeOK'
    BY <1>8, DatabaseUpdates, TablePoints DEF At, DropTable
  <1>9. ASSUME NEW w \in Workers, CreateTable(w)  PROVE TypeOK'
    <2>1. pc[w].table \in 1..4
      BY <1>9, TablePoints DEF CreateTable, At
    <2>2. CASE Tables[pc[w].table] \in db.tables
      BY <1>9, <2>2, PointsTyped DEF CreateTable, Fail, Go
    <2>3. CASE Tables[pc[w].table] \notin db.tables
      <3>1. db' \in Database
        BY <1>9, <2>1, <2>3, DatabaseUpdates DEF CreateTable
      <3>2. pc' \in [Workers -> Points \cup Look \cup Script]
        BY <1>9, <2>1, <2>3, PointsTyped, LookTyped, TableNames DEF CreateTable, After, LookTable, Go
      <3> QED
        BY <1>9, <2>3, <3>1, <3>2 DEF CreateTable
    <2> QED
      BY <2>2, <2>3
  <1>10. ASSUME NEW w \in Workers, AskColumns(w)  PROVE TypeOK'
    BY <1>10, PointsTyped DEF AskColumns, Go
  <1>11. ASSUME NEW w \in Workers, AlterUser(w)  PROVE TypeOK'
    <2>1. View(w) \in Database
      BY DEF View
    <2>2. [View(w) EXCEPT !.apitoken = TRUE] \in Database
      BY <2>1, DatabaseUpdates
    <2>3. CASE View(w).apitoken
      BY <1>11, <2>3, PointsTyped DEF AlterUser, Fail, Go
    <2>4. CASE ~(View(w).apitoken)
      BY <1>11, <2>2, <2>4, PointsTyped DEF AlterUser, WriteThrough, Go
    <2> QED
      BY <2>3, <2>4
  <1>12. ASSUME NEW w \in Workers, GiveTokens(w)  PROVE TypeOK'
    <2>1. View(w) \in Database /\ [u \in Users |-> life[w]] \in [Users -> 0..MaxStarts]
      BY DEF View
    <2>2. [View(w) EXCEPT !.tokens = [u \in Users |-> life[w]]] \in Database
      BY <2>1, DatabaseUpdates
    <2> QED
      BY <1>12, <2>2, PointsTyped DEF GiveTokens, WriteInTransaction, Go
  <1>13. ASSUME NEW w \in Workers, AskServer(w)  PROVE TypeOK'
    BY <1>13, PointsTyped, LookTyped DEF AskServer, LookTable, Go
  <1>14. ASSUME NEW w \in Workers, AlterServer(w)  PROVE TypeOK'
    <2>1. View(w) \in Database
      BY DEF View
    <2>2. [View(w) EXCEPT !.server_token = "null"] \in Database
      BY <2>1, DatabaseUpdates
    <2>3. CASE View(w).server_token # "absent"
      BY <1>14, <2>3, PointsTyped DEF AlterServer, Fail, Go
    <2>4. CASE ~(View(w).server_token # "absent")
      BY <1>14, <2>2, <2>4, PointsTyped DEF AlterServer, WriteThrough, Go
    <2> QED
      BY <2>3, <2>4
  <1>15. ASSUME NEW w \in Workers, FillServer(w)  PROVE TypeOK'
    <2>1. View(w) \in Database
      BY DEF View
    <2>2. [View(w) EXCEPT !.server_token = "set"] \in Database
      BY <2>1, DatabaseUpdates
    <2> QED
      BY <1>15, <2>2, LookTyped DEF FillServer, WriteInTransaction, LookTable
  <1>16. ASSUME NEW w \in Workers, Commit(w)  PROVE TypeOK'
    BY <1>16, PointsTyped DEF Commit, Go
  <1>17. ASSUME NEW w \in Workers, GiveUp(w)  PROVE TypeOK'
    BY <1>17, PointsTyped DEF GiveUp, Fail, Go
  <1>18. ASSUME NEW w \in Workers, Kill(w)  PROVE TypeOK'
    BY <1>18, PointsTyped DEF Kill, Go
  <1>19. CASE UNCHANGED vars
    BY <1>19 DEF vars
  <1> QED
    BY <1>1, <1>2, <1>3, <1>4, <1>5, <1>6, <1>7, <1>8, <1>9, <1>10, <1>11, <1>12, <1>13, <1>14,
       <1>15, <1>16, <1>17, <1>18, <1>19 DEF Next, Step
--------------------------------------------------------------------------------
(* Columns.                                                                   *)

LEMMA DatabaseFields ==
    ASSUME NEW d \in Database
    PROVE  /\ LET e == [d EXCEPT !.apitoken = TRUE]
              IN e.apitoken /\ e.tables = d.tables /\ e.tokens = d.tokens /\ e.server_token = d.server_token
           /\ \A t : LET e == [d EXCEPT !.tokens = t]
                    IN e.tokens = t /\ e.tables = d.tables /\ e.apitoken = d.apitoken /\ e.server_token = d.server_token
           /\ \A s : LET e == [d EXCEPT !.server_token = s]
                    IN e.server_token = s /\ e.tables = d.tables /\ e.tokens = d.tokens /\ e.apitoken = d.apitoken
           /\ \A s : LET e == [d EXCEPT !.tables = s]
                    IN e.tables = s /\ e.server_token = d.server_token /\ e.tokens = d.tokens /\ e.apitoken = d.apitoken
  BY Zenon DEF Database

LEMMA GainsTwice ==
    ASSUME NEW d, NEW e, NEW f, Gains(d, e), Gains(e, f)  PROVE Gains(d, f)
  BY DEF Gains

LEMMA GainsMore ==
    ASSUME NEW d \in Database
    PROVE  /\ Gains(d, d)
           /\ Gains(d, [d EXCEPT !.apitoken = TRUE])
           /\ \A t : Gains(d, [d EXCEPT !.tokens = t])
           /\ \A s \in {"null", "set"} : Gains(d, [d EXCEPT !.server_token = s])
           /\ \A i \in 1..4 : /\ Gains(d, [d EXCEPT !.tables = @ \cup {Tables[i]}])
                             /\ Gains(d, [d EXCEPT !.tables = @ \ {Tables[i]}])
  BY DatabaseFields, TableNames DEF Gains

\* What a step of w does to the invariant.
Effect(w) ==
    /\ \A v \in Workers \ {w} : pc'[v] = pc[v] /\ (writer' = v <=> writer = v)
    /\ Gains(db, db')
    /\ writer \notin {None, w} => db' = db /\ staged' = staged
    /\ writer' = w => Gains(db', staged') /\ InTransaction(pc'[w])
    /\ Reached(pc'[w], View(w)')

LEMMA EffectKeeps ==
    ASSUME IInv, TypeOK', NEW w \in Workers, Effect(w)
    PROVE  ColumnsInv'
  <1> USE DEF IInv, ColumnsInv
  <1>1. ASSUME NEW v \in Workers  PROVE Reached(pc'[v], View(v)')
    <2>1. CASE v = w
      BY <2>1 DEF Effect
    <2>2. CASE v # w /\ writer = v
      BY <2>2, StartUpAssumption DEF Effect, View
    <2>3. CASE v # w /\ writer # v
      <3>1. View(v) = db /\ View(v)' = db' /\ pc'[v] = pc[v]
        BY <2>3 DEF Effect, View
      <3> QED
        BY <3>1, ReachedGains DEF Effect
    <2> QED
      BY <2>1, <2>2, <2>3
  <1>2. ASSUME writer' # None  PROVE Gains(db, staged)' /\ InTransaction(pc[writer])'
    <2>1. CASE writer' = w
      BY <2>1 DEF Effect, Gains
    <2>2. CASE writer' # w
      <3>1. writer' \in Workers \ {w} /\ writer = writer' /\ pc'[writer'] = pc[writer]
        BY <1>2, <2>2 DEF Effect, TypeOK
      <3>2. db' = db /\ staged' = staged
        BY <3>1, StartUpAssumption DEF Effect
      <3> QED
        BY <1>2, <3>1, <3>2 DEF Gains, InTransaction
    <2> QED
      BY <2>1, <2>2
  <1> QED
    BY <1>1, <1>2

LEMMA PointPlaces ==
    /\ \A d : \A at \in {"down", "read", "open", "write", "user", "failed"} : Reached(Point(at), d)
    /\ \A d : "user" \in d.tables =>
          /\ Reached([at |-> "look", table |-> 1], d)
          /\ Reached(Point("columns"), d) /\ Reached(Point("alter_user"), d)
          /\ d.apitoken => \A at \in {"give_tokens", "server", "alter_server"} : Reached(Point(at), d)
          /\ d.apitoken /\ d.server_token # "absent" =>
                /\ Reached(Point("fill_server"), d) /\ Reached(Point("commit"), d) /\ Reached(Point("serving"), d)
                /\ \A i \in 1..4, at \in {"look", "drop", "create"} : Reached([at |-> at, table |-> i], d)
  BY PointsTyped DEF Reached, Migrating, HasUserColumn, HasServerColumn, Point

\* A connection that is closed without commit, with its worker going to "down" or "failed".
LEMMA CloseEffect ==
    ASSUME IInv, NEW w \in Workers, NEW at \in {"down", "failed"}, Go(w, at),
           writer' = (IF writer = w THEN None ELSE writer), UNCHANGED <<db, staged>>
    PROVE  Effect(w)
  <1> USE StartUpAssumption
  <1>1. \A v \in Workers \ {w} : pc'[v] = pc[v]
    BY DEF Go, IInv, TypeOK
  <1>2. writer' # w /\ \A v \in Workers \ {w} : writer' = v <=> writer = v
    OBVIOUS
  <1>3. Gains(db, db')
    BY DEF Gains
  <1>4. pc'[w] = Point(at)
    BY DEF Go, IInv, TypeOK
  <1>5. Reached(pc'[w], View(w)')
    BY <1>4, PointPlaces
  <1> QED
    BY <1>1, <1>2, <1>3, <1>5 DEF Effect

\* A step of w that only reads the database and moves on.
LEMMA ReadEffect ==
    ASSUME IInv, NEW w \in Workers, NEW p, pc' = [pc EXCEPT ![w] = p], UNCHANGED database,
           Reached(p, View(w)), writer = w => InTransaction(p)
    PROVE  Effect(w)
  <1>1. pc'[w] = p /\ \A v \in Workers \ {w} : pc'[v] = pc[v]
    BY DEF IInv, TypeOK
  <1>2. View(w)' = View(w) /\ writer' = writer /\ db' = db /\ staged' = staged
    BY DEF View, database
  <1>3. Gains(db, db') /\ (writer' = w => Gains(db', staged'))
    BY <1>2, StartUpAssumption DEF Gains, IInv, ColumnsInv
  <1> QED
    BY <1>1, <1>2, <1>3 DEF Effect

\* A step of w that writes e, which has what w read, in its transaction or - outside of one -
\* at once, and goes to p.
LEMMA WriteEffect ==
    ASSUME IInv, NEW w \in Workers, NEW p, NEW e, pc' = [pc EXCEPT ![w] = p],
           MayWrite(w), Gains(View(w), e), Reached(p, e),
           WriteInTransaction(w, e) \/ WriteThrough(w, e),
           writer' = w => InTransaction(p)
    PROVE  Effect(w)
  <1> USE StartUpAssumption
  <1>1. pc'[w] = p /\ \A v \in Workers \ {w} : pc'[v] = pc[v]
    BY DEF IInv, TypeOK
  <1>2. \A v \in Workers \ {w} : writer # v /\ writer' # v
    BY DEF MayWrite, WriteInTransaction, WriteThrough
  <1>3. View(w)' = e
    BY DEF MayWrite, WriteInTransaction, WriteThrough, View
  <1>4. Gains(db, e)
    BY GainsTwice DEF View, MayWrite, IInv, ColumnsInv
  <1>5. Gains(db, db') /\ (writer' = w => Gains(db', staged'))
    BY <1>4 DEF WriteInTransaction, WriteThrough, MayWrite, Gains
  <1> QED
    BY <1>1, <1>2, <1>3, <1>5 DEF Effect, MayWrite

LEMMA ColumnsStep ==
    ASSUME IInv, TypeOK', [Next]_vars
    PROVE  ColumnsInv'
  <1> USE StartUpAssumption DEF IInv, ColumnsInv, key_vars, database
  <1>0. /\ db \in Database /\ staged \in Database
        /\ \A w \in Workers : View(w) \in Database /\ Reached(pc[w], View(w)) /\ pc[w] \in Points \cup Look \cup Script
    BY DEF TypeOK, View
  <1>1. ASSUME NEW w \in Workers, Start(w)  PROVE Effect(w)
    BY <1>0, <1>1, PointPlaces, GainsMore, PointsTyped DEF Start, Go, At, Effect, View, InTransaction, TypeOK
  <1>2. ASSUME NEW w \in Workers, ReadKey(w)  PROVE Effect(w)
    BY <1>0, <1>2, PointPlaces, GainsMore, PointsTyped DEF ReadKey, Go, At, Effect, View, InTransaction, TypeOK
  <1>3. ASSUME NEW w \in Workers, OpenKey(w)  PROVE Effect(w)
    BY <1>0, <1>3, PointPlaces, GainsMore, PointsTyped DEF OpenKey, Go, At, Effect, View, InTransaction, TypeOK
  <1>4. ASSUME NEW w \in Workers, WriteKey(w)  PROVE Effect(w)
    BY <1>0, <1>4, PointPlaces, GainsMore, PointsTyped DEF WriteKey, Go, At, Effect, View, InTransaction, TypeOK  <1>5. ASSUME NEW w \in Workers, LookUser(w)  PROVE Effect(w)
    <2>1. Reached(pc[w], View(w)) /\ writer # w
      BY <1>0, <1>5 DEF LookUser, At, InTransaction
    <2>2. CASE "user" \in View(w).tables
      BY <1>5, <2>1, <2>2, ReadEffect, PointPlaces DEF LookUser, LookTable
    <2>3. CASE "user" \notin View(w).tables
      <3>1. Reached(Point("serving"), View(w))
        BY <2>3, PointsTyped DEF Reached, Migrating, HasUserColumn, HasServerColumn
      <3> QED
        BY <1>5, <2>1, <2>3, <3>1, ReadEffect DEF LookUser, Go
    <2> QED
      BY <2>2, <2>3
  <1>6. ASSUME NEW w \in Workers, AskTable(w)  PROVE Effect(w)
    <2> DEFINE i == pc[w].table
    <2>1. i \in 1..4 /\ [pc[w] EXCEPT !.at = "drop"] = [at |-> "drop", table |-> i]
      BY <1>0, <1>6, TablePoints DEF AskTable, At
    <2>2. "user" \in View(w).tables /\ (i >= 2 => View(w).apitoken /\ View(w).server_token # "absent")
      BY <1>0, <2>1 DEF Reached, Migrating, HasUserColumn, HasServerColumn
    <2>3. CASE Tables[i] \notin View(w).tables
      <3>1. Reached([at |-> "drop", table |-> i], View(w))
        BY <2>1, <2>2 DEF Reached, Migrating, HasUserColumn, HasServerColumn
      <3> QED
        <4>1. pc' = [pc EXCEPT ![w] = [at |-> "drop", table |-> i]] /\ UNCHANGED database
          BY <1>6, <2>1, <2>3 DEF AskTable
        <4>2. writer = w => i >= 2
          BY <1>6, StartUpAssumption DEF AskTable, At, InTransaction
        <4> QED
          BY <2>1, <3>1, <4>1, <4>2, ReadEffect DEF InTransaction
    <2>4. CASE Tables[i] \in View(w).tables /\ i = 1
      <3>1. writer # w
        BY <1>6, <2>4, StartUpAssumption DEF AskTable, At, InTransaction
      <3> QED
        BY <1>6, <2>2, <2>4, <3>1, ReadEffect, PointPlaces DEF AskTable, After, Go
    <2>5. CASE Tables[i] \in View(w).tables /\ i = 4
      BY <1>6, <2>2, <2>5, ReadEffect, PointPlaces, PointsTyped, TableNames DEF AskTable, After, Go, InTransaction
    <2>6. CASE Tables[i] \in View(w).tables /\ i \in 2..3
      <3>1. LookTable(w, i + 1) /\ UNCHANGED database
        BY <1>6, <2>6, TableNames DEF AskTable, After
      <3>2. Reached([at |-> "look", table |-> i + 1], View(w))
        BY <2>2, <2>6, PointPlaces
      <3> QED
        <4>1. InTransaction([at |-> "look", table |-> i + 1])
          BY <2>6, LookInTransaction
        <4> HIDE DEF i
        <4> QED
          BY <3>1, <3>2, <4>1, ReadEffect DEF LookTable
    <2> QED
      BY <2>1, <2>3, <2>4, <2>5, <2>6
  <1>7. ASSUME NEW w \in Workers, CommitFirst(w)  PROVE Effect(w)
    BY <1>0, <1>7, PointPlaces, GainsMore, PointsTyped DEF CommitFirst, Reached, Go, At, Effect, View, InTransaction, TypeOK
  <1>8. ASSUME NEW w \in Workers, DropTable(w)  PROVE Effect(w)
    <2>1. pc[w].table \in 1..4 /\ [pc[w] EXCEPT !.at = "create"] = [at |-> "create", table |-> pc[w].table]
      BY <1>0, <1>8, TablePoints DEF DropTable, At
    <2>2. Gains(db, db')
      BY <1>0, <1>8, <2>1, GainsMore DEF DropTable
    <2>3. Reached(pc'[w], db')
      BY <1>0, <1>8, <2>1, <2>2, ReachedGains, TablePoints, StartUpAssumption
      DEF DropTable, At, View, Reached, Migrating, HasUserColumn, HasServerColumn, Gains, TypeOK
    <2> QED
      BY <1>0, <1>8, <2>1, <2>2, <2>3 DEF DropTable, At, Effect, View, TypeOK
  <1>9. ASSUME NEW w \in Workers, CreateTable(w)  PROVE Effect(w)
    <2>1. pc[w].table \in 1..4 /\ Reached(pc[w], db)
      BY <1>0, <1>9, TablePoints DEF CreateTable, At, View
    <2>2. CASE Tables[pc[w].table] \in db.tables
      BY <1>9, <2>2, CloseEffect DEF CreateTable, Fail
    <2>3. CASE Tables[pc[w].table] \notin db.tables
      <3>1. Gains(db, db')
        BY <1>0, <1>9, <2>1, <2>3, GainsMore DEF CreateTable
      <3>2. Reached(pc'[w], db)
        BY <1>0, <1>9, <2>1, <2>3, PointPlaces, PointsTyped, TableNames
        DEF CreateTable, After, LookTable, Go, At, Reached, Migrating, HasUserColumn, HasServerColumn, TypeOK
      <3> QED
        BY <1>0, <1>9, <2>3, <3>1, <3>2, ReachedGains DEF CreateTable, After, LookTable, Go, Effect, View, TypeOK
    <2> QED
      BY <2>2, <2>3
  <1>10. ASSUME NEW w \in Workers, AskColumns(w)  PROVE Effect(w)
    <2>1. "user" \in View(w).tables /\ writer # w
      BY <1>0, <1>10, TablePoints DEF AskColumns, At, InTransaction, Reached, Migrating
    <2> QED
      BY <1>10, <2>1, ReadEffect, PointPlaces DEF AskColumns, Go
  <1>11. ASSUME NEW w \in Workers, AlterUser(w)  PROVE Effect(w)
    <2> DEFINE e == [View(w) EXCEPT !.apitoken = TRUE]
    <2>1. View(w) \in Database /\ Gains(View(w), e) /\ "user" \in View(w).tables
      BY <1>0, <1>11, GainsMore DEF AlterUser, At, Reached, Migrating
    <2>2. CASE View(w).apitoken
      BY <1>11, <2>2, CloseEffect DEF AlterUser, Fail
    <2>3. CASE ~(View(w).apitoken)
      <3>1. Reached(Point("give_tokens"), e)
        BY <1>0, <1>11, <2>1, PointPlaces, DatabaseFields DEF AlterUser, At, Reached, HasUserColumn, Gains
      <3>2. writer # w
        BY <1>11, StartUpAssumption DEF AlterUser, At, InTransaction
      <3> HIDE DEF e
      <3> QED
        BY <1>11, <2>1, <2>3, <3>1, <3>2, WriteEffect, PointsTyped DEF AlterUser, Go, WriteThrough, InTransaction, e
    <2> QED
      BY <2>2, <2>3
  <1>12. ASSUME NEW w \in Workers, GiveTokens(w)  PROVE Effect(w)
    <2> DEFINE e == [View(w) EXCEPT !.tokens = [u \in Users |-> life[w]]]
    <2>1. Gains(View(w), e) /\ Reached(Point("server"), View(w))
      BY <1>0, <1>12, GainsMore, PointPlaces DEF GiveTokens, At, Reached, Migrating, HasUserColumn
    <2>2. Reached(Point("server"), e)
      BY <2>1, ReachedGains
    <2>3. writer # w
      BY <1>12, StartUpAssumption DEF GiveTokens, At, InTransaction
    <2>4. CASE Users = {}
      BY <1>12, <2>1, <2>3, <2>4, ReadEffect DEF GiveTokens, Go
    <2>5. CASE Users # {}
      <3> HIDE DEF e
      <3> QED
        BY <1>12, <2>1, <2>2, <2>5, WriteEffect, PointsTyped DEF GiveTokens, Go, InTransaction, e
    <2> QED
      BY <2>4, <2>5
  <1>13. ASSUME NEW w \in Workers, AskServer(w)  PROVE Effect(w)
    <2>1. "user" \in View(w).tables /\ View(w).apitoken
      BY <1>0, <1>13 DEF AskServer, At, Reached, Migrating, HasUserColumn
    <2>2. CASE View(w).server_token = "absent"
      BY <1>13, <2>1, <2>2, ReadEffect, PointPlaces, PointsTyped DEF AskServer, Go, InTransaction
    <2>3. CASE View(w).server_token # "absent"
      BY <1>13, <2>1, <2>3, ReadEffect, PointPlaces DEF AskServer, LookTable, InTransaction
    <2> QED
      BY <2>2, <2>3
  <1>14. ASSUME NEW w \in Workers, AlterServer(w)  PROVE Effect(w)
    <2> DEFINE e == [View(w) EXCEPT !.server_token = "null"]
    <2>1. View(w) \in Database /\ Gains(View(w), e) /\ "user" \in View(w).tables
      BY <1>0, <1>14, GainsMore DEF AlterServer, At, Reached, Migrating
    <2>2. CASE View(w).server_token # "absent"
      BY <1>14, <2>2, CloseEffect DEF AlterServer, Fail
    <2>3. CASE ~(View(w).server_token # "absent")
      <3>1. Reached(Point("fill_server"), e)
        BY <1>0, <1>14, <2>1, PointPlaces, DatabaseFields DEF AlterServer, At, Reached, HasUserColumn, Gains
      <3> HIDE DEF e
      <3> QED
        BY <1>14, <2>1, <2>3, <3>1, WriteEffect, PointsTyped DEF AlterServer, Go, WriteThrough, InTransaction, e
    <2> QED
      BY <2>2, <2>3
  <1>15. ASSUME NEW w \in Workers, FillServer(w)  PROVE Effect(w)
    <2> DEFINE e == [View(w) EXCEPT !.server_token = "set"]
    <2>1. Gains(View(w), e) /\ Reached([at |-> "look", table |-> 2], View(w))
      BY <1>0, <1>15, GainsMore, PointPlaces DEF FillServer, At, Reached, Migrating, HasUserColumn, HasServerColumn
    <2>2. Reached([at |-> "look", table |-> 2], e)
      BY <2>1, ReachedGains
    <2>3. MayWrite(w) /\ WriteInTransaction(w, e) /\ pc' = [pc EXCEPT ![w] = [at |-> "look", table |-> 2]]
      BY <1>15 DEF FillServer, LookTable
    <2>4. InTransaction([at |-> "look", table |-> 2])
      BY LookInTransaction
    <2> HIDE DEF e
    <2> QED
      BY <2>1, <2>2, <2>3, <2>4, WriteEffect
  <1>16. ASSUME NEW w \in Workers, Commit(w)  PROVE Effect(w)
    <2>1. Reached(Point("serving"), View(w))
      BY <1>0, <1>16, PointPlaces DEF Commit, At, Reached, Migrating, HasUserColumn, HasServerColumn
    <2>2. View(w)' = View(w) /\ writer' # w /\ Gains(db, db')
      BY <1>0, <1>16, GainsMore DEF Commit, View
    <2>3. pc'[w] = Point("serving") /\ \A v \in Workers \ {w} : pc'[v] = pc[v]
      BY <1>16 DEF Commit, Go, TypeOK
    <2> QED
      BY <1>16, <2>1, <2>2, <2>3 DEF Commit, Effect
  <1>17. ASSUME NEW w \in Workers, GiveUp(w)  PROVE Effect(w)
    BY <1>17, CloseEffect DEF GiveUp, Fail
  <1>18. ASSUME NEW w \in Workers, Kill(w)  PROVE Effect(w)
    BY <1>18, CloseEffect DEF Kill
  <1>19. CASE UNCHANGED vars
    BY <1>19 DEF vars, View, Reached, Gains, InTransaction
  <1> QED
    BY <1>1, <1>2, <1>3, <1>4, <1>5, <1>6, <1>7, <1>8, <1>9, <1>10, <1>11, <1>12, <1>13, <1>14,
       <1>15, <1>16, <1>17, <1>18, <1>19, EffectKeeps DEF Next, Step
--------------------------------------------------------------------------------
(* Tokens.  One worker at most is between adding the column and filling it,    *)
(* and until it has, nobody has a token.                                       *)

NoTokens(d) == \A u \in Users : d.tokens[u] = 0
Keeps(d, e) == \A u \in Users : d.tokens[u] # 0 => e.tokens[u] = d.tokens[u]

TokensInv ==
    /\ ~db.apitoken => NoTokens(db)
    /\ writer # None => staged.apitoken /\ Keeps(db, staged)
    /\ \A w \in Workers : At(w, "give_tokens") => NoTokens(db) /\ (writer # None => NoTokens(staged))
    /\ \A v, w \in Workers : At(v, "give_tokens") /\ At(w, "give_tokens") => v = w

\* w goes anywhere but to give_tokens, the others stay.
Elsewhere(w) ==
    /\ pc'[w].at # "give_tokens"
    /\ \A v \in Workers \ {w} : pc'[v] = pc[v]

LEMMA TokensRead ==
    ASSUME TokensInv, NEW w \in Workers, Elsewhere(w), UNCHANGED <<db, staged>>, writer' \in {writer, None}
    PROVE  TokensInv' /\ Keeps(db, db')
  BY DEF TokensInv, Elsewhere, At, Keeps, NoTokens

LEMMA TokensCommitted ==
    ASSUME TokensInv, NEW w \in Workers, Elsewhere(w), writer # None,
           db' = staged, writer' = None, UNCHANGED staged
    PROVE  TokensInv' /\ Keeps(db, db')
  BY DEF TokensInv, Elsewhere, At, Keeps, NoTokens

\* A write that leaves the tokens alone.
LEMMA TokensWritten ==
    ASSUME TokensInv, TypeOK, NEW w \in Workers, Elsewhere(w), MayWrite(w), NEW e,
           e.tokens = View(w).tokens, View(w).apitoken => e.apitoken,
           \/ WriteThrough(w, e)
           \/ WriteInTransaction(w, e) /\ View(w).apitoken
    PROVE  TokensInv' /\ Keeps(db, db')
  <1> USE StartUpAssumption DEF Keeps, NoTokens
  <1>1. CASE writer = w /\ staged' = e /\ UNCHANGED <<db, writer>>
    BY <1>1 DEF TokensInv, Elsewhere, At, View
  <1>2. CASE writer = None /\ db' = e /\ UNCHANGED <<writer, staged>>
    BY <1>2 DEF TokensInv, Elsewhere, At, View
  <1>3. CASE writer = None /\ writer' = w /\ staged' = e /\ UNCHANGED db /\ View(w).apitoken
    BY <1>3 DEF TokensInv, Elsewhere, At, View
  <1> QED
    BY <1>1, <1>2, <1>3 DEF MayWrite, WriteThrough, WriteInTransaction

LEMMA ElsewherePoints ==
    ASSUME TypeOK, NEW w \in Workers, NEW p, p.at # "give_tokens", pc' = [pc EXCEPT ![w] = p]
    PROVE  Elsewhere(w)
  BY DEF TypeOK, Elsewhere

LEMMA TokensStep ==
    ASSUME IInv, TokensInv, [Next]_vars
    PROVE  TokensInv' /\ Keeps(db, db')
  <1> USE StartUpAssumption DEF key_vars, database
  <1>0. TypeOK /\ \A w \in Workers : View(w) \in Database /\ Reached(pc[w], View(w))
    BY DEF IInv, ColumnsInv, TypeOK, View
  <1>1. ASSUME NEW w \in Workers, Start(w) \/ ReadKey(w) \/ OpenKey(w) \/ WriteKey(w)
        PROVE  TokensInv' /\ Keeps(db, db')
    <2>1. UNCHANGED database /\ \E at \in {"read", "open", "write", "user"} : Go(w, at)
      BY <1>1 DEF Start, ReadKey, OpenKey, WriteKey
    <2>2. Elsewhere(w)
      BY <1>0, <2>1, PointsTyped, ElsewherePoints DEF Go
    <2> QED
      BY <2>1, <2>2, TokensRead
  <1>2. ASSUME NEW w \in Workers, LookUser(w) \/ AskTable(w) \/ AskServer(w)
        PROVE  TokensInv' /\ Keeps(db, db')
    <2>1. CASE \E at \in {"serving", "columns", "commit", "alter_server"} : Go(w, at)
      BY <1>0, <1>2, <2>1, PointsTyped, ElsewherePoints, TokensRead DEF Go, LookUser, AskTable, AskServer
    <2>2. CASE \E i \in 1..4 : LookTable(w, i)
      BY <1>0, <1>2, <2>2, ElsewherePoints, TokensRead DEF LookTable, LookUser, AskTable, AskServer
    <2>3. CASE pc' = [pc EXCEPT ![w].at = "drop"]
      <3>1. Elsewhere(w)
        BY <1>0, <2>3, TablePoints DEF Elsewhere, TypeOK, Points, Point, Look, Script
      <3> QED
        BY <1>2, <3>1, TokensRead DEF LookUser, AskTable, AskServer
    <2>4. CASE AskTable(w)
      <3>1. pc[w].table \in 1..4
        BY <1>0, <2>4, TablePoints DEF AskTable, At, TypeOK
      <3>2. CASE Tables[pc[w].table] \in View(w).tables
        BY <2>1, <2>2, <2>4, <3>1, <3>2, TableNames DEF AskTable, After
      <3> QED
        BY <2>3, <2>4, <3>2 DEF AskTable
    <2>5. CASE LookUser(w) \/ AskServer(w)
      BY <2>1, <2>2, <2>5 DEF LookUser, AskServer
    <2> QED
      BY <1>2, <2>4, <2>5
  <1>3. ASSUME NEW w \in Workers, AskColumns(w)  PROVE  TokensInv' /\ Keeps(db, db')
    <2>1. UNCHANGED database /\ (Go(w, "server") \/ Go(w, "alter_user"))
      BY <1>3 DEF AskColumns
    <2>2. Elsewhere(w)
      BY <1>0, <2>1, PointsTyped, ElsewherePoints DEF Go
    <2> QED
      BY <2>1, <2>2, TokensRead
  <1>4. ASSUME NEW w \in Workers, Fail(w) \/ Kill(w)  PROVE  TokensInv' /\ Keeps(db, db')
    <2>1. Elsewhere(w)
      BY <1>0, <1>4, PointsTyped, ElsewherePoints DEF Fail, Kill, Go
    <2> QED
      BY <1>4, <2>1, TokensRead DEF Fail, Kill
  <1>5. ASSUME NEW w \in Workers, CommitFirst(w)  PROVE  TokensInv' /\ Keeps(db, db')
    <2>1. Elsewhere(w)
      BY <1>5 DEF CommitFirst, Elsewhere, At
    <2> QED
      BY <1>5, <2>1, TokensCommitted DEF CommitFirst
  <1>6. ASSUME NEW w \in Workers, DropTable(w)  PROVE  TokensInv' /\ Keeps(db, db')
    <2> DEFINE e == [db EXCEPT !.tables = @ \ {Tables[pc[w].table]}]
    <2>1. Elsewhere(w)
      BY <1>0, <1>6, TablePoints DEF DropTable, Elsewhere, At, TypeOK
    <2>2. e.tokens = db.tokens /\ e.apitoken = db.apitoken
      BY <1>0, DatabaseFields DEF TypeOK
    <2>3. View(w) = db /\ MayWrite(w) /\ WriteThrough(w, e)
      BY <1>6 DEF DropTable, View, MayWrite, WriteThrough
    <2> HIDE DEF e
    <2> QED
      BY <1>0, <2>1, <2>2, <2>3, TokensWritten
  <1>7. ASSUME NEW w \in Workers, CreateTable(w), ~Fail(w)  PROVE  TokensInv' /\ Keeps(db, db')
    <2> DEFINE e == [db EXCEPT !.tables = @ \cup {Tables[pc[w].table]}]
    <2>1. pc[w].table \in 1..4
      BY <1>0, <1>7, TablePoints DEF CreateTable, At, TypeOK
    <2>2. Elsewhere(w)
      BY <1>0, <1>7, <2>1, PointsTyped, ElsewherePoints, TableNames DEF CreateTable, After, LookTable, Go
    <2>3. e.tokens = db.tokens /\ e.apitoken = db.apitoken
      BY <1>0, DatabaseFields DEF TypeOK
    <2>4. View(w) = db /\ MayWrite(w) /\ WriteThrough(w, e)
      BY <1>7 DEF CreateTable, View, MayWrite, WriteThrough
    <2> HIDE DEF e
    <2> QED
      BY <1>0, <2>2, <2>3, <2>4, TokensWritten
  <1>8. ASSUME NEW w \in Workers, AlterUser(w), ~Fail(w)  PROVE  TokensInv' /\ Keeps(db, db')
    <2> DEFINE e == [db EXCEPT !.apitoken = TRUE]
    <2>1. ~View(w).apitoken /\ MayWrite(w)
      BY <1>8 DEF AlterUser
    <2>2. writer = None /\ View(w) = db
      BY <2>1 DEF MayWrite, View, TokensInv
    <2>3. \A v \in Workers : ~At(v, "give_tokens")
      BY <1>0, <2>1, <2>2 DEF At, View, Reached, HasUserColumn
    <2>4. db' = e /\ writer' = None /\ NoTokens(db)
      BY <1>8, <2>1, <2>2 DEF AlterUser, WriteThrough, TokensInv
    <2>5. e.tokens = db.tokens /\ e.apitoken
      BY <1>0, DatabaseFields DEF TypeOK
    <2>6. \A v \in Workers \ {w} : pc'[v] = pc[v]
      BY <1>0, <1>8, <2>1 DEF AlterUser, Go, TypeOK
    <2> HIDE DEF e
    <2> QED
      BY <2>3, <2>4, <2>5, <2>6 DEF TokensInv, At, NoTokens, Keeps
  <1>9. ASSUME NEW w \in Workers, GiveTokens(w)  PROVE  TokensInv' /\ Keeps(db, db')
    <2> DEFINE e == [View(w) EXCEPT !.tokens = [u \in Users |-> life[w]]]
    <2>1. Elsewhere(w)
      BY <1>0, <1>9, PointsTyped, ElsewherePoints DEF GiveTokens, Go
    <2>2. CASE Users = {}
      BY <1>9, <2>1, <2>2, TokensRead DEF GiveTokens
    <2>3. CASE Users # {}
      <3>1. e.apitoken = View(w).apitoken
        BY <1>0, DatabaseFields
      <3>2. /\ View(w).apitoken /\ NoTokens(db)
            /\ \A v \in Workers \ {w} : ~At(v, "give_tokens")
        BY <1>0, <1>9 DEF GiveTokens, At, Reached, HasUserColumn, TokensInv
      <3>3. writer # w
        BY <1>9 DEF GiveTokens, At, InTransaction, IInv, ColumnsInv
      <3>4. writer' = w /\ staged' = e /\ db' = db /\ View(w) = db
        BY <1>9, <2>3, <3>3 DEF GiveTokens, WriteInTransaction, View
      <3> HIDE DEF e
      <3> QED
        BY <2>1, <3>1, <3>2, <3>4 DEF TokensInv, Elsewhere, At, NoTokens, Keeps
    <2> QED
      BY <2>2, <2>3
  <1>10. ASSUME NEW w \in Workers, AlterServer(w), ~Fail(w)  PROVE  TokensInv' /\ Keeps(db, db')
    <2> DEFINE e == [View(w) EXCEPT !.server_token = "null"]
    <2>1. Elsewhere(w)
      BY <1>0, <1>10, PointsTyped, ElsewherePoints DEF AlterServer, Go
    <2>2. e.tokens = View(w).tokens /\ e.apitoken = View(w).apitoken
      BY <1>0, DatabaseFields
    <2>3. MayWrite(w) /\ WriteThrough(w, e)
      BY <1>10 DEF AlterServer
    <2> HIDE DEF e
    <2> QED
      BY <1>0, <2>1, <2>2, <2>3, TokensWritten
  <1>11. ASSUME NEW w \in Workers, FillServer(w)  PROVE  TokensInv' /\ Keeps(db, db')
    <2> DEFINE e == [View(w) EXCEPT !.server_token = "set"]
    <2>1. Elsewhere(w)
      BY <1>0, <1>11, ElsewherePoints DEF FillServer, LookTable
    <2>2. e.tokens = View(w).tokens /\ e.apitoken = View(w).apitoken
      BY <1>0, DatabaseFields
    <2>3. MayWrite(w) /\ WriteInTransaction(w, e)
      BY <1>11 DEF FillServer
    <2>4. View(w).apitoken
      BY <1>0, <1>11 DEF FillServer, At, Reached, HasUserColumn
    <2> HIDE DEF e
    <2> QED
      BY <1>0, <2>1, <2>2, <2>3, <2>4, TokensWritten
  <1>12. ASSUME NEW w \in Workers, Commit(w)  PROVE  TokensInv' /\ Keeps(db, db')
    <2>1. Elsewhere(w)
      BY <1>0, <1>12, PointsTyped, ElsewherePoints DEF Commit, Go
    <2>2. CASE writer = w
      BY <1>12, <2>1, <2>2, TokensCommitted DEF Commit
    <2>3. CASE writer # w
      BY <1>12, <2>1, <2>3, TokensRead DEF Commit
    <2> QED
      BY <2>2, <2>3
  <1>13. CASE UNCHANGED vars
    BY <1>13 DEF vars, TokensInv, At, NoTokens, Keeps
  <1>14. ASSUME NEW w \in Workers, GiveUp(w)  PROVE  TokensInv' /\ Keeps(db, db')
    BY <1>4, <1>14 DEF GiveUp
  <1> QED
    BY <1>1, <1>2, <1>3, <1>4, <1>5, <1>6, <1>7, <1>8, <1>9, <1>10, <1>11, <1>12, <1>13, <1>14
    DEF Next, Step
--------------------------------------------------------------------------------
(* The theorems.                                                              *)

LEMMA InitInv == Init => IInv /\ TokensInv
  <1> SUFFICES ASSUME Init  PROVE IInv /\ TokensInv
    OBVIOUS
  <1> USE StartUpAssumption DEF Init
  <1>1. TypeOK
    BY PointsTyped DEF TypeOK, NoKey
  <1>2. ColumnsInv
    BY PointPlaces DEF ColumnsInv
  <1>3. TokensInv
    BY PointsTyped DEF TokensInv, At, NoTokens
  <1> QED
    BY <1>1, <1>2, <1>3 DEF IInv

\* The inductive invariant: types, what each worker has reached, and how the one open
\* transaction lies to the committed database (migrate in db.py).
THEOREM StartUpInvariant == Spec => [](IInv /\ TokensInv)
  <1>1. IInv /\ TokensInv /\ [Next]_vars => (IInv /\ TokensInv)'
    BY TypeStep, ColumnsStep, TokensStep DEF IInv
  <1> QED
    BY InitInv, <1>1, PTL DEF Spec

\* No worker ever serves on a database that lacks a column, however many start at once and
\* wherever they are killed (migrate in db.py).
THEOREM AlwaysServesMigrated == Spec => []ServesMigrated
  <1>1. IInv => ServesMigrated
    <2> SUFFICES ASSUME IInv, NEW w \in Workers, At(w, "serving"), initialised
                 PROVE  db.apitoken /\ db.server_token # "absent"
      BY DEF ServesMigrated
    <2>1. writer # w /\ TypeOK
      BY StartUpAssumption DEF At, InTransaction, IInv, ColumnsInv
    <2>2. Reached(pc[w], db)
      BY <2>1 DEF IInv, ColumnsInv, View
    <2> QED
      BY <2>2 DEF Reached, At, initialised
  <1> QED
    BY <1>1, StartUpInvariant, PTL

\* No migration replaces a token that an account already has (migrate in db.py).
THEOREM TokensAlwaysStay == Spec => TokensStay
  <1>1. IInv /\ TokensInv /\ [Next]_vars
        => [\A u \in Users : db.tokens[u] # 0 => db'.tokens[u] = db.tokens[u]]_vars
    BY TokensStep DEF Keeps
  <1> QED
    BY <1>1, StartUpInvariant, PTL DEF Spec, TokensStay
--------------------------------------------------------------------------------
(* Repair.  As long as workers only ever start one after the other, whoever    *)
(* starts is alone with the key file and the database: what a killed start     *)
(* left is found by the next as it was looked at.                              *)

Alone == \A v, w \in Workers : Starting(v) /\ Starting(w) => v = w

\* What a worker at p with key k may rely on of the key file f.
KeyTaken(p, k, f) ==
    /\ p.at \in {"open", "write"} => f = NoKey
    /\ p.at \notin {"down", "read", "open", "write", "failed"} => k = f /\ f # NoKey

\* The tables that are there once a worker is at p.
Had(p, tables) ==
    /\ \A i \in 1..4 : i < p.table => Tables[i] \in tables
    /\ p.at \in {"columns", "alter_user", "give_tokens", "server", "alter_server", "fill_server"} =>
          Tables[1] \in tables
    /\ p.at = "commit" \/ (p.at = "serving" /\ "user" \in tables) =>
          \A i \in 1..4 : Tables[i] \in tables

\* What a worker at p is about to make is not there yet.
Lacks(p, d) ==
    /\ p.at \in {"drop", "create"} => Tables[p.table] \notin d.tables
    /\ p.at = "alter_user" => ~d.apitoken
    /\ p.at = "alter_server" => d.server_token = "absent"

Mended(w) ==
    /\ ~At(w, "failed")
    /\ KeyTaken(pc[w], key[w], keyFile)
    /\ Had(pc[w], db.tables)
    /\ Lacks(pc[w], View(w))

StagedTables == writer # None => staged.tables = db.tables
Lives == \A w \in Workers : ~At(w, "down") => life[w] # 0
CalmInv == StagedTables /\ Lives /\ (calm => Alone /\ \A w \in Workers : Mended(w))

\* No transaction makes or drops a table: executescript commits first.
LEMMA StagedStep ==
    ASSUME IInv, StagedTables, [Next]_vars
    PROVE  StagedTables'
  <1> USE StartUpAssumption DEF StagedTables, key_vars, database
  <1>0. \A w \in Workers : View(w) \in Database /\ (writer = w => View(w).tables = db.tables)
                           /\ (writer # w => View(w) = db)
    BY DEF IInv, TypeOK, View
  <1>1. ASSUME NEW w \in Workers, Fail(w) \/ Kill(w) \/ Commit(w)  PROVE StagedTables'
    BY <1>1 DEF Fail, Kill, Commit
  <1>2. ASSUME NEW w \in Workers, NEW d, d.tables = View(w).tables, MayWrite(w),
               WriteThrough(w, d) \/ WriteInTransaction(w, d)
        PROVE  StagedTables'
    BY <1>0, <1>2 DEF MayWrite, WriteThrough, WriteInTransaction
  <1>3. ASSUME NEW w \in Workers, AlterUser(w), ~Fail(w)  PROVE StagedTables'
    <2> DEFINE d == [View(w) EXCEPT !.apitoken = TRUE]
    <2>1. MayWrite(w) /\ WriteThrough(w, d)
      BY <1>3 DEF AlterUser
    <2>2. d.tables = View(w).tables
      BY <1>0, DatabaseFields
    <2> HIDE DEF d
    <2> QED
      BY <1>2, <2>1, <2>2
  <1>4. ASSUME NEW w \in Workers, GiveTokens(w)  PROVE StagedTables'
    <2> DEFINE d == [View(w) EXCEPT !.tokens = [u \in Users |-> life[w]]]
    <2>1. MayWrite(w) /\ (WriteInTransaction(w, d) \/ UNCHANGED database)
      BY <1>4 DEF GiveTokens
    <2>2. d.tables = View(w).tables
      BY <1>0, DatabaseFields
    <2> HIDE DEF d
    <2> QED
      BY <1>2, <2>1, <2>2
  <1>5. ASSUME NEW w \in Workers, AlterServer(w), ~Fail(w)  PROVE StagedTables'
    <2> DEFINE d == [View(w) EXCEPT !.server_token = "null"]
    <2>1. MayWrite(w) /\ WriteThrough(w, d)
      BY <1>5 DEF AlterServer
    <2>2. d.tables = View(w).tables
      BY <1>0, DatabaseFields
    <2> HIDE DEF d
    <2> QED
      BY <1>2, <2>1, <2>2
  <1>6. ASSUME NEW w \in Workers, FillServer(w)  PROVE StagedTables'
    <2> DEFINE d == [View(w) EXCEPT !.server_token = "set"]
    <2>1. MayWrite(w) /\ WriteInTransaction(w, d)
      BY <1>6 DEF FillServer
    <2>2. d.tables = View(w).tables
      BY <1>0, DatabaseFields
    <2> HIDE DEF d
    <2> QED
      BY <1>2, <2>1, <2>2
  <1>7. ASSUME NEW w \in Workers, CommitFirst(w) \/ DropTable(w)  PROVE StagedTables'
    BY <1>7 DEF CommitFirst, DropTable
  <1>8. ASSUME NEW w \in Workers, CreateTable(w), ~Fail(w)  PROVE StagedTables'
    BY <1>8 DEF CreateTable
  <1>9. ASSUME UNCHANGED database  PROVE StagedTables'
    BY <1>9
  <1>10. ASSUME NEW w \in Workers,
                Start(w) \/ ReadKey(w) \/ OpenKey(w) \/ WriteKey(w) \/ LookUser(w) \/ AskTable(w)
                \/ AskColumns(w) \/ AskServer(w)
         PROVE  UNCHANGED database
    BY <1>10 DEF Start, ReadKey, OpenKey, WriteKey, LookUser, AskTable, AskColumns, AskServer
  <1>11. ASSUME NEW w \in Workers, GiveUp(w)  PROVE Fail(w)
    BY <1>11 DEF GiveUp
  <1> QED
    BY <1>1, <1>3, <1>4, <1>5, <1>6, <1>7, <1>8, <1>9, <1>10, <1>11 DEF Next, Step, vars

\* A worker that is not down was started.
LEMMA LivesStep ==
    ASSUME TypeOK, Lives, [Next]_vars
    PROVE  Lives'
  <1> USE DEF key_vars
  <1>1. ASSUME NEW w \in Workers, Start(w)  PROVE Lives'
    BY <1>1, StartUpAssumption, PointsTyped DEF Start, Go, At, Lives, TypeOK
  <1>2. ASSUME NEW w \in Workers, ~At(w, "down"), UNCHANGED life,
               \A v \in Workers \ {w} : pc'[v] = pc[v]
        PROVE  Lives'
    BY <1>2 DEF Lives, At
  <1>3. ASSUME NEW w \in Workers, Step(w)
        PROVE  ~At(w, "down") /\ UNCHANGED life
    BY <1>3 DEF Step, ReadKey, OpenKey, WriteKey, LookUser, AskTable, CommitFirst, DropTable, CreateTable,
                AskColumns, AlterUser, GiveTokens, AskServer, AlterServer, FillServer, Commit, GiveUp, Fail, At
  <1>4. ASSUME NEW w \in Workers, Step(w), NEW v \in Workers \ {w}  PROVE pc'[v] = pc[v]
    BY <1>4 DEF Step, ReadKey, OpenKey, WriteKey, LookUser, AskTable, CommitFirst, DropTable, CreateTable,
                AskColumns, AlterUser, GiveTokens, AskServer, AlterServer, FillServer, Commit, GiveUp, Fail,
                Go, LookTable, After, TypeOK
  <1>5. ASSUME NEW w \in Workers, Kill(w)  PROVE Lives'
    BY <1>2, <1>5 DEF Kill, Go, TypeOK
  <1>6. CASE UNCHANGED vars
    BY <1>6 DEF vars, Lives, At
  <1> QED
    BY <1>1, <1>2, <1>3, <1>4, <1>5, <1>6 DEF Next

\* In calm times whoever starts may write, and the others serve or are down.
LEMMA OnlyStarter ==
    ASSUME IInv, CalmInv, calm, NEW w \in Workers, Starting(w)
    PROVE  /\ MayWrite(w)
           /\ \A v \in Workers \ {w} : pc[v].at \in {"down", "serving"} /\ writer # v
  <1>1. ASSUME NEW v \in Workers \ {w}  PROVE pc[v].at \in {"down", "serving"}
    BY <1>1 DEF CalmInv, Alone, Starting, Mended, At
  <1>2. writer # None => InTransaction(pc[writer]) /\ writer \in Workers
    BY DEF IInv, ColumnsInv, TypeOK
  <1>3. writer # None => pc[writer].at \notin {"down", "serving"}
    BY <1>2 DEF InTransaction
  <1> QED
    BY <1>1, <1>2, <1>3, StartUpAssumption DEF MayWrite

\* A worker that starts alone goes to p, and nothing is taken from the others.
LEMMA AloneKeeps ==
    ASSUME IInv, CalmInv, calm, NEW w \in Workers,
           \A v \in Workers \ {w} : pc[v].at \in {"down", "serving"},
           NEW p, pc' = [pc EXCEPT ![w] = p],
           \A v \in Workers \ {w} : key'[v] = key[v],
           keyFile' = keyFile \/ keyFile = NoKey,
           db.tables \subseteq db'.tables, "user" \in db'.tables => "user" \in db.tables,
           p.at # "failed", KeyTaken(p, key'[w], keyFile'), Had(p, db'.tables), Lacks(p, View(w)')
    PROVE  Alone' /\ \A v \in Workers : Mended(v)'
  <1>1. pc'[w] = p /\ \A v \in Workers \ {w} : pc'[v] = pc[v]
    BY DEF IInv, TypeOK
  <1>2. ASSUME NEW v \in Workers \ {w}  PROVE Mended(v)' /\ ~Starting(v)'
    <2>1. pc'[v] = pc[v] /\ pc[v].at \in {"down", "serving"} /\ Mended(v)
      BY <1>1, <1>2 DEF CalmInv
    <2>2. pc[v].table = 0
      BY <2>1, TablePoints DEF IInv, TypeOK
    <2>3. KeyTaken(pc[v], key[v], keyFile')
      BY <2>1 DEF Mended, KeyTaken
    <2>4. Had(pc[v], db'.tables)
      BY <2>1, <2>2 DEF Mended, Had
    <2>5. Lacks(pc[v], View(v)')
      BY <2>1 DEF Lacks
    <2> QED
      BY <2>1, <2>3, <2>4, <2>5 DEF Mended, At, Starting
  <1>3. Mended(w)'
    BY <1>1 DEF Mended, At
  <1>4. Alone'
    BY <1>2 DEF Alone
  <1> QED
    BY <1>2, <1>3, <1>4

\* The same for a step in the database, which leaves the key alone.
LEMMA MigrationKeeps ==
    ASSUME IInv, CalmInv, calm, NEW w \in Workers, Starting(w),
           pc[w].at \notin {"read", "open", "write"}, NEW p, pc' = [pc EXCEPT ![w] = p],
           UNCHANGED <<key, keyFile>>, db.tables \subseteq db'.tables,
           "user" \in db'.tables => "user" \in db.tables,
           p.at \notin {"failed", "open", "write"}, Had(p, db'.tables), Lacks(p, View(w)')
    PROVE  Alone' /\ \A v \in Workers : Mended(v)'
  <1>1. key[w] = keyFile /\ keyFile # NoKey
    BY DEF CalmInv, Mended, KeyTaken, Starting, At
  <1>2. KeyTaken(p, key'[w], keyFile')
    BY <1>1 DEF KeyTaken
  <1>3. \A v \in Workers \ {w} : pc[v].at \in {"down", "serving"}
    BY OnlyStarter
  <1> QED
    BY <1>2, <1>3, AloneKeeps

\* Where a step leads when a table is there, and what there is by then.
LEMMA TablesHad ==
    ASSUME NEW tables, NEW i \in 1..4, \A j \in 1..4 : j <= i => Tables[j] \in tables
    PROVE  /\ i = 1 => Had(Point("columns"), tables)
           /\ i = 4 => Had(Point("commit"), tables)
           /\ i < 4 => Had([at |-> "look", table |-> i + 1], tables)
  BY PointsTyped DEF Had

LEMMA NothingLacking ==
    /\ \A d : \A at \in {"down", "read", "open", "write", "user", "columns", "give_tokens", "server",
                         "fill_server", "commit", "serving", "failed"} : Lacks(Point(at), d)
    /\ \A d : \A i \in 1..4 : Lacks([at |-> "look", table |-> i], d)
  BY PointsTyped DEF Lacks

\* Before the tables are looked at.
LEMMA KeyHad ==
    \A tables : \A at \in {"down", "read", "open", "write", "user", "failed"} : Had(Point(at), tables)
  BY PointsTyped DEF Had

\* A worker goes on once table i is there.
LEMMA AfterKeeps ==
    ASSUME IInv, CalmInv, calm, NEW w \in Workers, Starting(w),
           pc[w].at \notin {"read", "open", "write"}, NEW i \in 1..4, After(w, i),
           UNCHANGED <<key, keyFile>>, db.tables \subseteq db'.tables,
           "user" \in db'.tables => "user" \in db.tables,
           \A j \in 1..4 : j <= i => Tables[j] \in db'.tables
    PROVE  Alone' /\ \A v \in Workers : Mended(v)'
  <1>1. CASE i = 1
    <2>1. pc' = [pc EXCEPT ![w] = Point("columns")] /\ Had(Point("columns"), db'.tables)
      BY <1>1, TablesHad DEF After, Go
    <2> QED
      BY <2>1, NothingLacking, PointsTyped, MigrationKeeps
  <1>2. CASE i = 4
    <2>1. pc' = [pc EXCEPT ![w] = Point("commit")] /\ Had(Point("commit"), db'.tables)
      BY <1>2, TablesHad, TableNames DEF After, Go
    <2> QED
      BY <2>1, NothingLacking, PointsTyped, MigrationKeeps
  <1>3. CASE i \in 2..3
    <2> DEFINE p == [at |-> "look", table |-> i + 1]
    <2>1. pc' = [pc EXCEPT ![w] = p]
      BY <1>3, TableNames DEF After, LookTable
    <2>2. Had(p, db'.tables)
      BY <1>3, TablesHad
    <2>3. Lacks(p, View(w)') /\ p.at \notin {"failed", "open", "write"}
      BY DEF Lacks
    <2> HIDE DEF p
    <2> QED
      BY <2>1, <2>2, <2>3, MigrationKeeps
  <1> QED
    BY <1>1, <1>2, <1>3
--------------------------------------------------------------------------------
LEMMA KeyCalm ==
    ASSUME IInv, CalmInv, calm, calm', NEW w \in Workers,
           Start(w) \/ ReadKey(w) \/ OpenKey(w) \/ WriteKey(w)
    PROVE  Alone' /\ \A v \in Workers : Mended(v)'
  <1> USE DEF database
  <1>0. key \in [Workers -> 0..MaxStarts] /\ life \in [Workers -> 0..MaxStarts]
    BY DEF IInv, TypeOK
  <1>1. CASE Start(w)
    <2>1. \A v \in Workers \ {w} : pc[v].at \in {"down", "serving"}
      BY <1>1 DEF Start, Starting, At, CalmInv, Mended
    <2>2. pc' = [pc EXCEPT ![w] = Point("read")] /\ UNCHANGED <<keyFile, db, key>>
      BY <1>1 DEF Start, Go
    <2>3. KeyTaken(Point("read"), key'[w], keyFile')
      BY PointsTyped DEF KeyTaken
    <2> QED
      BY <2>1, <2>2, <2>3, PointsTyped, KeyHad, NothingLacking, AloneKeeps
  <1>2. ASSUME ReadKey(w) \/ OpenKey(w) \/ WriteKey(w)
        PROVE  /\ \A v \in Workers \ {w} : pc[v].at \in {"down", "serving"}
               /\ UNCHANGED <<db, calm>> /\ KeyTaken(pc[w], key[w], keyFile)
    <2>1. Starting(w)
      BY <1>2 DEF ReadKey, OpenKey, WriteKey, Starting, At
    <2> QED
      BY <1>2, <2>1, OnlyStarter DEF ReadKey, OpenKey, WriteKey, CalmInv, Mended
  <1>3. CASE ReadKey(w)
    <2>1. CASE keyFile = NoKey
      <3>1. pc' = [pc EXCEPT ![w] = Point("open")] /\ UNCHANGED <<keyFile, key>>
        BY <1>3, <2>1 DEF ReadKey, Go
      <3>2. KeyTaken(Point("open"), key'[w], keyFile')
        BY <2>1, <3>1, PointsTyped DEF KeyTaken
      <3> QED
        BY <1>2, <1>3, <3>1, <3>2, PointsTyped, KeyHad, NothingLacking, AloneKeeps
    <2>2. CASE keyFile # NoKey
      <3>1. pc' = [pc EXCEPT ![w] = Point("user")] /\ key' = [key EXCEPT ![w] = keyFile] /\ UNCHANGED keyFile
        BY <1>3, <2>2 DEF ReadKey, Go
      <3>2. KeyTaken(Point("user"), key'[w], keyFile') /\ \A v \in Workers \ {w} : key'[v] = key[v]
        BY <1>0, <2>2, <3>1, PointsTyped DEF KeyTaken
      <3> QED
        BY <1>2, <1>3, <3>1, <3>2, PointsTyped, KeyHad, NothingLacking, AloneKeeps
    <2> QED
      BY <2>1, <2>2
  <1>4. CASE OpenKey(w)
    <2>1. keyFile = NoKey /\ keyFile' = NoKey /\ UNCHANGED key /\ pc' = [pc EXCEPT ![w] = Point("write")]
      BY <1>2, <1>4 DEF OpenKey, At, Go, KeyTaken
    <2>2. KeyTaken(Point("write"), key'[w], keyFile')
      BY <2>1, PointsTyped DEF KeyTaken
    <2> QED
      BY <1>2, <1>4, <2>1, <2>2, PointsTyped, KeyHad, NothingLacking, AloneKeeps
  <1>5. CASE WriteKey(w)
    <2>1. /\ keyFile = NoKey /\ keyFile' = life[w] /\ key' = [key EXCEPT ![w] = life[w]]
          /\ pc' = [pc EXCEPT ![w] = Point("user")]
      BY <1>2, <1>5 DEF WriteKey, At, Go, KeyTaken
    <2>2. life[w] # NoKey
      BY <1>5 DEF WriteKey, CalmInv, Lives, At, NoKey
    <2>3. KeyTaken(Point("user"), key'[w], keyFile') /\ \A v \in Workers \ {w} : key'[v] = key[v]
      BY <1>0, <2>1, <2>2, PointsTyped DEF KeyTaken
    <2> QED
      BY <1>2, <1>5, <2>1, <2>3, PointsTyped, KeyHad, NothingLacking, AloneKeeps
  <1> QED
    BY <1>1, <1>3, <1>4, <1>5

\* What a worker in migrate() relies on in calm times.
LEMMA MigratingCalm ==
    ASSUME IInv, CalmInv, calm, NEW w \in Workers, Starting(w),
           pc[w].at \notin {"read", "open", "write"}
    PROVE  /\ MayWrite(w) /\ View(w) \in Database /\ View(w).tables = db.tables
           /\ writer # w => View(w) = db
           /\ Had(pc[w], db.tables) /\ Lacks(pc[w], View(w))
           /\ pc[w].at \in {"look", "drop", "create"} =>
                 /\ pc[w].table \in 1..4
                 /\ \A j \in 1..4 : j < pc[w].table => Tables[j] \in db.tables
  <1>1. MayWrite(w)
    BY OnlyStarter
  <1>2. Mended(w)
    BY DEF CalmInv
  <1>3. View(w) \in Database /\ View(w).tables = db.tables /\ (writer # w => View(w) = db)
    BY StartUpAssumption DEF IInv, TypeOK, View, CalmInv, StagedTables
  <1>4. pc[w].at \in {"look", "drop", "create"} => pc[w].table \in 1..4
    BY TablePoints DEF IInv, TypeOK
  <1> QED
    BY <1>1, <1>2, <1>3, <1>4 DEF Mended, Had

LEMMA LookCalm ==
    ASSUME IInv, CalmInv, calm, NEW w \in Workers, LookUser(w) \/ AskTable(w) \/ AskColumns(w) \/ AskServer(w)
    PROVE  Alone' /\ \A v \in Workers : Mended(v)'
  <1> USE DEF database, key_vars
  <1>1. Starting(w) /\ pc[w].at \notin {"read", "open", "write"}
    BY DEF LookUser, AskTable, AskColumns, AskServer, Starting, At
  <1>2. /\ View(w).tables = db.tables /\ Had(pc[w], db.tables)
        /\ pc[w].at = "look" =>
              /\ pc[w].table \in 1..4
              /\ \A j \in 1..4 : j < pc[w].table => Tables[j] \in db.tables
    BY <1>1, MigratingCalm
  <1>3. UNCHANGED <<db, key, keyFile>> /\ View(w)' = View(w)
    BY DEF LookUser, AskTable, AskColumns, AskServer, View
  <1>4. CASE LookUser(w)
    <2>1. CASE "user" \in View(w).tables
      <3> DEFINE p == [at |-> "look", table |-> 1]
      <3>1. pc' = [pc EXCEPT ![w] = p]
        BY <1>4, <2>1 DEF LookUser, LookTable
      <3>2. Had(p, db'.tables) /\ Lacks(p, View(w)') /\ p.at \notin {"failed", "open", "write"}
        BY DEF Had, Lacks
      <3> HIDE DEF p
      <3> QED
        BY <1>1, <1>3, <3>1, <3>2, MigrationKeeps
    <2>2. CASE "user" \notin View(w).tables
      <3>1. pc' = [pc EXCEPT ![w] = Point("serving")]
        BY <1>4, <2>2 DEF LookUser, Go
      <3>2. Had(Point("serving"), db'.tables)
        BY <1>2, <1>3, <2>2, PointsTyped DEF Had
      <3> QED
        BY <1>1, <1>3, <3>1, <3>2, PointsTyped, NothingLacking, MigrationKeeps
    <2> QED
      BY <2>1, <2>2
  <1>5. CASE AskTable(w)
    <2> DEFINE i == pc[w].table
    <2>1. i \in 1..4 /\ \A j \in 1..4 : j < i => Tables[j] \in db.tables
      BY <1>2, <1>5 DEF AskTable, At
    <2>2. CASE Tables[i] \in View(w).tables
      <3>1. \A j \in 1..4 : j <= i => Tables[j] \in db'.tables
        BY <1>2, <1>3, <2>1, <2>2
      <3>2. After(w, i)
        BY <1>5, <2>2 DEF AskTable
      <3> HIDE DEF i
      <3> QED
        BY <1>1, <1>3, <2>1, <3>1, <3>2, AfterKeeps
    <2>3. CASE Tables[i] \notin View(w).tables
      <3> DEFINE p == [at |-> "drop", table |-> i]
      <3>1. [pc[w] EXCEPT !.at = "drop"] = p
        BY <1>5, TablePoints DEF AskTable, At, IInv, TypeOK
      <3>2. pc' = [pc EXCEPT ![w] = p]
        BY <1>5, <2>3, <3>1 DEF AskTable
      <3>3. Had(p, db'.tables)
        BY <1>3, <2>1 DEF Had
      <3>4. Lacks(p, View(w)') /\ p.at \notin {"failed", "open", "write"}
        BY <1>3, <2>3 DEF Lacks
      <3> HIDE DEF p, i
      <3> QED
        BY <1>1, <1>3, <3>2, <3>3, <3>4, MigrationKeeps
    <2> QED
      BY <2>2, <2>3
  <1>6. CASE AskColumns(w)
    <2> DEFINE at == IF View(w).apitoken THEN "server" ELSE "alter_user"
    <2>1. pc' = [pc EXCEPT ![w] = Point(at)] /\ at \in {"server", "alter_user"}
      BY <1>6 DEF AskColumns, Go
    <2>2. Had(Point(at), db'.tables)
      BY <1>2, <1>3, <1>6, <2>1, PointsTyped DEF AskColumns, At, Had
    <2>3. Lacks(Point(at), View(w)')
      BY <1>3, <2>1, PointsTyped DEF Lacks
    <2>4. Point(at).at \notin {"failed", "open", "write"}
      BY <2>1, PointsTyped
    <2> HIDE DEF at
    <2> QED
      BY <1>1, <1>3, <2>1, <2>2, <2>3, <2>4, MigrationKeeps
  <1>7. CASE AskServer(w)
    <2>1. Tables[1] \in db.tables
      BY <1>2, <1>7 DEF AskServer, At, Had
    <2>2. CASE View(w).server_token = "absent"
      <3>1. pc' = [pc EXCEPT ![w] = Point("alter_server")]
        BY <1>7, <2>2 DEF AskServer, Go
      <3>2. Had(Point("alter_server"), db'.tables) /\ Lacks(Point("alter_server"), View(w)')
        BY <1>3, <2>1, <2>2, PointsTyped DEF Had, Lacks
      <3> QED
        BY <1>1, <1>3, <3>1, <3>2, PointsTyped, MigrationKeeps
    <2>3. CASE View(w).server_token # "absent"
      <3> DEFINE p == [at |-> "look", table |-> 2]
      <3>1. pc' = [pc EXCEPT ![w] = p]
        BY <1>7, <2>3 DEF AskServer, LookTable
      <3>2. Had(p, db'.tables) /\ Lacks(p, View(w)') /\ p.at \notin {"failed", "open", "write"}
        BY <1>3, <2>1 DEF Had, Lacks
      <3> HIDE DEF p
      <3> QED
        BY <1>1, <1>3, <3>1, <3>2, MigrationKeeps
    <2> QED
      BY <2>2, <2>3
  <1> QED
    BY <1>4, <1>5, <1>6, <1>7
LEMMA ScriptCalm ==
    ASSUME IInv, CalmInv, calm, NEW w \in Workers, CommitFirst(w) \/ DropTable(w) \/ CreateTable(w)
    PROVE  Alone' /\ \A v \in Workers : Mended(v)'
  <1> USE DEF database, key_vars
  <1> DEFINE i == pc[w].table
  <1>1. Starting(w) /\ pc[w].at \in {"drop", "create"}
    BY DEF CommitFirst, DropTable, CreateTable, Starting, At
  <1>2. /\ View(w).tables = db.tables /\ i \in 1..4 /\ \A j \in 1..4 : j < i => Tables[j] \in db.tables
        /\ Had(pc[w], db.tables) /\ Lacks(pc[w], View(w)) /\ Tables[i] \notin db.tables
    BY <1>1, MigratingCalm DEF Lacks
  <1>3. CASE CommitFirst(w)
    <2>1. db' = staged /\ View(w)' = View(w) /\ UNCHANGED <<key, keyFile>> /\ staged.tables = db.tables
      BY <1>2, <1>3, StartUpAssumption DEF CommitFirst, View
    <2>2. pc' = [pc EXCEPT ![w] = pc[w]]
      BY <1>3 DEF CommitFirst, IInv, TypeOK
    <2>3. Had(pc[w], db'.tables) /\ Lacks(pc[w], View(w)') /\ pc[w].at \notin {"failed", "open", "write"}
      BY <1>1, <1>2, <2>1
    <2> HIDE DEF i
    <2> QED
      BY <1>1, <2>1, <2>2, <2>3, MigrationKeeps
  <1>4. CASE DropTable(w)
    <2> DEFINE p == [at |-> "create", table |-> i]
    <2>1. db'.tables = db.tables \ {Tables[i]} /\ writer' = None /\ UNCHANGED <<key, keyFile>>
      BY <1>4, DatabaseFields DEF DropTable, IInv, TypeOK
    <2>2. db'.tables = db.tables /\ View(w)'.tables = db.tables
      BY <1>2, <2>1, StartUpAssumption DEF View
    <2>3. [pc[w] EXCEPT !.at = "create"] = p
      BY <1>1, TablePoints DEF IInv, TypeOK
    <2>4. pc' = [pc EXCEPT ![w] = p]
      BY <1>4, <2>3 DEF DropTable
    <2>5. Had(p, db'.tables)
      BY <1>2, <2>2 DEF Had
    <2>6. Lacks(p, View(w)') /\ p.at \notin {"failed", "open", "write"}
      BY <1>2, <2>2 DEF Lacks
    <2> HIDE DEF p, i
    <2> QED
      BY <1>1, <2>1, <2>2, <2>4, <2>5, <2>6, MigrationKeeps
  <1>5. CASE CreateTable(w)
    <2>1. After(w, i) /\ db' = [db EXCEPT !.tables = @ \cup {Tables[i]}] /\ UNCHANGED <<key, keyFile>>
      BY <1>2, <1>5 DEF CreateTable
    <2>2. db'.tables = db.tables \cup {Tables[i]}
      BY <2>1, DatabaseFields DEF IInv, TypeOK
    <2>3. "user" \in db'.tables => "user" \in db.tables
      BY <1>2, <2>2, TableNames
    <2>4. \A j \in 1..4 : j <= i => Tables[j] \in db'.tables
      BY <1>2, <2>2
    <2>5. db.tables \subseteq db'.tables /\ i \in 1..4 /\ pc[w].at \notin {"read", "open", "write"}
      BY <1>1, <1>2, <2>2
    <2> HIDE DEF i
    <2> QED
      BY <1>1, <2>1, <2>3, <2>4, <2>5, AfterKeeps
  <1> QED
    BY <1>3, <1>4, <1>5

\* A worker writes what it read with the same tables, and goes to p.
LEMMA WriteKeeps ==
    ASSUME IInv, CalmInv, calm, NEW w \in Workers, Starting(w),
           pc[w].at \notin {"read", "open", "write"}, NEW p, pc' = [pc EXCEPT ![w] = p],
           UNCHANGED <<key, keyFile>>, NEW d, d.tables = View(w).tables,
           WriteThrough(w, d) \/ WriteInTransaction(w, d),
           p.at \notin {"failed", "open", "write"}, Had(p, db.tables), Lacks(p, d)
    PROVE  Alone' /\ \A v \in Workers : Mended(v)'
  <1>1. MayWrite(w) /\ View(w).tables = db.tables
    BY MigratingCalm
  <1>2. View(w)' = d /\ db'.tables = db.tables
    BY <1>1, StartUpAssumption DEF View, MayWrite, WriteThrough, WriteInTransaction
  <1> QED
    BY <1>2, MigrationKeeps

LEMMA AlterCalm ==
    ASSUME IInv, CalmInv, calm, NEW w \in Workers,
           AlterUser(w) \/ GiveTokens(w) \/ AlterServer(w) \/ FillServer(w)
    PROVE  Alone' /\ \A v \in Workers : Mended(v)'
  <1> USE DEF database, key_vars
  <1>1. Starting(w) /\ pc[w].at \in {"alter_user", "give_tokens", "alter_server", "fill_server"}
    BY DEF AlterUser, GiveTokens, AlterServer, FillServer, Starting, At
  <1>2. /\ View(w) \in Database /\ View(w).tables = db.tables
        /\ Tables[1] \in db.tables /\ Lacks(pc[w], View(w))
    BY <1>1, MigratingCalm DEF Had
  <1>3. \A at \in {"give_tokens", "server", "fill_server"} :
            /\ Had(Point(at), db.tables) /\ \A d : Lacks(Point(at), d)
            /\ Point(at).at \notin {"failed", "open", "write"}
    BY <1>2, PointsTyped, NothingLacking DEF Had
  <1>4. CASE AlterUser(w)
    <2> DEFINE d == [View(w) EXCEPT !.apitoken = TRUE]
    <2>1. ~View(w).apitoken
      BY <1>2, <1>4 DEF AlterUser, At, Lacks
    <2>2. WriteThrough(w, d) /\ UNCHANGED <<key, keyFile>> /\ pc' = [pc EXCEPT ![w] = Point("give_tokens")]
      BY <1>4, <2>1 DEF AlterUser, Go
    <2>3. d.tables = View(w).tables
      BY <1>2, DatabaseFields
    <2> HIDE DEF d
    <2> QED
      BY <1>1, <1>3, <2>2, <2>3, WriteKeeps
  <1>5. CASE GiveTokens(w)
    <2> DEFINE d == [View(w) EXCEPT !.tokens = [u \in Users |-> life[w]]]
    <2>1. UNCHANGED <<key, keyFile>> /\ pc' = [pc EXCEPT ![w] = Point("server")]
      BY <1>5 DEF GiveTokens, Go
    <2>2. CASE Users = {}
      <3>1. db' = db
        BY <1>5, <2>2 DEF GiveTokens
      <3> QED
        BY <1>1, <1>3, <2>1, <3>1, MigrationKeeps
    <2>3. CASE Users # {}
      <3>1. WriteInTransaction(w, d)
        BY <1>5, <2>3 DEF GiveTokens
      <3>2. d.tables = View(w).tables
        BY <1>2, DatabaseFields
      <3> HIDE DEF d
      <3> QED
        BY <1>1, <1>3, <2>1, <3>1, <3>2, WriteKeeps
    <2> QED
      BY <2>2, <2>3
  <1>6. CASE AlterServer(w)
    <2> DEFINE d == [View(w) EXCEPT !.server_token = "null"]
    <2>1. View(w).server_token = "absent"
      BY <1>2, <1>6 DEF AlterServer, At, Lacks
    <2>2. WriteThrough(w, d) /\ UNCHANGED <<key, keyFile>> /\ pc' = [pc EXCEPT ![w] = Point("fill_server")]
      BY <1>6, <2>1 DEF AlterServer, Go
    <2>3. d.tables = View(w).tables
      BY <1>2, DatabaseFields
    <2> HIDE DEF d
    <2> QED
      BY <1>1, <1>3, <2>2, <2>3, WriteKeeps
  <1>7. CASE FillServer(w)
    <2> DEFINE d == [View(w) EXCEPT !.server_token = "set"]
               p == [at |-> "look", table |-> 2]
    <2>1. WriteInTransaction(w, d) /\ UNCHANGED <<key, keyFile>> /\ pc' = [pc EXCEPT ![w] = p]
      BY <1>7 DEF FillServer, LookTable
    <2>2. d.tables = View(w).tables
      BY <1>2, DatabaseFields
    <2>3. Had(p, db.tables) /\ Lacks(p, d) /\ p.at \notin {"failed", "open", "write"}
      BY <1>2 DEF Had, Lacks
    <2> HIDE DEF d, p
    <2> QED
      BY <1>1, <2>1, <2>2, <2>3, WriteKeeps
  <1> QED
    BY <1>4, <1>5, <1>6, <1>7

LEMMA CommitCalm ==
    ASSUME IInv, CalmInv, calm, NEW w \in Workers, Commit(w)
    PROVE  Alone' /\ \A v \in Workers : Mended(v)'
  <1>1. Starting(w) /\ pc[w].at = "commit"
    BY DEF Commit, Starting, At
  <1>2. View(w).tables = db.tables /\ \A i \in 1..4 : Tables[i] \in db.tables
    BY <1>1, MigratingCalm DEF Had
  <1>3. db'.tables = db.tables /\ UNCHANGED <<key, keyFile>> /\ pc' = [pc EXCEPT ![w] = Point("serving")]
    BY <1>2 DEF Commit, View, Go, key_vars
  <1>4. Had(Point("serving"), db'.tables) /\ Point("serving").at \notin {"failed", "open", "write"}
    BY <1>2, <1>3, PointsTyped DEF Had
  <1> QED
    BY <1>1, <1>3, <1>4, NothingLacking, MigrationKeeps

LEMMA KillCalm ==
    ASSUME IInv, CalmInv, calm, NEW w \in Workers, Kill(w)
    PROVE  Alone' /\ \A v \in Workers : Mended(v)'
  <1>1. pc'[w] = Point("down") /\ UNCHANGED <<db, staged, key, keyFile>>
    BY DEF Kill, Go, key_vars, IInv, TypeOK
  <1>2. Mended(w)'
    BY <1>1, PointsTyped, KeyHad, NothingLacking DEF Mended, At, KeyTaken
  <1>3. ASSUME NEW v \in Workers \ {w}
        PROVE  pc'[v] = pc[v] /\ View(v)' = View(v)
    BY <1>1, <1>3, StartUpAssumption DEF Kill, Go, View, IInv, TypeOK
  <1>4. ASSUME NEW v \in Workers \ {w}  PROVE Mended(v)'
    <2>1. Mended(v)
      BY DEF CalmInv
    <2> QED
      BY <1>1, <1>3, <2>1 DEF Mended, At
  <1>5. Alone'
    BY <1>1, <1>3, PointsTyped DEF CalmInv, Alone, Starting, At
  <1> QED
    BY <1>2, <1>4, <1>5

LEMMA CalmStep ==
    ASSUME IInv, CalmInv, [Next]_vars
    PROVE  CalmInv'
  <1>1. StagedTables' /\ Lives'
    BY StagedStep, LivesStep DEF CalmInv, IInv
  <1>2. ASSUME calm'  PROVE calm
    BY <1>2 DEF Next, Step, vars, key_vars, Start, ReadKey, OpenKey, WriteKey, LookUser, AskTable,
                CommitFirst, DropTable, CreateTable, AskColumns, AlterUser, GiveTokens, AskServer,
                AlterServer, FillServer, Commit, GiveUp, Fail, Kill
  <1>3. ASSUME calm'  PROVE Alone' /\ \A v \in Workers : Mended(v)'
    <2>1. calm
      BY <1>2, <1>3
    <2>2. ASSUME NEW w \in Workers, GiveUp(w)  PROVE FALSE
      <3>1. Starting(w) /\ ~MayWrite(w)
        BY <2>2 DEF GiveUp, Starting, At
      <3> QED
        BY <2>1, <3>1, OnlyStarter
    <2>3. CASE UNCHANGED vars
      BY <2>1, <2>3 DEF vars, CalmInv, Alone, Mended, Starting, At, View
    <2> QED
      BY <1>3, <2>1, <2>2, <2>3, KeyCalm, LookCalm, ScriptCalm, AlterCalm, CommitCalm, KillCalm DEF Next, Step
  <1> QED
    BY <1>1, <1>3 DEF CalmInv

LEMMA InitCalm == Init => CalmInv
  <1> SUFFICES ASSUME Init  PROVE CalmInv
    OBVIOUS
  <1> USE DEF Init
  <1>1. StagedTables /\ Lives
    BY PointsTyped DEF StagedTables, Lives, At
  <1>2. Alone
    BY PointsTyped DEF Alone, Starting, At
  <1>3. \A w \in Workers : Mended(w)
    BY PointsTyped, KeyHad, NothingLacking DEF Mended, At, KeyTaken
  <1> QED
    BY <1>1, <1>2, <1>3 DEF CalmInv

\* In calm times whoever starts is alone, finds the key file and the tables as it looked at
\* them, and makes only what is missing (load_or_create_secret_key, migrate).
THEOREM CalmInvariant == Spec => []CalmInv
  <1>1. IInv /\ CalmInv /\ [Next]_vars => CalmInv'
    BY CalmStep
  <1> QED
    BY InitCalm, <1>1, StartUpInvariant, PTL DEF Spec

\* As long as workers start one after the other, wherever they are killed, every worker that
\* serves signs with the key on disk and has every table, and no start fails (create_app).
THEOREM CalmAlwaysRepairs == Spec => []CalmStartsRepair
  <1>1. CalmInv => CalmStartsRepair
    <2> SUFFICES ASSUME CalmInv, calm  PROVE OneKey /\ Complete /\ \A w \in Workers : ~At(w, "failed")
      BY DEF CalmStartsRepair
    <2>1. \A w \in Workers : Mended(w)
      BY DEF CalmInv
    <2>2. OneKey
      BY <2>1 DEF OneKey, Mended, KeyTaken, At
    <2>3. Complete
      BY <2>1, TableNames DEF Complete, Mended, Had, At, initialised
    <2> QED
      BY <2>1, <2>2, <2>3 DEF Mended
  <1> QED
    BY <1>1, CalmInvariant, PTL
================================================================================
