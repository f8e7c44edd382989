------------------------------ MODULE AccountStore ------------------------------
(***************************************************************************)
(* What the account tables promise, whatever requests are in flight: every *)
(* change of an account is one atomic step of one of the kinds below.      *)
(* Accounts implements it with requests that read a row, hold a copy, and  *)
(* write later.                                                            *)
(*                                                                         *)
(* `spent` is every token and salt the table ever held.                    *)
(***************************************************************************)
EXTENDS AccountData

VARIABLES user, seq, server, spent

vars == <<user, seq, server, spent>>

Init ==
    /\ user \in InitialTables
    /\ seq = IF IsFirstUser(user) THEN 0 ELSE LastId
    /\ server \in IF IsFirstUser(user) THEN {None} ELSE InitialSettings
    /\ spent = Secrets(user)

Put(i, row) ==
    /\ user' = [user EXCEPT ![i] = row]
    /\ spent' = spent \cup Secrets(user')

\* The first account ever, and the server settings with it.
Found(row, settings) ==
    /\ IsFirstUser(user) /\ seq = 0
    /\ row.role = "admin"
    /\ {row.token, row.hash.salt} \cap spent = {}
    /\ Put(1, row)
    /\ seq' = 1
    /\ server' = settings

\* Every later account: a new id, a name nobody has, no rights yet.
Enroll(row) ==
    /\ server # None /\ server.mode = "multi"
    /\ seq < MaxId
    /\ row.role = "pending"
    /\ ~NameTaken(user, row.name, seq + 1)
    /\ {row.token, row.hash.salt} \cap spent = {}
    /\ Put(seq + 1, row)
    /\ seq' = seq + 1
    /\ UNCHANGED server

Rename(i, n) ==
    /\ user[i] # None
    /\ ~NameTaken(user, n, i)
    /\ Put(i, [user[i] EXCEPT !.name = n])
    /\ UNCHANGED <<seq, server>>

\* A new password always brings a new token.
SetPassword(i, hash, token) ==
    /\ user[i] # None
    /\ {hash.salt, token} \cap spent = {}
    /\ Put(i, [user[i] EXCEPT !.hash = hash, !.token = token])
    /\ UNCHANGED <<seq, server>>

\* The same password on the current hashing method.
Rehash(i, hash) ==
    /\ user[i] # None
    /\ user[i].hash.method = "old" /\ hash.method = "current"
    /\ user[i].hash.pw = hash.pw
    /\ hash.salt \notin spent
    /\ Put(i, [user[i] EXCEPT !.hash = hash])
    /\ UNCHANGED <<seq, server>>

RotateToken(i, token) ==
    /\ user[i] # None
    /\ token \notin spent
    /\ Put(i, [user[i] EXCEPT !.token = token])
    /\ UNCHANGED <<seq, server>>

SetRole(i, role) ==
    /\ i # 1 /\ user[i] # None
    /\ Put(i, [user[i] EXCEPT !.role = role])
    /\ UNCHANGED <<seq, server>>

Remove(i) ==
    /\ i # 1
    /\ Put(i, None)
    /\ UNCHANGED <<seq, server>>

\* Some account changes, to the row it then has.
Next ==
    \E i \in Ids :
        LET row == user'[i] IN
        \/ Remove(i)
        \/ /\ row \in Row
           /\ \/ i = 1 /\ server' \in Settings /\ Found(row, server')
              \/ i = seq + 1 /\ Enroll(row)
              \/ Rename(i, row.name)
              \/ SetPassword(i, row.hash, row.token)
              \/ Rehash(i, row.hash)
              \/ RotateToken(i, row.token)
              \/ SetRole(i, row.role)

Spec == Init /\ [][Next]_vars
================================================================================
