----------------------------- MODULE LoginThrottle -----------------------------
(***************************************************************************)
(* The metering of failed logins and of wrong registration tokens (db.py,  *)
(* views/authentication.py): a request asks how many failures its address  *)
(* has in the trailing window, tries its secret, and records a failure or, *)
(* after a login, forgets the failures under its name.  The three are      *)
(* separate statements: requests of all threads and workers interleave     *)
(* between them, and seconds pass.                                         *)
(*                                                                         *)
(* A row of login_attempt is its address, its name and its age; only how   *)
(* far it lies behind the clock is ever asked, so the clock itself needs   *)
(* no bound.  Ages past Window are all alike.  The names differ from those *)
(* of Accounts, so that one module can extend both.                        *)
(***************************************************************************)
EXTENDS Integers, FiniteSets

CONSTANTS
    Addresses, Usernames,
    Callers,        \* requests: as many as the threads of all workers can answer at once
    Limit, Window,  \* LOGIN_ATTEMPT_LIMIT, LOGIN_ATTEMPT_WINDOW in ticks of the clock
    NoRequest       \* a caller's place is free

ASSUME LimitAndWindow == Limit \in Nat \ {0} /\ Window \in Nat \ {0}
ASSUME CallersAssumption == IsFiniteSet(Callers)

\* what a wrong registration token is recorded under: no login carries it
registration_token_attempt(name) == <<"register", name>>
Recorded == {<<"login", n>> : n \in Usernames} \cup {registration_token_attempt(n) : n \in Usernames}
Ages == 0..Window + 1

VARIABLES
    login_attempt,   \* how many rows there are of each address, name and age
    request          \* what each request asks and how far it is, or NoRequest

throttle_vars == <<login_attempt, request>>

Rows == Addresses \X Recorded \X Ages
Ask == [addr : Addresses, as : Recorded, at : {"ask", "try", "record", "clear"}]

ThrottleTypeOK ==
    /\ login_attempt \in [Rows -> Nat]
    /\ request \in [Callers -> Ask \cup {NoRequest}]

ThrottleInit ==
    /\ login_attempt = [row \in Rows |-> 0]
    /\ request = [r \in Callers |-> NoRequest]

At(r, at) == request[r] # NoRequest /\ request[r].at = at
GoOn(r, at) == request' = [request EXCEPT ![r].at = at]
Answered(r) == request' = [request EXCEPT ![r] = NoRequest]

\* attempted_at >= now - Window
InWindow(age) == age <= Window

\* SELECT COUNT( * ): how many attempts those rows are.
Count(attempts, rows) == Cardinality(UNION {{row} \X (1..attempts[row]) : row \in rows})
RowsOf(addr, recorded, ages) == {addr} \X recorded \X ages

\* Mutant: the window is left to the pruning.
CountAll(addr) == Count(login_attempt, RowsOf(addr, Recorded, Ages))
\* count_recent_login_failures(remote_addr); the count for one name is only logged
count_recent_login_failures(addr) ==
    Count(login_attempt, RowsOf(addr, Recorded, {age \in Ages : InWindow(age)}))

\* Mutant: one attempt too many.
ThrottledPastLimit(addr) == count_recent_login_failures(addr) > Limit
login_is_throttled(addr) == count_recent_login_failures(addr) >= Limit
--------------------------------------------------------------------------------
\* a POST to /login, or one to /register that needs a token
Post(r) ==
    /\ request[r] = NoRequest
    /\ \E addr \in Addresses, as \in Recorded :
          request' = [request EXCEPT ![r] = [addr |-> addr, as |-> as, at |-> "ask"]]
    /\ UNCHANGED login_attempt

\* _throttled: before the secret is looked at
AskThrottle(r) ==
    /\ At(r, "ask")
    /\ IF login_is_throttled(request[r].addr) THEN Answered(r) ELSE GoOn(r, "try")
    /\ UNCHANGED login_attempt

\* check_password_hash, or the comparison of the token; a right token is a
\* registration, which records nothing and clears nothing
Try(r) ==
    /\ At(r, "try")
    /\ \/ GoOn(r, "record")
       \/ request[r].as[1] = "login" /\ GoOn(r, "clear")
       \/ request[r].as[1] = "register" /\ Answered(r)
    /\ UNCHANGED login_attempt

\* DELETE ... WHERE attempted_at < now - Window: of every address
Prune(attempts) == [row \in Rows |-> IF InWindow(row[3]) THEN attempts[row] ELSE 0]

\* record_failed_login: the row and the pruning in one transaction
record_failed_login(r) ==
    /\ At(r, "record")
    /\ login_attempt' = Prune([login_attempt EXCEPT ![<<request[r].addr, request[r].as, 0>>] = @ + 1])
    /\ Answered(r)

\* Mutant: a login clears every failure of its address.
WithoutAddress(attempts, addr, as) == [row \in Rows |-> IF row[1] = addr THEN 0 ELSE attempts[row]]
\* what DELETE ... WHERE remote_addr = ? AND username = ? leaves
Without(attempts, addr, as) ==
    [row \in Rows |-> IF row[1] = addr /\ row[2] = as THEN 0 ELSE attempts[row]]

clear_login_failures(r) ==
    /\ At(r, "clear")
    /\ login_attempt' = Without(login_attempt, request[r].addr, request[r].as)
    /\ Answered(r)

\* a second passes
Younger(row) == <<row[1], row[2], row[3] - 1>>
Older(attempts) ==
    [row \in Rows |-> (IF row[3] = 0 THEN 0 ELSE attempts[Younger(row)])
                       + (IF InWindow(row[3]) THEN 0 ELSE attempts[row])]
Tick == login_attempt' = Older(login_attempt) /\ UNCHANGED request

\* the worker is killed before it has answered
Killed(r) == request[r] # NoRequest /\ Answered(r) /\ UNCHANGED login_attempt

Answers(r) == AskThrottle(r) \/ Try(r) \/ record_failed_login(r) \/ clear_login_failures(r)
ThrottleNext == Tick \/ \E r \in Callers : Post(r) \/ Answers(r) \/ Killed(r)

ThrottleSpec == ThrottleInit /\ [][ThrottleNext]_throttle_vars

\* Time passes, whatever the requests do.
FairThrottleSpec == ThrottleSpec /\ WF_throttle_vars(Tick)
--------------------------------------------------------------------------------
\* "there is no state to clear or unlock": the failures an address can have in
\* the window never pass the limit by more than the requests that were let
\* through together, although asking, trying and recording are three steps.
Trying(addr) == {r \in Callers : request[r] # NoRequest /\ request[r].addr = addr
                                    /\ request[r].at \in {"try", "record"}}
WithinBudget ==
    \A addr \in Addresses :
        count_recent_login_failures(addr) + Cardinality(Trying(addr)) < Limit + Cardinality(Callers)

\* A failure that still counts is forgotten only by a login from its address
\* under its name: not by pruning, not by a login of another account, and a
\* wrong registration token by no login at all.
Outstanding(attempts, addr, as) == Count(attempts, RowsOf(addr, {as}, 0..Window))
ForgottenFairly ==
    [][\A addr \in Addresses, as \in Recorded :
          \/ Outstanding(login_attempt', addr, as) >= Outstanding(login_attempt, addr, as)
          \/ login_attempt' = Older(login_attempt)
          \/ as[1] = "login" /\ \E r \in Callers :
                /\ At(r, "clear") /\ request'[r] = NoRequest
                /\ request[r].addr = addr /\ request[r].as = as]_throttle_vars

\* "a block expires on its own": a throttled address is let in again, whatever
\* the other addresses and names do meanwhile.
BlockExpires == \A addr \in Addresses : login_is_throttled(addr) ~> ~login_is_throttled(addr)
================================================================================
