------------------------------- MODULE MCAccounts -------------------------------
(***************************************************************************)
(* Small instances of Accounts.                                            *)
(***************************************************************************)
EXTENDS Accounts, TLC

MCNames == {"ann", "Ann", "bob", "bo", "Bo"}
MCFold  == [n \in MCNames |-> CASE n = "Ann" -> "ann" [] n = "Bo" -> "bo" [] OTHER -> n]

Account(name, pw, method, role, n) ==
    [name |-> name, hash |-> [pw |-> pw, method |-> method, salt |-> 2 * n],
     role |-> role, token |-> 2 * n - 1]

Empty == {[i \in Ids |-> None]}

\* An instance with an admin and a visitor whose hash predates an upgrade.
Established == {[i \in Ids |->
    CASE i = 1 -> Account("ann", "p", "current", "admin", 1)
      [] i = 2 -> Account("bob", "p", "old", "visitor", 2)
      [] OTHER -> None]}

Open   == [mode |-> "multi", regtoken |-> "t"]
Single == [mode |-> "single", regtoken |-> ""]

RegisterAsks(names, setups) ==
    [op : {"register"}, name : names, pw : {"p"}, regtoken : {"", "t"}, setup : setups]

\* Two first registrations, later ones, and what the new accounts do.
FoundingAsks ==
    RegisterAsks({"ann", "bob"}, {Open, Single})
    \cup [op : {"login"}, name : {"ann"}, pw : {"p"}]
    \cup [op : {"role"}, id : {1, 2}, role : {"visitor"}]
    \cup [op : {"delete"}, id : {1, 2}]

MCSettings == {Open}

\* Nothing tells two requests apart but their names, nor two browsers.
Symmetry == Permutations(Requests) \cup Permutations(Browsers)

Cookies(uids, marks) == [uid : uids, marked : marks]
NoCookies      == {}
ChangeCookies  == Cookies({1, 2}, {TRUE}) \cup Cookies({2}, {FALSE})

\* Every kind of change to one account, by its owner and by an admin, and its sessions.
ChangeAsks ==
    [op : {"rotate", "page", "logout"}]
    \cup [op : {"login"}, name : {"bob"}, pw : {"p"}]
    \cup [op : {"rename"}, name : {"Ann", "bob", "bo"}, pw : {"p"}]
    \cup [op : {"passwd"}, pw : {"p"}, new : {"q"}]
    \cup [op : {"role"}, id : {1, 2}, role : {"pending", "admin", "owner"}]
    \cup [op : {"delete"}, id : {1, 2}]
    \cup RegisterAsks({"bo"}, {Open})

\* The three places where the code does not do what is said of it.
CaseAsks    == [op : {"rename"}, name : {"Bo", "bo"}, pw : {"p"}]
DeletedAsks == [op : {"delete"}, id : {2}] \cup [op : {"login"}, name : {"bob"}, pw : {"p"}]
EndedAsks   == [op : {"page"}] \cup [op : {"login"}, name : {"bob"}, pw : {"p"}]
================================================================================
