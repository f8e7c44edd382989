------------------------------- MODULE MCStartUp -------------------------------
(* Two workers over a database of an old release, of one whose tables of later
   releases are missing, of the current release, and over none at all. *)
EXTENDS StartUp

Known == {Tables[i] : i \in DOMAIN Tables}
NoTokens == [u \in Users |-> 0]
OfRelease(tables, column, server) ==
    [tables |-> {"user"} \cup tables, apitoken |-> column, tokens |-> NoTokens, server_token |-> server]

\* before v0.11.0; v0.12.0, with no token given yet; v1.4.0; now
Releases ==
    {OfRelease({}, FALSE, "absent"), OfRelease({"user_filters"}, TRUE, "absent"),
     OfRelease({"user_filters", "user_column_settings"}, TRUE, "set"), OfRelease(Known, TRUE, "set")}
NoDatabase == [tables |-> {}, apitoken |-> FALSE, tokens |-> NoTokens, server_token |-> "absent"]
MCDatabases == Releases \cup {NoDatabase}
================================================================================
