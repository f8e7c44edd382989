------------------------------- MODULE MCQueryJob -------------------------------
EXTENDS QueryJob
CONSTANTS exe, report

\* a binary, and a report that declares the digest of that binary about itself
MCKind == [f \in Files |-> IF f = report THEN "smda" ELSE "binary"]
MCDeclared == [f \in Files |-> exe]
================================================================================
