------------------------------- MODULE ImportPage -------------------------------
(***************************************************************************)
(* The page that imports exports of other instances: the queue of          *)
(* static/dropzone.js, as the project patched it, under the handlers of    *)
(* templates/import.html, and the routes data.import_view and              *)
(* data.import_complete they talk to, through the session cookie.          *)
(*                                                                         *)
(* The browser runs one callback at a time; setTimeout, the contents of a  *)
(* file and the answers of the server come back later, in any order.  No   *)
(* file is refused by the page itself (the limits are not reached), and    *)
(* nothing on the page cancels an upload.  The decorators of a view answer *)
(* a request by a redirect too, which an upload follows unnoticed.         *)
(***************************************************************************)
EXTENDS Integers, Sequences, FiniteSets, SequencesExt

CONSTANTS
    Files,              \* what the reader may drop on the page, each once
    ParallelUploads,    \* options.parallelUploads
    None

ASSUME PageAssumption == ParallelUploads \in Nat \ {0} /\ IsFiniteSet(Files) /\ None \notin Files

VARIABLES
    status,         \* of each file, see Status
    files,          \* dropzone's list, as it was read; a removed file is told by its status
    processing,     \* calls of processQueue that setTimeout holds
    completing,     \* queuecomplete events that setTimeout holds
    server,         \* what the server made of each upload
    cookie,         \* the session's last_import: a file's report or its refusal
    contributor,    \* whether contributor_required lets the reader pass
    page,           \* "here", "leaving" for import_complete, or gone
    shown,          \* what import_complete showed
    fresh,          \* ghost: no upload failed since a file was last added
    hasty           \* ghost: files were dropped together, or while others were under way

vars == <<status, files, processing, completing, server, cookie, contributor, page, shown,
          fresh, hasty>>

\* "reading" is a file whose arrayBuffer() is pending: dropzone does not know of it yet.
Status == {"none", "reading", "unreadable", "queued", "uploading", "success", "error", "removed"}
\* An upload is imported or refused by import_view; redirected, by its decorators, to the page
\* for signing in or the index; lost, it gets an error or no answer.
Outcome == {"none", "imported", "refused", "redirected", "lost"}

Init ==
    /\ status = [f \in Files |-> "none"] /\ files = <<>>
    /\ processing = 0 /\ completing = 0
    /\ server = [f \in Files |-> "none"]
    /\ cookie = None /\ contributor = TRUE /\ page = "here" /\ shown = None
    /\ fresh = TRUE /\ hasty = FALSE

getFilesWithStatus(s) == {f \in ToSet(files) : status[f] = s}
importHasFailed == getFilesWithStatus("error") # {}

\* Nothing is read, queued, under way or deferred.
Quiet ==
    /\ \A f \in Files : status[f] \notin {"reading", "queued", "uploading"}
    /\ processing = 0 /\ completing = 0

\* The page's script runs on until the next page is there.
Running == page \in {"here", "leaving"}

-----------------------------------------------------------------------------
(* Adding files.                                                            *)

\* The reader drops files; the patch of addFile starts to read each.
Drop ==
    /\ page = "here"
    /\ \E dropped \in (SUBSET {f \in Files : status[f] = "none"}) \ {{}} :
        /\ status' = [f \in Files |-> IF f \in dropped THEN "reading" ELSE status[f]]
        /\ hasty' = (hasty \/ ~Quiet \/ Cardinality(dropped) > 1)
    /\ UNCHANGED <<files, processing, completing, server, cookie, contributor, page, shown, fresh>>

\* Mutant: the leftovers of a failed attempt stay.
KeepFailed == {}
\* The files that the page's addedfile handler removes.
Leftovers == getFilesWithStatus("error")

\* A file was read: it is listed, the page removes what failed before, the file is accepted
\* and queued, and processQueue deferred.
Added(f) ==
    /\ Running /\ status[f] = "reading"
    /\ files' = Append(files, f)
    /\ status' = [g \in Files |-> CASE g = f -> "queued"
                                    [] g \in Leftovers -> "removed"
                                    [] OTHER -> status[g]]
    /\ processing' = processing + 1
    /\ fresh' = TRUE
    /\ UNCHANGED <<completing, server, cookie, contributor, page, shown, hasty>>

\* arrayBuffer() failed, and addFile with it.
NotRead(f) ==
    /\ Running /\ status[f] = "reading"
    /\ status' = [status EXCEPT ![f] = "unreadable"]
    /\ UNCHANGED <<files, processing, completing, server, cookie, contributor, page, shown,
                   fresh, hasty>>

-----------------------------------------------------------------------------
(* The queue.                                                               *)

\* Mutant: what is being read is sent as well.
ProcessUnread(list, st) == {f \in Files : st[f] \in {"queued", "reading"}}
\* Mutant: every queued file is sent, whatever is under way.
ProcessAll(list, st) == {f \in ToSet(list) : st[f] = "queued"}
\* The files that processQueue sends: the first that are queued, while there is room.
Processed(list, st) ==
    LET queued == {i \in DOMAIN list : st[list[i]] = "queued"}
        room   == ParallelUploads - Cardinality({f \in ToSet(list) : st[f] = "uploading"})
    IN {list[i] : i \in {j \in queued : Cardinality(queued \cap 1..j) <= room}}
processQueue(list, st) ==
    [f \in Files |-> IF f \in Processed(list, st) THEN "uploading" ELSE st[f]]

\* The deferred call of enqueueFile.
ProcessLater ==
    /\ Running /\ processing > 0
    /\ processing' = processing - 1
    /\ status' = processQueue(files, status)
    /\ UNCHANGED <<files, completing, server, cookie, contributor, page, shown, fresh, hasty>>

\* The reader's account is deleted, gets another password or loses the role, for good.  (A
\* logout in another tab, which the answer to an upload can undo, is left out.)
Dismiss ==
    /\ contributor /\ Running
    /\ contributor' = FALSE
    /\ UNCHANGED <<status, files, processing, completing, server, cookie, page, shown,
                   fresh, hasty>>

\* import_view takes an upload in: the backend reports the import, or it is refused.  Its
\* decorators redirect it when nobody is signed in, or the backend cannot be reached; whose
\* role does not do gets an error.
Import(f) ==
    /\ status[f] = "uploading" /\ server[f] = "none"
    /\ \E o \in {"redirected", "lost"} \cup IF contributor THEN {"imported", "refused"} ELSE {} :
        server' = [server EXCEPT ![f] = o]
    /\ UNCHANGED <<status, files, processing, completing, cookie, contributor, page, shown,
                   fresh, hasty>>

\* Nothing of the list is left to do: the complete handler of init defers queuecomplete.
NothingLeft(list, st) ==
    \A i \in DOMAIN list : st[list[i]] \notin {"queued", "uploading"}

\* Mutant: a finished upload does not go on with the queue.
Stop(list, st) == st
GoOn(list, st) == processQueue(list, st)

\* The answer arrived, with the session it sets: _finished or _errorProcessing.  The browser
\* has followed a redirect to a page that is there, which is a success like any other.
Answered(f) ==
    /\ Running /\ status[f] = "uploading" /\ server[f] # "none"
    /\ cookie' = IF server[f] \in {"imported", "refused"} THEN f ELSE cookie
    /\ LET s == IF server[f] \in {"imported", "redirected"} THEN "success" ELSE "error"
           st == [status EXCEPT ![f] = s]
       IN /\ completing' = completing + IF NothingLeft(files, st) THEN 1 ELSE 0
          /\ status' = GoOn(files, st)
          /\ fresh' = (fresh /\ s = "success")
    /\ UNCHANGED <<files, processing, server, contributor, page, shown, hasty>>

\* Mutant: the page leaves for the report whatever happened.
Always == TRUE
Succeeded == ~importHasFailed

\* The page's queuecomplete handler.
QueueComplete ==
    /\ Running /\ completing > 0
    /\ completing' = completing - 1
    /\ page' = IF Succeeded THEN "leaving" ELSE page
    /\ UNCHANGED <<status, files, processing, server, cookie, contributor, shown, fresh, hasty>>

\* import_complete: the session's last import is shown, and forgotten, unless the decorator
\* turns the reader away.
ImportComplete ==
    /\ page = "leaving"
    /\ page' = "gone"
    /\ IF contributor
       THEN shown' = cookie /\ cookie' = None
       ELSE UNCHANGED <<shown, cookie>>
    /\ UNCHANGED <<status, files, processing, completing, server, contributor, fresh, hasty>>

Next ==
    \/ Drop \/ ProcessLater \/ QueueComplete \/ ImportComplete \/ Dismiss
    \/ \E f \in Files : Added(f) \/ NotRead(f) \/ Import(f) \/ Answered(f)

Spec == Init /\ [][Next]_vars

\* The browser gets round to what it holds, and an upload is answered: import_view is
\* bounded by MCRIT_CLIENT_TIMEOUT and the proxy, and a connection that breaks is an answer.
FairSpec ==
    /\ Spec /\ WF_vars(ProcessLater) /\ WF_vars(QueueComplete) /\ WF_vars(ImportComplete)
    /\ \A f \in Files :
        WF_vars(Added(f) \/ NotRead(f)) /\ WF_vars(Import(f)) /\ WF_vars(Answered(f))

-----------------------------------------------------------------------------
TypeOK ==
    /\ status \in [Files -> Status] /\ server \in [Files -> Outcome]
    /\ files \in Seq(Files) /\ IsInjective(files)
    /\ ToSet(files) = {f \in Files : status[f] \notin {"none", "reading", "unreadable"}}
    /\ {processing, completing} \subseteq 0..Cardinality(Files)
    /\ {cookie, shown} \subseteq Files \cup {None}
    /\ page \in {"here", "leaving", "gone"} /\ {contributor, fresh, hasty} \subseteq BOOLEAN

(* No more uploads are under way than the page may have at a time, although *)
(* every file defers a run of processQueue of its own and every answer      *)
(* makes another (dropzone.processQueue).                                   *)
InTurn == Cardinality({f \in Files : status[f] = "uploading"}) <= ParallelUploads

(* A reader who drops one file and waits for its outcome before he drops    *)
(* another is never sent on after a failure; when the file he dropped last  *)
(* was imported, he lands on its report (unless he is no longer let in),    *)
(* and on the report of no other import, whatever failed before.  After a   *)
(* redirect there is no report to land on: the page takes it for a success  *)
(* and leaves, and all he can be told is an earlier refusal (the handlers   *)
(* of import.html, import_view, import_complete).                           *)
PatientReport ==
    ~hasty /\ page = "gone" =>
        /\ server[Last(files)] \in {"imported", "redirected"}
        /\ contributor /\ server[Last(files)] = "imported" => shown = Last(files)
        /\ shown # None /\ server[shown] = "imported" => shown = Last(files)

(* A file that was queued is sent some time, however many are before it and *)
(* whichever of them fail (_finished and _errorProcessing go on with the    *)
(* queue).                                                                  *)
QueueDrains ==
    \A f \in Files : status[f] = "queued" ~> (status[f] # "queued" \/ page = "gone")

(* After uploads that succeeded the page leaves in the end, unless one      *)
(* failed after them: an earlier failure "cannot hold the next upload       *)
(* forever" (addedfile and queuecomplete in import.html).                   *)
LeavesAtLast ==
    (Quiet /\ fresh /\ \E f \in Files : status[f] = "success") ~> page = "gone"

(* dropzone.js says queuecomplete is emitted "if all files finished         *)
(* uploading": the page that leaves upon it leaves no file behind.          *)
NothingLeftBehind ==
    page # "here" => \A f \in Files : status[f] \notin {"reading", "queued", "uploading"}
=============================================================================
