------------------------------- MODULE ResultCache -------------------------------
(***************************************************************************)
(* The reports cached under instance/cache/results: the pages that show    *)
(* (data.result) and download (data.download_result) the report of a job,  *)
(* the file cache_result leaves behind and trim_result_cache, and the      *)
(* reset that clears the directory (administration.reset_server,           *)
(* utility.ensure_local_data_paths).                                       *)
(*                                                                         *)
(* Threads of any number of processes work on the directory without a      *)
(* lock: listing, opening, renaming and removing a file are steps of their *)
(* own, and a process may be killed between any two.  One step each are    *)
(* the calls that write a temporary file, those that a trim takes sizes    *)
(* and times with, and those rmtree makes between listing the directory    *)
(* and removing it.  Diagrams are not modelled, nor is Windows, where an   *)
(* open file cannot be removed.                                            *)
(***************************************************************************)
EXTENDS Integers, FiniteSets

CONSTANTS
    Threads,
    Jobs,               \* job ids of the backend
    IdLength,           \* how long each is
    EndsIn,             \* the pairs of ids of which the first ends in the second
    HexIds,             \* the ids that JOB_ID_PATTERN matches
    Size,               \* bytes of the report of a job
    MaxFiles, MaxBytes, \* RESULT_CACHE_MAX_FILES and _MAX_BYTES, or None: no bound
    MaxClock, MaxRequests, Kills, Resets,   \* bounds of a behaviour
    None

ASSUME ThreadsAssumption == IsFiniteSet(Threads)
ASSUME IdsAssumption ==
    /\ IdLength \in [Jobs -> Nat]
    /\ \A j, k \in Jobs : j = k <=> IdLength[j] = IdLength[k] /\ <<j, k>> \in EndsIn
ASSUME HexAssumption == HexIds \subseteq Jobs
ASSUME SizeAssumption == Size \in [Jobs -> Nat]
ASSUME MaxAssumption == MaxFiles \in Nat \cup {None} /\ MaxBytes \in Nat \cup {None}
ASSUME BoundsAssumption ==
    MaxClock \in Nat /\ MaxRequests \in Nat /\ Kills \in Nat /\ Resets \in Nat
ASSUME NoneAssumption == None \notin Nat

VARIABLES
    backend,        \* what the backend has of each job
    clock,          \* utc_now, in seconds
    writes,         \* how many reports were written: the mtime of the next
    cache,          \* the directory: "full", "bare" (cache without results) or "none"
    results,        \* the files in cache/results
    parts,          \* the threads that have a file in cache/incomplete
    thread,         \* the request each thread serves
    requests,       \* how many requests there were
    kills, resets

vars == <<backend, clock, writes, cache, results, parts, thread, requests, kills, resets>>

\* A cached report: <sec>-<job>.json, written at mtime; whole unless it is being written.
File == [sec : Nat, job : Jobs, mtime : Nat, whole : BOOLEAN]
Named(sec, job) == {f \in results : f.sec = sec /\ f.job = job}

\* Mutant: without the length of the whole name.
MatchesEnd(name, job) == <<name, job>> \in EndsIn

\* load_cached_result and find_cached_result_filename match the id against the end of the
\* name, and the length of the whole name.
Matches(name, job) == <<name, job>> \in EndsIn /\ IdLength[name] = IdLength[job]

\* A request.  todo: the seconds of the files of the job listed and not tried; info: what
\* getJobData answered; sec and mtime: of the file it writes; listed: what trim_result_cache
\* found by listing, then by stat, or rmtree by listing; within: the parts that rmtree found,
\* by when they were written; answer and of: what the browser gets, and of which job.
\* Ghosts: ready is whether the backend had the report as it began, since the reset before.
Nothing == [pc |-> "idle", kind |-> "page", job |-> None, todo |-> {}, info |-> "none",
            sec |-> 0, mtime |-> 0, listed |-> {}, within |-> {}, answer |-> "none",
            of |-> None, ready |-> FALSE, since |-> 0]

Init ==
    /\ backend \in [Jobs -> {"running", "finished"}]
    /\ clock = 0 /\ writes = 0
    /\ cache = "full" /\ results = {} /\ parts = {}
    /\ thread = [t \in Threads |-> Nothing]
    /\ requests = 0 /\ kills = 0 /\ resets = 0

Move(t, q) == thread' = [thread EXCEPT ![t] = q]
Answer(t, answer, job) ==
    Move(t, [thread[t] EXCEPT !.pc = "done", !.answer = answer, !.of = job])
Go(t, pc) == Move(t, [thread[t] EXCEPT !.pc = pc])

disk == <<cache, results, parts, writes>>
world == <<backend, clock, requests, kills, resets>>

Tick ==
    /\ clock < MaxClock
    /\ clock' = clock + 1
    /\ UNCHANGED <<backend, disk, thread, requests, kills, resets>>

\* The backend finishes a job.
Finish(j) ==
    /\ backend[j] = "running"
    /\ backend' = [backend EXCEPT ![j] = "finished"]
    /\ UNCHANGED <<clock, disk, thread, requests, kills, resets>>

Begin(t, kind, j) ==
    /\ thread[t].pc = "idle" /\ requests < MaxRequests
    /\ requests' = requests + 1
    /\ Move(t, [Nothing EXCEPT !.pc = IF kind = "page" THEN "load" ELSE "info",
                               !.kind = kind, !.job = j,
                               !.ready = backend[j] = "finished", !.since = resets])
    /\ UNCHANGED <<backend, clock, disk, kills, resets>>

-----------------------------------------------------------------------------
(* Looking a report up.                                                    *)

\* load_cached_result lists the directory ...
Load(t) ==
    LET q == thread[t] IN
    /\ q.pc = "load"
    /\ IF cache = "full"
       THEN Move(t, [q EXCEPT !.pc = "open", !.todo =
                       {<<f.sec, f.job>> : f \in {g \in results : Matches(g.job, q.job)}}])
       ELSE Answer(t, "error", None)
    /\ UNCHANGED <<world, disk>>

\* ... and opens the newest first; one that is gone or half written is passed over.
Newest(names) == CHOOSE n \in names : \A m \in names : n[1] >= m[1]

Open(t) ==
    LET q == thread[t] IN
    /\ q.pc = "open"
    /\ IF q.todo = {}
       THEN Go(t, "info")
       ELSE LET name == Newest(q.todo)
                file == Named(name[1], name[2])
            IN IF \E f \in file : f.whole
               THEN Move(t, [q EXCEPT !.pc = "info", !.of = name[2]])
               ELSE Move(t, [q EXCEPT !.todo = @ \ {name}])
    /\ UNCHANGED <<world, disk>>

\* What the backend is known to have of the job: a download asks it only about an id that is
\* a hex number.
Known(q) == IF q.kind = "download" /\ q.job \notin HexIds THEN "none" ELSE backend[q.job]

\* getJobData.  A page with a report in hand is done, a download goes on to look for one.
Info(t) ==
    LET q == thread[t] IN
    /\ q.pc = "info"
    /\ IF Known(q) = "none" /\ (q.kind = "download" \/ q.of # None)
       THEN Answer(t, "invalid", None)
       ELSE IF q.of # None
       THEN Answer(t, "report", q.of)
       ELSE Move(t, [q EXCEPT !.info = Known(q),
                              !.pc = IF q.kind = "download" THEN "find" ELSE "fetch"])
    /\ UNCHANGED <<world, disk>>

\* find_cached_result_filename ...
Find(t) ==
    LET q == thread[t]
        names == {<<f.sec, f.job>> : f \in {g \in results : Matches(g.job, q.job)}}
    IN /\ q.pc = "find"
       /\ IF cache # "full" THEN Answer(t, "error", None)
          ELSE IF names = {} THEN Go(t, "fetch")
          ELSE Move(t, [q EXCEPT !.pc = "send", !.todo = {Newest(names)}])
       /\ UNCHANGED <<world, disk>>

\* Mutant: a file that is gone is not found.
SendOrNotFound(t) ==
    LET q == thread[t]
        name == Newest(q.todo)
    IN /\ q.pc = "send"
       /\ Answer(t, IF Named(name[1], name[2]) = {} THEN "error" ELSE "report", name[2])
       /\ UNCHANGED <<world, disk>>

\* ... and send_from_directory, which streams the file as it is.
Send(t) ==
    LET q == thread[t]
        name == Newest(q.todo)
        file == Named(name[1], name[2])
    IN /\ q.pc = "send"
       /\ IF file = {}
          THEN Go(t, "fetch")
          ELSE Answer(t, IF \A f \in file : f.whole THEN "report" ELSE "half", name[2])
       /\ UNCHANGED <<world, disk>>

\* getResultForJob.  cache_result writes nothing for a job that had no result when
\* getJobData was asked.
Fetch(t) ==
    LET q == thread[t] IN
    /\ q.pc = "fetch"
    /\ IF backend[q.job] # "finished"
       THEN Answer(t, "no result", None)
       ELSE IF q.info = "finished"
       THEN Move(t, [q EXCEPT !.pc = "write", !.sec = clock])
       ELSE Answer(t, "report", q.job)
    /\ UNCHANGED <<world, disk>>

-----------------------------------------------------------------------------
(* cache_result and trim_result_cache.                                     *)

\* Mutant: nothing removes what was written before the disk was full.
WriteAndLeave(t) ==
    LET q == thread[t] IN
    /\ q.pc = "write"
    /\ cache' = IF cache = "none" THEN "bare" ELSE cache
    /\ parts' = parts \cup {t}
    /\ \/ Move(t, [q EXCEPT !.pc = "replace", !.mtime = writes]) /\ writes' = writes + 1
       \/ Answer(t, "disk", None) /\ UNCHANGED writes
    /\ UNCHANGED <<world, results>>

\* Mutant: the report is written where it is read.
WriteInPlace(t) ==
    LET q == thread[t] IN
    /\ q.pc = "write"
    /\ Move(t, [q EXCEPT !.pc = "replace", !.mtime = writes])
    /\ writes' = writes + 1
    /\ parts' = parts \cup {t}
    /\ results' = (results \ Named(q.sec, q.job)) \cup
          {[sec |-> q.sec, job |-> q.job, mtime |-> writes, whole |-> FALSE]}
    /\ UNCHANGED <<world, cache>>

\* write_atomically writes a file of its own under cache/incomplete, which it makes if it
\* is gone; on a full disk it removes what it wrote, and the request fails, as it does when
\* a reset removes what it made before it opens the file ...
Write(t) ==
    LET q == thread[t] IN
    /\ q.pc = "write"
    /\ cache' = IF cache = "none" THEN "bare" ELSE cache
    /\ \/ /\ Move(t, [q EXCEPT !.pc = "replace", !.mtime = writes])
          /\ writes' = writes + 1
          /\ parts' = parts \cup {t}
       \/ Answer(t, "disk", None) /\ UNCHANGED <<writes, parts>>
       \/ /\ \E u \in Threads : thread[u].pc \in {"unlink", "rmdir"}
          /\ Answer(t, "error", None) /\ UNCHANGED <<writes, parts>>
    /\ UNCHANGED <<world, results>>

\* ... and renames it over whatever has its name.
Put(file) == (results \ Named(file.sec, file.job)) \cup {file}

Replace(t) ==
    LET q == thread[t]
        file == [sec |-> q.sec, job |-> q.job, mtime |-> q.mtime, whole |-> TRUE]
    IN /\ q.pc = "replace"
       /\ IF cache = "full" /\ t \in parts
          THEN results' = Put(file) /\ Go(t, "list")
          ELSE Answer(t, "error", None) /\ UNCHANGED results
       /\ parts' = parts \ {t}
       /\ UNCHANGED <<world, cache, writes>>

\* trim_result_cache lists the directory; whatever it raises is logged and no more ...
List(t) ==
    LET q == thread[t] IN
    /\ q.pc = "list"
    /\ IF cache = "full" /\ (MaxFiles # None \/ MaxBytes # None)
       THEN Move(t, [q EXCEPT !.pc = "stat", !.listed = results])
       ELSE Answer(t, "report", q.job)
    /\ UNCHANGED <<world, disk>>

\* What is there under the names listed.
Still(listed) == {f \in results : \E g \in listed : f.sec = g.sec /\ f.job = g.job}

\* ... takes size and mtime of what is still there ...
Stat(t) ==
    LET q == thread[t] IN
    /\ q.pc = "stat"
    /\ Move(t, [q EXCEPT !.pc = "evict", !.listed = Still(q.listed)])
    /\ UNCHANGED <<world, disk>>

\* The sum of the sizes of the members of a set, counted unit by unit.
Total(set, size) == Cardinality(UNION {{x} \X (1..size[x]) : x \in set})
Bytes(files) == Total(files, [f \in files |-> Size[f.job]])

\* Mutant: one report too late.
PastByTwo(files) ==
    \/ MaxFiles # None /\ Cardinality(files) > MaxFiles + 1
    \/ MaxBytes # None /\ Bytes(files) > MaxBytes

Past(files) ==
    \/ MaxFiles # None /\ Cardinality(files) > MaxFiles
    \/ MaxBytes # None /\ Bytes(files) > MaxBytes

Oldest(files) == CHOOSE f \in files : \A g \in files : f.mtime <= g.mtime

\* ... and removes the oldest by name until what it counted is within the bounds; one that
\* is gone already counts as removed.
Evict(t) ==
    LET q == thread[t]
        victim == Oldest(q.listed)
    IN /\ q.pc = "evict"
       /\ IF Past(q.listed)
          THEN /\ results' = results \ Named(victim.sec, victim.job)
               /\ Move(t, [q EXCEPT !.listed = @ \ {victim}])
          ELSE Answer(t, "report", q.job) /\ UNCHANGED results
       /\ UNCHANGED <<world, cache, parts, writes>>

-----------------------------------------------------------------------------
(* reset_server, and the end of a request or of a process.                 *)

\* client.respawn: the backend forgets every job.
Respawn(t) ==
    /\ thread[t].pc = "idle" /\ resets < Resets
    /\ resets' = resets + 1
    /\ backend' = [j \in Jobs |-> "none"]
    /\ Move(t, [Nothing EXCEPT !.pc = "scan", !.kind = "reset"])
    /\ UNCHANGED <<clock, disk, requests, kills>>

\* shutil.rmtree lists what is in the directory, which has to be there ...
Scan(t) ==
    /\ thread[t].pc = "scan"
    /\ IF cache # "none"
       THEN Move(t, [thread[t] EXCEPT !.pc = "unlink", !.listed = results,
                                      !.within = {thread[u].mtime : u \in parts}])
       ELSE Answer(t, "error", None)
    /\ UNCHANGED <<world, disk>>

\* ... and removes it.  Before Python 3.13 it stops where it is at a file that is gone, and
\* so does the reset ...
Unlink(t) ==
    LET q == thread[t]
        left == {u \in parts : thread[u].mtime \in q.within}
        gone == \/ \E g \in q.listed : Named(g.sec, g.job) = {}
                \/ \E n \in q.within : \A u \in left : thread[u].mtime # n
    IN /\ q.pc = "unlink"
       /\ \/ /\ Go(t, "rmdir")
             /\ results' = results \ Still(q.listed) /\ parts' = parts \ left
             /\ UNCHANGED cache
          \/ /\ gone
             /\ Answer(t, "error", None)
             /\ \E some \in SUBSET Still(q.listed) : results' = results \ some
             /\ \E some \in SUBSET left : parts' = parts \ some
             /\ cache' \in {cache} \cup {c \in {"bare"} : cache = "full" /\ results' = {}}
       /\ UNCHANGED <<world, writes>>

\* ... and the directory itself, unless something was put there in between: then it stops
\* where it is as well ...
Rmdir(t) ==
    /\ thread[t].pc = "rmdir"
    /\ IF cache # "none" /\ results = {} /\ parts = {}
       THEN Go(t, "mkdir") /\ cache' = "none"
       ELSE /\ Answer(t, "error", None)
            /\ cache' \in {cache} \cup {c \in {"bare"} : cache = "full" /\ results = {}}
    /\ UNCHANGED <<world, results, parts, writes>>

\* ... and os.makedirs makes it anew, or finds it there.
Mkdir(t) ==
    /\ thread[t].pc = "mkdir"
    /\ cache' = "full"
    /\ Answer(t, "reset", None)
    /\ UNCHANGED <<world, results, parts, writes>>

End(t) ==
    /\ thread[t].pc = "done"
    /\ Move(t, Nothing)
    /\ UNCHANGED <<world, disk>>

\* The process is killed; its thread does not come back.
Kill(t) ==
    /\ thread[t].pc \notin {"idle", "done", "dead", "lost"} /\ kills < Kills
    /\ kills' = kills + 1
    /\ Go(t, IF thread[t].pc \in {"list", "stat", "evict"} THEN "lost" ELSE "dead")
    /\ UNCHANGED <<backend, clock, disk, requests, resets>>

\* The bounds are reached and nothing is left to do.
Quiet ==
    /\ \A t \in Threads : thread[t].pc \in {"idle", "dead", "lost"}
    /\ requests = MaxRequests \/ \A t \in Threads : thread[t].pc # "idle"
    /\ UNCHANGED vars

Step(t) ==
    \/ Load(t) \/ Open(t) \/ Info(t) \/ Find(t) \/ Send(t) \/ Fetch(t)
    \/ Write(t) \/ Replace(t) \/ List(t) \/ Stat(t) \/ Evict(t)
    \/ Scan(t) \/ Unlink(t) \/ Rmdir(t) \/ Mkdir(t) \/ End(t)

Next ==
    \/ Tick
    \/ \E j \in Jobs : Finish(j)
    \/ \E t \in Threads :
         \/ \E kind \in {"page", "download"}, j \in Jobs : Begin(t, kind, j)
         \/ Respawn(t) \/ Step(t) \/ Kill(t)
    \/ Quiet

Spec == Init /\ [][Next]_vars

-----------------------------------------------------------------------------

\* Types; and what is in the directory is whole, at all times, since a name in it may be read
\* at any (write_atomically, os.replace).
TypeOK ==
    /\ backend \in [Jobs -> {"none", "running", "finished"}]
    /\ clock \in Nat /\ writes \in Nat
    /\ cache \in {"full", "bare", "none"} /\ parts \subseteq Threads
    /\ results \subseteq File /\ \A f \in results : f.whole

Done(t) == thread[t].pc = "done"

\* Nobody gets half a report, however his page or download falls between the writes, renames
\* and removals of others (write_atomically, load_cached_result).
WholeReport == \A t \in Threads : Done(t) => thread[t].answer # "half"

\* A report that is shown is that of the job asked for, never of one whose id ends alike.
OwnReport ==
    \A t \in Threads : Done(t) /\ thread[t].answer = "report" => thread[t].of = thread[t].job

\* A job whose report the backend has is shown, whatever is evicted, and whoever is killed,
\* in the meantime: only a reset or a full disk can keep the report from the browser, or that
\* it was to be downloaded under an id that is no hex number.
EvictionCostsNoAnswer ==
    \A t \in Threads :
        LET q == thread[t] IN
        /\ Done(t) /\ q.kind # "reset" /\ q.ready /\ q.since = resets
        /\ q.kind = "download" => q.job \in HexIds
        => q.answer \in {"report", "disk"}

\* data.py:54 calls a job id "a mongo ObjectId (24 hex) or, on a local queue, a uuid4", and a
\* uuid4 has dashes: a report that its page shows could be downloaded there as well.
DownloadsEveryJob ==
    \A t \in Threads :
        LET q == thread[t] IN
        Done(t) /\ q.kind # "reset" /\ q.ready /\ q.since = resets =>
            q.answer \in {"report", "disk"}

\* The requests between the rename and the end of the trim, or killed there.
Trimming == {t \in Threads : thread[t].pc \in {"list", "stat", "evict", "lost"}}

\* Concurrent trims keep the bound together: the directory is past its bounds by at most the
\* reports of the requests that have not finished trimming.
BoundedByTrims ==
    /\ MaxFiles # None => Cardinality(results) <= MaxFiles + Cardinality(Trimming)
    /\ MaxBytes # None =>
          Bytes(results) <= MaxBytes + Total(Trimming, [t \in Trimming |-> Size[thread[t].job]])

\* data.py:125 says "the directory never holds more than one report past its bounds".
OneReportPast ==
    MaxFiles # None => Cardinality(results) <= MaxFiles + 1

\* ensure_local_data_paths is there to "ensure the instance and cache folders exists": when
\* nobody is inside it, they do.
FoldersExist ==
    (\A t \in Threads : thread[t].pc \notin {"scan", "unlink", "rmdir", "mkdir", "dead"}) =>
        cache = "full"

\* write_atomically leaves nothing behind in cache/incomplete unless it is killed.
NoPartLeft == \A t \in parts : thread[t].pc \in {"replace", "dead"}
=============================================================================
