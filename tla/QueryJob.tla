-------------------------------- MODULE QueryJob --------------------------------
(***************************************************************************)
(* A query from its upload to its promotion (views/analyze.py query,       *)
(* views/data.py job_by_id, job_status, result, promote_query and          *)
(* delete_job_by_id, the script of templates/job_overview.html).           *)
(*                                                                         *)
(* Every tab of every reader is in the middle of one request or one page.  *)
(* The upload is filed after the job was queued, a promotion asks, reads   *)
(* and adds in separate steps, and a page that polls compares what it was  *)
(* rendered with against an answer the job has already moved on from.      *)
(*                                                                         *)
(* The backend's queue, its workers and its corpus are external: only what *)
(* the code relies on is here.  A job it is asked for runs once; the       *)
(* sub-jobs of a cross compare and the attempts of a job are left out.     *)
(***************************************************************************)
EXTENDS FiniteSets

CONSTANTS
    Queries,    \* the jobs of queries, each named by the id the backend issues
    Adds,       \* the jobs of addBinarySample: its ids bound the promotions
    Tabs,
    Files,      \* what readers upload; a file also stands for its own sha256
    Kind,       \* "smda" for a report, "binary" for anything else
    Declared,   \* the sha256 a report declares about itself
    Part,       \* the first bytes of an upload that is still being written
    None

Jobs == Queries \cup Adds
ASSUME JobsApart == Queries \cap Adds = {} /\ None \notin Jobs
ASSUME KindOfFile == Kind \in [Files -> {"binary", "smda"}] /\ Declared \in [Files -> Files]
ASSUME PartIsNoFile == Part \notin Files /\ None \notin Files \cup {Part}

VARIABLES
    job,      \* how far the backend is with each job
    file,     \* what each query ran on, which the job keeps the hash of
    upload,   \* what lies under query_upload_path of each query, or None
    added,    \* what each add job was given, and for which query
    corpus,   \* the samples: sha256, bytes, and the query they come from
    tab       \* what each tab shows or waits for

vars == <<job, file, upload, added, corpus, tab>>

\* progress counts while the job runs, and is then of no account
InState(state) == [state |-> state, progress |-> 0]
JobStates == {"none", "queued", "running", "finished", "failed", "gone"}
\* a tab that has just gone somewhere; auto is refresh=3&forward=1
Fresh(at, j, auto) == [at |-> at, job |-> j, auto |-> auto, shown |-> None, answer |-> None, read |-> None]

\* a static page: nothing but the reader moves it
Pages == {"blank", "result", "sample", "empty", "progress", "failed", "invalid", "jobs", "index"}

Init ==
    /\ job = [j \in Jobs |-> InState("none")]
    /\ file = [q \in Queries |-> None]
    /\ upload = [q \in Queries |-> None]
    /\ added = [a \in Adds |-> None]
    /\ corpus = {}
    /\ tab = [t \in Tabs |-> Fresh("blank", None, FALSE)]

\* getJobData
Known(j) == job[j].state \notin {"none", "gone"}
\* the sha256 a file is known by: info.sample.sha256 of its report
Sha(f) == IF Kind[f] = "smda" THEN Declared[f] ELSE f
getSampleBySha256(sha) == \E s \in corpus : s.sha = sha
\* a sha256 that is known keeps its sample
WithSample(sha, bytes, q) ==
    IF getSampleBySha256(sha) THEN corpus ELSE corpus \cup {[sha |-> sha, bytes |-> bytes, query |-> q]}

\* ids are issued one after the other, and none of them twice
Unissued == {a \in Adds : job[a].state = "none"}
NextId == CHOOSE a \in Adds : job[a].state = "none"

Step(t, at) == tab' = [tab EXCEPT ![t].at = at]
Open(t, at, j, auto) == tab' = [tab EXCEPT ![t] = Fresh(at, j, auto)]
To(t, page) == Open(t, page, None, FALSE)
--------------------------------------------------------------------------------
\* POST /query: the backend has the job before the upload is filed
Submit(t, q) ==
    /\ tab[t].at = "blank"
    /\ job[q].state = "none"
    /\ \E f \in Files : file' = [file EXCEPT ![q] = f]
    /\ job' = [job EXCEPT ![q] = InState("queued")]
    /\ Open(t, "open", q, TRUE)
    /\ UNCHANGED <<upload, added, corpus>>

\* open(upload_path, "wb"); an OSError is only logged
OpenUpload(t) ==
    /\ tab[t].at = "open"
    /\ \/ upload' = [upload EXCEPT ![tab[t].job] = Part] /\ Step(t, "write")
       \/ UNCHANGED upload /\ Step(t, "load")
    /\ UNCHANGED <<job, file, added, corpus>>

WriteUpload(t) ==
    /\ tab[t].at = "write"
    /\ \/ upload' = [upload EXCEPT ![tab[t].job] = file[tab[t].job]]
       \/ UNCHANGED upload
    /\ Step(t, "load")
    /\ UNCHANGED <<job, file, added, corpus>>

\* a link to the overview of a job, which does not refresh, or to its result
Visit(t) ==
    /\ tab[t].at = "blank"
    /\ \E j \in Jobs, at \in {"load", "loadresult"} :
          job[j].state # "none" /\ Open(t, at, j, FALSE)
    /\ UNCHANGED <<job, file, upload, added, corpus>>

Leave(t) ==
    /\ tab[t].at \in Pages \cup {"overview"}
    /\ To(t, "blank")
    /\ UNCHANGED <<job, file, upload, added, corpus>>
--------------------------------------------------------------------------------
\* what the overview lists of a job that can still change
job_overview_state(j) ==
    [started |-> job[j].state \in {"running", "finished", "failed"},
     finished |-> job[j].state = "finished",
     failed |-> job[j].state = "failed",
     progress |-> job[j].progress]

\* GET /jobs/<job_id>: the page is rendered from one reading of the job
job_by_id(t) ==
    LET j == tab[t].job
        refresh == tab[t].auto /\ job[j].state # "failed"
    IN
    /\ tab[t].at = "load"
    /\ \/ ~Known(j) /\ To(t, "invalid")
       \/ job[j].state = "finished" /\ tab[t].auto /\ Open(t, "loadresult", j, FALSE)
       \/ /\ Known(j) /\ ~(job[j].state = "finished" /\ tab[t].auto)
          /\ tab' = [tab EXCEPT ![t] = [Fresh("overview", j, refresh) EXCEPT
                                          !.shown = IF refresh THEN job_overview_state(j) ELSE None]]
       \/ To(t, "index")
    /\ UNCHANGED <<job, file, upload, added, corpus>>

Polls(t) == tab[t].at = "overview" /\ tab[t].auto

\* GET /jobs/<job_id>/status: 404 for an unknown job; an unreachable backend
\* and an ended session answer with another page, which is no JSON: the page
\* reloads, whatever the job is by then
job_status(t) ==
    /\ Polls(t) /\ tab[t].answer = None
    /\ \/ Known(tab[t].job) /\ tab' = [tab EXCEPT ![t].answer = job_overview_state(tab[t].job)]
       \/ Open(t, "load", tab[t].job, TRUE)
    /\ UNCHANGED <<job, file, upload, added, corpus>>

\* Mutant: a failed job is not one of the changes.
ChangedUnlessFailed(state, shown) == state.started # shown.started \/ state.finished # shown.finished
\* Mutant: progress is one of the changes.
ChangedOrFurther(state, shown) == state # shown
Changed(state, shown) ==
    state.started # shown.started \/ state.finished # shown.finished \/ state.failed # shown.failed

\* the answer is read: progress alone stays on the page, else it reloads
Received(t) ==
    /\ Polls(t) /\ tab[t].answer # None
    /\ tab' = [tab EXCEPT ![t].answer = None,
                           ![t].at = IF Changed(tab[t].answer, tab[t].shown) THEN "load" ELSE @]
    /\ UNCHANGED <<job, file, upload, added, corpus>>

\* GET /result/<job_id>
result(t) ==
    LET state == job[tab[t].job].state IN
    /\ tab[t].at = "loadresult"
    /\ \/ ~Known(tab[t].job) /\ To(t, "invalid")
       \/ state = "finished" /\ tab[t].job \in Queries /\ Open(t, "result", tab[t].job, FALSE)
       \/ state = "finished" /\ tab[t].job \in Adds /\ To(t, "sample")
       \/ state = "finished" /\ To(t, "empty")
       \/ state = "failed" /\ To(t, "failed")
       \/ state \in {"queued", "running"} /\ To(t, "progress")
       \/ To(t, "index")
    /\ UNCHANGED <<job, file, upload, added, corpus>>
--------------------------------------------------------------------------------
\* POST /promote_query/<job_id> from the page of its result
Promote(t) ==
    /\ tab[t].at = "result"
    /\ Step(t, "report")
    /\ UNCHANGED <<job, file, upload, added, corpus>>

Refused(t) == Open(t, "loadresult", tab[t].job, FALSE)

\* the job and its report, which names the sample the corpus is asked for
ReadReport(t) ==
    /\ tab[t].at = "report"
    /\ \/ ~Known(tab[t].job) /\ To(t, "jobs")
       \/ Known(tab[t].job) /\ (Step(t, "corpus") \/ Refused(t))
       \/ To(t, "index")
    /\ UNCHANGED <<job, file, upload, added, corpus>>

AskCorpus(t) ==
    /\ tab[t].at = "corpus"
    /\ IF getSampleBySha256(Sha(file[tab[t].job])) THEN To(t, "sample") ELSE Step(t, "read")
    /\ UNCHANGED <<job, file, upload, added, corpus>>

ReadUpload(t) ==
    /\ tab[t].at = "read"
    /\ IF upload[tab[t].job] = None
       THEN Refused(t)
       ELSE tab' = [tab EXCEPT ![t].at = "add", ![t].read = upload[tab[t].job]]
    /\ UNCHANGED <<job, file, upload, added, corpus>>

\* Mutant: whatever is stored under the job is taken for its input.
AnyStoredMatches(q, stored) == TRUE
\* stored_sha256 = payload_sha256: the hash is of what the job actually ran on
StoredMatches(q, stored) == stored = file[q]

\* the file is compared with the job's payload and handed to the backend:
\* addReport answers at once, with the entry that exists for a known sha256,
\* addBinarySample with a job, or with None for a known sha256
AddSample(t) ==
    LET q == tab[t].job
        bytes == tab[t].read
    IN
    /\ tab[t].at = "add"
    /\ \/ /\ Refused(t)   \* also when the backend refuses
          /\ UNCHANGED <<job, added, corpus>>
       \/ /\ StoredMatches(q, bytes) /\ Kind[file[q]] = "smda"
          /\ corpus' = WithSample(Sha(file[q]), bytes, q)
          /\ To(t, "sample")
          /\ UNCHANGED <<job, added>>
       \/ /\ StoredMatches(q, bytes) /\ Kind[file[q]] = "binary" /\ ~getSampleBySha256(bytes)
          /\ Unissued # {}
          /\ job' = [job EXCEPT ![NextId] = InState("queued")]
          /\ added' = [added EXCEPT ![NextId] = [bytes |-> bytes, query |-> q]]
          /\ Open(t, "load", NextId, TRUE)
          /\ UNCHANGED corpus
    /\ UNCHANGED <<file, upload>>
--------------------------------------------------------------------------------
\* deleteJob, of one job or of those a listing named, which may have moved on
deleteJob(j) ==
    /\ Known(j)
    /\ job' = [job EXCEPT ![j] = InState("gone")]
    /\ UNCHANGED <<file, upload, added, corpus, tab>>

Starts(j) ==
    /\ job[j].state = "queued"
    /\ job' = [job EXCEPT ![j].state = "running"]
    /\ UNCHANGED <<file, upload, added, corpus, tab>>

Progresses(j) ==
    /\ job[j].state = "running" /\ job[j].progress = 0
    /\ job' = [job EXCEPT ![j].progress = 1]
    /\ UNCHANGED <<file, upload, added, corpus, tab>>

Fails(j) ==
    /\ job[j].state = "running"
    /\ job' = [job EXCEPT ![j] = InState("failed")]
    /\ UNCHANGED <<file, upload, added, corpus, tab>>

\* Worker.addBinarySample checks the corpus again
Finishes(j) ==
    /\ job[j].state = "running"
    /\ job' = [job EXCEPT ![j] = InState("finished")]
    /\ corpus' = IF j \in Queries THEN corpus ELSE WithSample(added[j].bytes, added[j].bytes, added[j].query)
    /\ UNCHANGED <<file, upload, added, tab>>

\* a sample that was submitted, not promoted
Submitted(f) ==
    /\ corpus' = WithSample(Sha(f), None, None)
    /\ UNCHANGED <<job, file, upload, added, tab>>

Backend ==
    \/ \E f \in Files : Submitted(f)
    \/ \E j \in Jobs : deleteJob(j) \/ Starts(j) \/ Progresses(j) \/ Fails(j) \/ Finishes(j)
Promotion(t) == ReadReport(t) \/ AskCorpus(t) \/ ReadUpload(t) \/ AddSample(t)
Reader(t) == Visit(t) \/ Leave(t) \/ Promote(t) \/ \E q \in Queries : Submit(t, q)
Page(t) == OpenUpload(t) \/ WriteUpload(t) \/ job_by_id(t) \/ job_status(t) \/ Received(t) \/ result(t)
Next == Backend \/ \E t \in Tabs : Reader(t) \/ Page(t) \/ Promotion(t)

Spec == Init /\ [][Next]_vars

\* Requests are answered and timers fire.  Nothing is asked of the queue:
\* jobs may wait, run or be deleted at any time.
FairSpec == Spec /\ \A t \in Tabs : WF_vars(Page(t)) /\ WF_vars(Promotion(t))
--------------------------------------------------------------------------------
Bytes == Files \cup {Part}
Samples == [sha : Bytes, bytes : Bytes \cup {None}, query : Queries \cup {None}]
Overview == [started : BOOLEAN, finished : BOOLEAN, failed : BOOLEAN, progress : {0, 1}]
ASSUME NothingIsNoOverview == None \notin Overview

TabPages == [at : Pages \cup {"open", "write", "load", "overview", "loadresult",
                                "report", "corpus", "read", "add"},
              job : Jobs \cup {None}, auto : BOOLEAN, shown : Overview \cup {None},
              answer : Overview \cup {None}, read : Bytes \cup {None}]

TypeOK ==
    /\ job \in [Jobs -> [state : JobStates, progress : {0, 1}]]
    /\ file \in [Queries -> Files \cup {None}]
    /\ upload \in [Queries -> Bytes \cup {None}]
    /\ added \in [Adds -> [bytes : Bytes, query : Queries] \cup {None}]
    /\ corpus \subseteq Samples
    /\ tab \in [Tabs -> TabPages]

\* "the file is only this query's input if it hashes to what the backend
\* recorded for it": what a promotion adds is exactly what its query ran on,
\* although the upload is filed after the job was queued, may stay a part,
\* and may be read while it is written.
PromotesItsBytes == \A s \in corpus : s.query # None => s.bytes = file[s.query]

\* A page that polls does not go on showing a job as running once it finished,
\* failed or was deleted: the poll notices, whichever it is, and reloads.
Settled(j) == ~Known(j) \/ job[j].state \in {"finished", "failed"}
SettledShown == \A t \in Tabs : (Polls(t) /\ Settled(tab[t].job)) ~> ~(Polls(t) /\ Settled(tab[t].job))

\* "a reload ... should happen when there is something new to show, not on
\* every tick": an overview that reloaded because of an answer lists
\* something else than the one before, as late as it is rendered.
Listed(shown) == <<shown.started, shown.finished, shown.failed>>
ReloadsForNews ==
    [][\A t \in Tabs :
          tab[t].at = "load" /\ tab[t].shown # None /\ tab'[t].at = "overview"
             => tab'[t].shown = None \/ Listed(tab'[t].shown) # Listed(tab[t].shown)]_vars
================================================================================
