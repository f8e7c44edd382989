----------------------------- MODULE QueryJobProofs -----------------------------
(***************************************************************************)
(* Theorems about QueryJob, for any readers, queries, files and tabs.      *)
(*                                                                         *)
(* The bytes a promotion hands over equal the file of its query when they  *)
(* are compared; they still do when a worker adds them, because a job that *)
(* was issued never gets another file (Issued), and nothing promoted is    *)
(* empty-handed (Promoted, Matching).                                      *)
(*                                                                         *)
(* A page reloads some steps after it was told to.  A job only goes on, so *)
(* what the page shows lies behind it and the answer of a poll between the *)
(* two (Told), and the reloaded page finds what the answer said, or more.  *)
(***************************************************************************)
EXTENDS QueryJob, TLAPS

\* What a tab at page p relies on.
AboutQuery == {"open", "write", "result", "report", "corpus", "read", "add"}
AboutJob == {"load", "overview", "loadresult"}
Placed(p) ==
    /\ p.at \in AboutQuery => p.job \in Queries
    /\ p.at \in AboutJob => p.job \in Jobs
    /\ p.at = "add" => p.read \in Bytes

TabsPlaced == \A t \in Tabs : Placed(tab[t])
Issued == \A q \in Queries : job[q].state = "none" => file[q] = None
Promoted == \A a \in Adds : job[a].state # "none" =>
                /\ added[a] \in [bytes : Files, query : Queries]
                /\ added[a].bytes = file[added[a].query]
Matching == \A s \in corpus : s.query # None => s.bytes \in Files /\ s.bytes = file[s.query]

IInv == TypeOK /\ TabsPlaced /\ Issued /\ Promoted /\ Matching
--------------------------------------------------------------------------------
\* A tab that goes somewhere is typed and placed.
LEMMA FreshPlaced ==
    ASSUME NEW at \in Pages \cup AboutQuery \cup AboutJob, NEW j \in Jobs \cup {None}, NEW auto \in BOOLEAN,
           at \in AboutQuery => j \in Queries, at \in AboutJob => j \in Jobs, at # "add"
    PROVE  Fresh(at, j, auto) \in TabPages /\ Placed(Fresh(at, j, auto))
  BY DEF Fresh, TabPages, Placed, AboutQuery, AboutJob, Pages

LEMMA OpenKeeps ==
    ASSUME TypeOK, TabsPlaced, NEW t \in Tabs, NEW at \in Pages \cup AboutQuery \cup AboutJob,
           NEW j \in Jobs \cup {None}, NEW auto \in BOOLEAN,
           at \in AboutQuery => j \in Queries, at \in AboutJob => j \in Jobs, at # "add",
           Open(t, at, j, auto)
    PROVE  tab' \in [Tabs -> TabPages] /\ TabsPlaced'
<1>. DEFINE f == Fresh(at, j, auto)
<1>1. f \in TabPages /\ Placed(f)
  BY FreshPlaced
<1>2. tab' = [tab EXCEPT ![t] = f] /\ tab \in [Tabs -> TabPages]
  BY DEF Open, TypeOK
<1>3. \A u \in Tabs : tab'[u] = (IF u = t THEN f ELSE tab[u])
  BY <1>2
<1>. HIDE DEF f
<1>4. tab' \in [Tabs -> TabPages]
  BY <1>1, <1>2
<1>. QED  BY <1>1, <1>3, <1>4 DEF TabsPlaced

LEMMA ToKeeps ==
    ASSUME TypeOK, TabsPlaced, NEW t \in Tabs, NEW page \in Pages \ {"result"}, To(t, page)
    PROVE  tab' \in [Tabs -> TabPages] /\ TabsPlaced'
<1>1. page \notin AboutQuery /\ page \notin AboutJob /\ page # "add"
  BY DEF Pages, AboutQuery, AboutJob
<1>. QED  BY <1>1, OpenKeeps DEF To

\* A tab that stays with its job is typed and placed.
LEMMA StepKeeps ==
    ASSUME TypeOK, TabsPlaced, NEW t \in Tabs, NEW at \in AboutQuery \cup AboutJob, at # "add",
           tab[t].job \in Queries, Step(t, at)
    PROVE  tab' \in [Tabs -> TabPages] /\ TabsPlaced'
<1>. DEFINE f == [tab[t] EXCEPT !.at = at]
<1>1. tab[t] \in TabPages /\ tab \in [Tabs -> TabPages]
  BY DEF TypeOK
<1>2. f \in TabPages /\ f.at = at /\ f.job = tab[t].job
  BY <1>1 DEF TabPages, AboutQuery, AboutJob, Pages
<1>3. tab' = [tab EXCEPT ![t] = f]
  BY DEF Step
<1>. HIDE DEF f
<1>4. Placed(f)
  BY <1>2 DEF Placed, Jobs
<1>5. tab' \in [Tabs -> TabPages]
  BY <1>1, <1>2, <1>3
<1>6. \A u \in Tabs : tab'[u] = (IF u = t THEN f ELSE tab[u])
  BY <1>1, <1>3
<1>. QED  BY <1>4, <1>5, <1>6 DEF TabsPlaced

\* What the corpus holds after a sample is offered to it.
LEMMA SampleKeeps ==
    ASSUME corpus \subseteq Samples, Matching, NEW sha \in Bytes, NEW bytes \in Bytes \cup {None},
           NEW q \in Queries \cup {None}, q # None => bytes \in Files /\ bytes = file[q],
           corpus' = WithSample(sha, bytes, q), UNCHANGED file
    PROVE  corpus' \subseteq Samples /\ Matching'
<1>. DEFINE s == [sha |-> sha, bytes |-> bytes, query |-> q]
<1>1. s \in Samples /\ s.query = q /\ s.bytes = bytes
  BY DEF Samples
<1>2. corpus' = corpus \/ corpus' = corpus \cup {s}
  BY DEF WithSample
<1>. HIDE DEF s
<1>. QED  BY <1>1, <1>2 DEF Matching
--------------------------------------------------------------------------------
LEMMA InitInv == Init => IInv
<1>. SUFFICES ASSUME Init PROVE IInv
  OBVIOUS
<1>1. \A j \in Jobs : job[j] = InState("none")
  BY DEF Init
<1>2. InState("none") \in [state : JobStates, progress : {0, 1}] /\ InState("none").state = "none"
  BY DEF InState, JobStates
<1>3. Fresh("blank", None, FALSE) \in TabPages /\ Placed(Fresh("blank", None, FALSE))
  BY FreshPlaced DEF Pages, AboutQuery, AboutJob
<1>4. TypeOK
  BY <1>2, <1>3 DEF Init, TypeOK
<1>5. TabsPlaced
  BY <1>3 DEF Init, TabsPlaced
<1>. QED  BY <1>1, <1>2, <1>4, <1>5 DEF Init, IInv, Issued, Promoted, Matching, Jobs

\* A step of the queue that issues no job.
LEMMA QueueKeeps ==
    ASSUME IInv, NEW j \in Jobs, NEW r \in [state : JobStates, progress : {0, 1}],
           job[j].state # "none", r.state # "none", job' = [job EXCEPT ![j] = r],
           UNCHANGED <<file, upload, added, tab>>
    PROVE  /\ job' \in [Jobs -> [state : JobStates, progress : {0, 1}]]
           /\ TabsPlaced' /\ Issued' /\ Promoted'
<1>1. job \in [Jobs -> [state : JobStates, progress : {0, 1}]]
  BY DEF IInv, TypeOK
<1>2. \A k \in Jobs : job'[k].state = "none" <=> job[k].state = "none"
  BY <1>1
<1>3. Queries \subseteq Jobs /\ Adds \subseteq Jobs
  BY DEF Jobs
<1>4. Issued'
  BY <1>2, <1>3 DEF IInv, Issued
<1>5. Promoted'
  BY <1>2, <1>3 DEF IInv, Promoted
<1>6. TabsPlaced'
  BY DEF IInv, TabsPlaced
<1>. QED  BY <1>1, <1>4, <1>5, <1>6

\* A step of a tab that changes nothing else but what lies in the folder.
LEMMA TabKeeps ==
    ASSUME IInv, UNCHANGED <<job, file, added, corpus>>, upload' \in [Queries -> Bytes \cup {None}],
           tab' \in [Tabs -> TabPages] /\ TabsPlaced'
    PROVE  IInv'
<1>1. TypeOK'
  BY DEF IInv, TypeOK
<1>2. Issued' /\ Promoted' /\ Matching'
  BY DEF IInv, Issued, Promoted, Matching
<1>. QED  BY <1>1, <1>2 DEF IInv
--------------------------------------------------------------------------------
LEMMA SubmitInv ==
    ASSUME IInv, NEW t \in Tabs, NEW q \in Queries, Submit(t, q)
    PROVE  IInv'
<1>1. q \in Jobs /\ q # None /\ None \notin Files /\ Queries \subseteq Jobs /\ Adds \subseteq Jobs
  BY JobsApart, PartIsNoFile DEF Jobs
<1>2. PICK f \in Files : file' = [file EXCEPT ![q] = f]
  BY DEF Submit
<1>3. file[q] = None
  BY DEF IInv, Issued, Submit
<1>4. job' = [job EXCEPT ![q] = InState("queued")] /\ UNCHANGED <<upload, added, corpus>>
  BY DEF Submit
<1>5. tab' \in [Tabs -> TabPages] /\ TabsPlaced'
  BY <1>1, OpenKeeps DEF IInv, Submit, AboutQuery, AboutJob
<1>6. TypeOK'
  <2>1. InState("queued") \in [state : JobStates, progress : {0, 1}]
    BY DEF InState, JobStates
  <2>2. job' \in [Jobs -> [state : JobStates, progress : {0, 1}]]
    BY <1>4, <2>1 DEF IInv, TypeOK
  <2>. QED  BY <1>2, <1>4, <1>5, <2>2 DEF IInv, TypeOK
<1>7. Issued'
  <2>1. InState("queued").state # "none"
    BY DEF InState
  <2>. QED  BY <1>1, <1>2, <1>4, <2>1 DEF IInv, TypeOK, Issued
<1>8. Promoted'
  <2>. SUFFICES ASSUME NEW a \in Adds, job'[a].state # "none"
                PROVE  /\ added[a] \in [bytes : Files, query : Queries]
                       /\ added[a].bytes = file'[added[a].query]
    BY <1>4 DEF Promoted
  <2>1. a # q
    BY JobsApart
  <2>2. job[a].state # "none"
    BY <1>1, <1>4, <2>1 DEF IInv, TypeOK
  <2>3. added[a] \in [bytes : Files, query : Queries] /\ added[a].bytes = file[added[a].query]
    BY <2>2 DEF IInv, Promoted
  <2>4. added[a].query # q
    BY <1>1, <1>3, <2>3
  <2>. QED  BY <1>2, <2>3, <2>4 DEF IInv, TypeOK
<1>9. Matching'
  <2>. SUFFICES ASSUME NEW s \in corpus, s.query # None
                PROVE  s.bytes \in Files /\ s.bytes = file'[s.query]
    BY <1>4 DEF Matching
  <2>1. s.bytes \in Files /\ s.bytes = file[s.query]
    BY DEF IInv, Matching
  <2>2. s.query # q
    BY <1>1, <1>3, <2>1
  <2>. QED  BY <1>2, <2>1, <2>2 DEF IInv, TypeOK
<1>. QED  BY <1>5, <1>6, <1>7, <1>8, <1>9 DEF IInv

\* The comparison is what makes the bytes handed over the query's own: a file
\* of the query is one of Files, so neither a part nor nothing passes for it.
LEMMA AddSampleInv ==
    ASSUME IInv, NEW t \in Tabs, AddSample(t)
    PROVE  IInv'
<1>. DEFINE q == tab[t].job  bytes == tab[t].read
<1>1. q \in Queries /\ q \in Jobs /\ bytes \in Bytes /\ None \notin Files /\ Part \notin Files /\ Part # None
  BY PartIsNoFile DEF AddSample, IInv, TabsPlaced, Placed, AboutQuery, Jobs
<1>2. file[q] \in Files \cup {None}
  BY <1>1 DEF IInv, TypeOK
<1>3. StoredMatches(q, bytes) => bytes \in Files /\ bytes = file[q]
  BY <1>1, <1>2 DEF StoredMatches, Bytes
<1>4. UNCHANGED <<file, upload>>
  BY DEF AddSample
<1>5. CASE Refused(t) /\ UNCHANGED <<job, added, corpus>>
  <2>1. tab' \in [Tabs -> TabPages] /\ TabsPlaced'
    BY <1>1, <1>5, OpenKeeps DEF IInv, Refused, AboutQuery, AboutJob
  <2>. QED  BY <1>4, <1>5, <2>1, TabKeeps DEF IInv, TypeOK
<1>6. CASE /\ StoredMatches(q, bytes)
           /\ corpus' = WithSample(Sha(file[q]), bytes, q)
           /\ To(t, "sample") /\ UNCHANGED <<job, added>>
  <2>1. tab' \in [Tabs -> TabPages] /\ TabsPlaced'
    BY <1>6, ToKeeps DEF IInv, Pages
  <2>2. Sha(file[q]) \in Bytes
    BY <1>3, <1>6, KindOfFile DEF Sha, Bytes
  <2>3. corpus' \subseteq Samples /\ Matching'
    BY <1>1, <1>3, <1>4, <1>6, <2>2, SampleKeeps DEF IInv, TypeOK
  <2>4. TypeOK'
    BY <1>4, <1>6, <2>1, <2>3 DEF IInv, TypeOK
  <2>5. Issued' /\ Promoted'
    BY <1>4, <1>6 DEF IInv, Issued, Promoted
  <2>. QED  BY <2>1, <2>3, <2>4, <2>5 DEF IInv
<1>7. CASE /\ StoredMatches(q, bytes) /\ Unissued # {}
           /\ job' = [job EXCEPT ![NextId] = InState("queued")]
           /\ added' = [added EXCEPT ![NextId] = [bytes |-> bytes, query |-> q]]
           /\ Open(t, "load", NextId, TRUE)
           /\ UNCHANGED corpus
  <2>. DEFINE a == NextId  r == [bytes |-> bytes, query |-> q]
  <2>1. a \in Adds /\ a \in Jobs /\ a \notin Queries
    BY <1>7, JobsApart DEF Unissued, NextId, Jobs
  <2>2. r \in [bytes : Files, query : Queries] /\ r.bytes = file[r.query] /\ r \in [bytes : Bytes, query : Queries]
    BY <1>1, <1>3, <1>7 DEF Bytes
  <2>3. InState("queued") \in [state : JobStates, progress : {0, 1}] /\ InState("queued").state # "none"
    BY DEF InState, JobStates
  <2>4. job' = [job EXCEPT ![a] = InState("queued")] /\ added' = [added EXCEPT ![a] = r]
    BY <1>7
  <2>5. tab' \in [Tabs -> TabPages] /\ TabsPlaced'
    BY <1>7, <2>1, OpenKeeps DEF IInv, AboutQuery, AboutJob
  <2>. HIDE DEF a, r
  <2>6. TypeOK'
    <3>1. job' \in [Jobs -> [state : JobStates, progress : {0, 1}]]
      BY <2>3, <2>4 DEF IInv, TypeOK
    <3>2. added' \in [Adds -> [bytes : Bytes, query : Queries] \cup {None}]
      BY <2>2, <2>4 DEF IInv, TypeOK
    <3>. QED  BY <1>4, <1>7, <2>5, <3>1, <3>2 DEF IInv, TypeOK
  <2>7. Issued'
    BY <1>4, <2>1, <2>4 DEF IInv, TypeOK, Issued, Jobs
  <2>8. Promoted'
    <3>. SUFFICES ASSUME NEW b \in Adds, job'[b].state # "none"
                  PROVE  /\ added'[b] \in [bytes : Files, query : Queries]
                         /\ added'[b].bytes = file[added'[b].query]
      BY <1>4 DEF Promoted
    <3>1. CASE b = a
      BY <2>2, <2>4, <3>1 DEF IInv, TypeOK
    <3>2. CASE b # a
      BY <2>4, <3>2 DEF IInv, TypeOK, Promoted, Jobs
    <3>. QED  BY <3>1, <3>2
  <2>9. Matching'
    BY <1>4, <1>7 DEF IInv, Matching
  <2>. QED  BY <2>5, <2>6, <2>7, <2>8, <2>9 DEF IInv
<1>. QED  BY <1>5, <1>6, <1>7 DEF AddSample

\* The other steps of a tab leave the queue and the corpus alone.
LEMMA TabInv ==
    ASSUME IInv, NEW t \in Tabs,
           \/ Visit(t) \/ Leave(t) \/ Promote(t)
           \/ OpenUpload(t) \/ WriteUpload(t) \/ job_by_id(t) \/ job_status(t) \/ Received(t) \/ result(t)
           \/ ReadReport(t) \/ AskCorpus(t) \/ ReadUpload(t)
    PROVE  IInv'
<1>. DEFINE Moved == tab' \in [Tabs -> TabPages] /\ TabsPlaced'
            j == tab[t].job
<1>0. TypeOK /\ TabsPlaced /\ tab[t] \in TabPages /\ Placed(tab[t]) /\ Queries \subseteq Jobs
  BY DEF IInv, TypeOK, TabsPlaced, Jobs
<1>1. UNCHANGED <<job, file, added, corpus>>
  BY DEF Visit, Leave, Promote, OpenUpload, WriteUpload, job_by_id, job_status, Received, result,
         ReadReport, AskCorpus, ReadUpload
<1>2. upload' \in [Queries -> Bytes \cup {None}]
  <2>1. CASE OpenUpload(t)
    BY <1>0, <2>1 DEF OpenUpload, TypeOK, Bytes
  <2>2. CASE WriteUpload(t)
    BY <1>0, <2>2 DEF WriteUpload, TypeOK, Placed, AboutQuery, Bytes
  <2>3. CASE UNCHANGED upload
    BY <2>3, <1>0 DEF TypeOK
  <2>. QED  BY <2>1, <2>2, <2>3 DEF Visit, Leave, Promote, job_by_id, job_status, Received, result,
         ReadReport, AskCorpus, ReadUpload
<1>3. Moved
  <2>1. CASE Visit(t)
    BY <1>0, <2>1, OpenKeeps DEF Visit, AboutQuery, AboutJob
  <2>2. CASE Leave(t)
    BY <1>0, <2>2, ToKeeps DEF Leave, Pages
  <2>3. CASE Promote(t)
    BY <1>0, <2>3, StepKeeps DEF Promote, Placed, AboutQuery
  <2>4. CASE OpenUpload(t)
    BY <1>0, <2>4, StepKeeps DEF OpenUpload, Placed, AboutQuery, AboutJob
  <2>5. CASE WriteUpload(t)
    BY <1>0, <2>5, StepKeeps DEF WriteUpload, Placed, AboutQuery, AboutJob
  <2>6. CASE job_by_id(t)
    <3>0. j \in Jobs
      BY <1>0, <2>6 DEF job_by_id, Placed, AboutJob
    <3>1. CASE To(t, "invalid") \/ To(t, "index")
      BY <1>0, <3>1, ToKeeps DEF Pages
    <3>2. CASE Open(t, "loadresult", j, FALSE)
      BY <1>0, <3>0, <3>2, OpenKeeps DEF AboutQuery, AboutJob
    <3>. DEFINE refresh == tab[t].auto /\ job[j].state # "failed"
                p == [Fresh("overview", j, refresh) EXCEPT !.shown = IF refresh THEN job_overview_state(j) ELSE None]
    <3>3. CASE tab' = [tab EXCEPT ![t] = p]
      <4>0. tab[t].auto \in BOOLEAN /\ job[j] \in [state : JobStates, progress : {0, 1}]
        BY <1>0, <3>0 DEF TabPages, TypeOK
      <4>1. job_overview_state(j) \in Overview
        BY <4>0 DEF job_overview_state, Overview
      <4>2. refresh \in BOOLEAN
        BY <4>0
      <4>. HIDE DEF refresh
      <4>3. p = [at |-> "overview", job |-> j, auto |-> refresh,
                 shown |-> IF refresh THEN job_overview_state(j) ELSE None, answer |-> None, read |-> None]
        BY DEF Fresh
      <4>4. (IF refresh THEN job_overview_state(j) ELSE None) \in Overview \cup {None}
        BY <4>1
      <4>5. p \in TabPages /\ p.at = "overview" /\ p.job = j
        BY <3>0, <4>2, <4>3, <4>4, Zenon DEF TabPages
      <4>. HIDE DEF p
      <4>6. Placed(p)
        BY <3>0, <4>5 DEF Placed, AboutQuery
      <4>7. tab' \in [Tabs -> TabPages] /\ \A u \in Tabs : tab'[u] = (IF u = t THEN p ELSE tab[u])
        BY <1>0, <3>3, <4>5 DEF TypeOK
      <4>. QED  BY <1>0, <4>6, <4>7 DEF TabsPlaced
    <3>. QED  BY <2>6, <3>1, <3>2, <3>3 DEF job_by_id
  <2>7. CASE job_status(t)
    <3>0. j \in Jobs
      BY <1>0, <2>7 DEF job_status, Polls, Placed, AboutJob
    <3>1. CASE Open(t, "load", j, TRUE)
      BY <1>0, <3>0, <3>1, OpenKeeps DEF AboutQuery, AboutJob
    <3>. DEFINE p == [tab[t] EXCEPT !.answer = job_overview_state(j)]
    <3>2. CASE tab' = [tab EXCEPT ![t].answer = job_overview_state(j)]
      <4>1. job_overview_state(j) \in Overview
        BY <1>0, <3>0 DEF job_overview_state, Overview, TypeOK
      <4>2. p \in TabPages /\ p.at = tab[t].at /\ p.job = j /\ p.read = tab[t].read
        BY <1>0, <4>1 DEF TabPages
      <4>3. tab' = [tab EXCEPT ![t] = p]
        BY <3>2
      <4>. HIDE DEF p
      <4>4. Placed(p)
        BY <1>0, <4>2 DEF Placed
      <4>5. tab' \in [Tabs -> TabPages] /\ \A u \in Tabs : tab'[u] = (IF u = t THEN p ELSE tab[u])
        BY <1>0, <4>2, <4>3 DEF TypeOK
      <4>. QED  BY <1>0, <4>4, <4>5 DEF TabsPlaced
    <3>. QED  BY <2>7, <3>1, <3>2 DEF job_status
  <2>8. CASE Received(t)
    <3>. DEFINE at == IF Changed(tab[t].answer, tab[t].shown) THEN "load" ELSE tab[t].at
                p == [tab[t] EXCEPT !.answer = None, !.at = at]
    <3>1. at \in {"load", "overview"}
      BY <2>8 DEF Received, Polls
    <3>2. tab' = [tab EXCEPT ![t] = p]
      BY <2>8 DEF Received
    <3>3. j \in Jobs
      BY <1>0, <2>8 DEF Received, Polls, Placed, AboutJob
    <3>. HIDE DEF at
    <3>4. p \in TabPages /\ p.at = at /\ p.job = j
      BY <1>0, <3>1 DEF TabPages
    <3>. HIDE DEF p
    <3>5. Placed(p)
      BY <3>1, <3>3, <3>4 DEF Placed, AboutQuery
    <3>6. tab' \in [Tabs -> TabPages] /\ \A u \in Tabs : tab'[u] = (IF u = t THEN p ELSE tab[u])
      BY <1>0, <3>2, <3>4 DEF TypeOK
    <3>. QED  BY <1>0, <3>5, <3>6 DEF TabsPlaced
  <2>9. CASE result(t)
    <3>1. CASE \E page \in {"invalid", "sample", "empty", "failed", "progress", "index"} : To(t, page)
      BY <1>0, <3>1, ToKeeps DEF Pages
    <3>2. CASE j \in Queries /\ Open(t, "result", j, FALSE)
      BY <1>0, <3>2, OpenKeeps DEF AboutQuery, AboutJob
    <3>. QED  BY <2>9, <3>1, <3>2 DEF result
  <2>10. CASE ReadReport(t) \/ AskCorpus(t) \/ ReadUpload(t)
    <3>0. j \in Queries
      BY <1>0, <2>10 DEF ReadReport, AskCorpus, ReadUpload, Placed, AboutQuery
    <3>1. CASE \E page \in {"jobs", "index", "sample"} : To(t, page)
      BY <1>0, <3>1, ToKeeps DEF Pages
    <3>2. CASE Refused(t)
      BY <1>0, <3>0, <3>2, OpenKeeps DEF Refused, AboutQuery, AboutJob
    <3>3. CASE Step(t, "corpus") \/ Step(t, "read")
      BY <1>0, <3>0, <3>3, StepKeeps DEF AboutQuery
    <3>. DEFINE p == [tab[t] EXCEPT !.at = "add", !.read = upload[j]]
    <3>4. CASE upload[j] # None /\ tab' = [tab EXCEPT ![t].at = "add", ![t].read = upload[j]]
      <4>1. upload[j] \in Bytes
        BY <1>0, <3>0, <3>4 DEF TypeOK
      <4>2. p \in TabPages /\ p.at = "add" /\ p.job = j /\ p.read = upload[j]
        BY <1>0, <4>1 DEF TabPages
      <4>3. tab' = [tab EXCEPT ![t] = p]
        BY <3>4
      <4>. HIDE DEF p
      <4>4. Placed(p)
        BY <3>0, <4>1, <4>2 DEF Placed, AboutJob
      <4>5. tab' \in [Tabs -> TabPages] /\ \A u \in Tabs : tab'[u] = (IF u = t THEN p ELSE tab[u])
        BY <1>0, <4>2, <4>3 DEF TypeOK
      <4>. QED  BY <1>0, <4>4, <4>5 DEF TabsPlaced
    <3>. QED  BY <2>10, <3>1, <3>2, <3>3, <3>4 DEF ReadReport, AskCorpus, ReadUpload
  <2>. QED  BY <2>1, <2>2, <2>3, <2>4, <2>5, <2>6, <2>7, <2>8, <2>9, <2>10
<1>. QED  BY <1>1, <1>2, <1>3, TabKeeps

LEMMA BackendInv == IInv /\ Backend => IInv'
<1>. SUFFICES ASSUME IInv, Backend PROVE IInv'
  OBVIOUS
<1>0. TypeOK /\ Adds \subseteq Jobs /\ Queries \subseteq Jobs
  BY DEF IInv, Jobs
<1>1. ASSUME NEW j \in Jobs, deleteJob(j) \/ Starts(j) \/ Progresses(j) \/ Fails(j)
      PROVE  IInv'
  <2>1. UNCHANGED <<file, upload, added, corpus, tab>>
    BY <1>1 DEF deleteJob, Starts, Progresses, Fails
  <2>2. \E r \in [state : JobStates, progress : {0, 1}] :
           r.state # "none" /\ job' = [job EXCEPT ![j] = r] /\ job[j].state # "none"
    <3>0. job[j] \in [state : JobStates, progress : {0, 1}] /\ job \in [Jobs -> [state : JobStates, progress : {0, 1}]]
      BY <1>0 DEF TypeOK
    <3>1. CASE deleteJob(j) \/ Fails(j)
      BY <3>0, <3>1 DEF deleteJob, Fails, Known, InState, JobStates
    <3>2. CASE Starts(j)
      <4>. DEFINE r == [job[j] EXCEPT !.state = "running"]
      <4>1. r \in [state : JobStates, progress : {0, 1}] /\ r.state = "running"
        BY <3>0 DEF JobStates
      <4>2. job' = [job EXCEPT ![j] = r] /\ job[j].state # "none"
        BY <3>2 DEF Starts
      <4>. HIDE DEF r
      <4>. QED  BY <4>1, <4>2
    <3>3. CASE Progresses(j)
      <4>. DEFINE r == [job[j] EXCEPT !.progress = 1]
      <4>1. r \in [state : JobStates, progress : {0, 1}] /\ r.state = job[j].state
        BY <3>0
      <4>2. job' = [job EXCEPT ![j] = r] /\ job[j].state # "none"
        BY <3>3 DEF Progresses
      <4>. HIDE DEF r
      <4>. QED  BY <4>1, <4>2
    <3>. QED  BY <1>1, <3>1, <3>2, <3>3
  <2>3. /\ job' \in [Jobs -> [state : JobStates, progress : {0, 1}]]
        /\ TabsPlaced' /\ Issued' /\ Promoted'
    BY <2>1, <2>2, QueueKeeps
  <2>. QED  BY <2>1, <2>3 DEF IInv, TypeOK, Matching
<1>2. ASSUME NEW j \in Jobs, Finishes(j)
      PROVE  IInv'
  <2>1. InState("finished") \in [state : JobStates, progress : {0, 1}] /\ InState("finished").state # "none"
    BY DEF InState, JobStates
  <2>2. job' = [job EXCEPT ![j] = InState("finished")] /\ job[j].state = "running" /\ UNCHANGED <<file, upload, added, tab>>
    BY <1>2 DEF Finishes
  <2>3. /\ job' \in [Jobs -> [state : JobStates, progress : {0, 1}]]
        /\ TabsPlaced' /\ Issued' /\ Promoted'
    BY <2>1, <2>2, QueueKeeps
  <2>4. corpus' \subseteq Samples /\ Matching'
    <3>1. CASE j \in Queries
      BY <1>2, <2>2, <3>1 DEF Finishes, IInv, TypeOK, Matching
    <3>2. CASE j \notin Queries
      <4>1. j \in Adds
        BY <3>2 DEF Jobs
      <4>2. added[j] \in [bytes : Files, query : Queries] /\ added[j].bytes = file[added[j].query]
        BY <2>2, <4>1 DEF IInv, Promoted
      <4>3. added[j].bytes \in Files /\ added[j].query \in Queries
        BY <4>2
      <4>4. corpus' = WithSample(added[j].bytes, added[j].bytes, added[j].query)
        BY <1>2, <3>2 DEF Finishes
      <4>. QED  BY <2>2, <4>2, <4>3, <4>4, SampleKeeps DEF IInv, TypeOK, Bytes
    <3>. QED  BY <3>1, <3>2
  <2>. QED  BY <2>2, <2>3, <2>4 DEF IInv, TypeOK
<1>3. ASSUME NEW f \in Files, Submitted(f)
      PROVE  IInv'
  <2>1. UNCHANGED <<job, file, upload, added, tab>> /\ corpus' = WithSample(Sha(f), None, None)
    BY <1>3 DEF Submitted
  <2>2. Sha(f) \in Bytes
    BY KindOfFile DEF Sha, Bytes
  <2>3. corpus' \subseteq Samples /\ Matching'
    BY <2>1, <2>2, SampleKeeps DEF IInv, TypeOK
  <2>. QED  BY <2>1, <2>3 DEF IInv, TypeOK, TabsPlaced, Issued, Promoted
<1>. QED  BY <1>1, <1>2, <1>3 DEF Backend

LEMMA StepInv == IInv /\ [Next]_vars => IInv'
<1>. SUFFICES ASSUME IInv, [Next]_vars PROVE IInv'
  OBVIOUS
<1>1. CASE Backend
  BY <1>1, BackendInv
<1>2. ASSUME NEW t \in Tabs, Reader(t) \/ Page(t) \/ Promotion(t)
      PROVE  IInv'
  BY <1>2, SubmitInv, AddSampleInv, TabInv DEF Reader, Page, Promotion
<1>3. CASE UNCHANGED vars
  BY <1>3 DEF vars, IInv, TypeOK, TabsPlaced, Issued, Promoted, Matching
<1>. QED  BY <1>1, <1>2, <1>3 DEF Next
--------------------------------------------------------------------------------
\* The inductive invariant of the queries and their promotions.
THEOREM QueryInvariant == Spec => []IInv
<1>. QED  BY InitInv, StepInv, PTL DEF Spec

\* promote_query adds what its query ran on and nothing else, however the
\* upload, the promotions of several readers, the workers and the deletions
\* of jobs interleave, and however much of the upload was stored.
THEOREM PromotionsAreFaithful == Spec => []PromotesItsBytes
<1>1. IInv => PromotesItsBytes
  BY DEF IInv, Matching, PromotesItsBytes
<1>. QED  BY <1>1, QueryInvariant, PTL

\* The variables keep their types.
THEOREM QueryTypes == Spec => []TypeOK
<1>1. IInv => TypeOK
  BY DEF IInv
<1>. QED  BY <1>1, QueryInvariant, PTL
--------------------------------------------------------------------------------
(* News.  A tab compares two readings of a job, and renders a third.  Whatever *)
(* the page shows lies behind the job, which only ever goes on.                *)

Ended == {"finished", "failed", "gone"}

\* A job in state s may be in state r later.
GoesOn(s, r) ==
    \/ s = r
    \/ s = "none"
    \/ s = "queued" /\ r # "none"
    \/ s = "running" /\ r \in Ended
    \/ r = "gone"

\* What the page p tells of its job, which is in state s by now.
Told(p, s) ==
    /\ p.shown = None => p.answer = None /\ ~(p.at = "overview" /\ p.auto)
    /\ p.shown # None => /\ p.at \in {"load", "overview"} /\ ~p.shown.finished /\ ~p.shown.failed
                         /\ s # "none" /\ (p.shown.started => s # "queued")
    /\ p.answer # None => /\ p.at = "overview"
                          /\ p.shown.started => p.answer.started
                          /\ p.answer.started => s # "queued"
                          /\ p.answer.finished \/ p.answer.failed => s \in Ended
    /\ p.at = "load" /\ p.shown # None => s # "queued" /\ (p.shown.started => s \in Ended)

State(p) == job[p.job].state
NewsInv == \A t \in Tabs : Told(tab[t], State(tab[t]))

LEMMA ToldLater ==
    ASSUME NEW p, NEW s, NEW r, Told(p, s), p.shown # None => GoesOn(s, r)
    PROVE  Told(p, r)
  BY DEF Told, GoesOn, Ended

\* Every step of a job goes on.
LEMMA JobGoesOn ==
    ASSUME IInv, [Next]_vars, NEW j \in Jobs
    PROVE  GoesOn(job[j].state, job'[j].state)
<1>1. job \in [Jobs -> [state : JobStates, progress : {0, 1}]]
  BY DEF IInv, TypeOK
<1>2. ASSUME NEW k \in Jobs, NEW r, job' = [job EXCEPT ![k] = r], GoesOn(job[k].state, r.state)
      PROVE  GoesOn(job[j].state, job'[j].state)
  BY <1>1, <1>2 DEF GoesOn
<1>3. ASSUME UNCHANGED job  PROVE GoesOn(job[j].state, job'[j].state)
  BY <1>3 DEF GoesOn
<1>4. \A state : InState(state).state = state
  BY DEF InState
<1>5. ASSUME NEW k \in Jobs, deleteJob(k) \/ Starts(k) \/ Progresses(k) \/ Fails(k) \/ Finishes(k)
      PROVE  GoesOn(job[j].state, job'[j].state)
  <2>0. /\ [job[k] EXCEPT !.state = "running"].state = "running"
        /\ [job[k] EXCEPT !.progress = 1].state = job[k].state
    BY <1>1
  <2>1. CASE deleteJob(k)
    BY <1>2, <1>4, <2>1 DEF deleteJob, GoesOn
  <2>2. CASE Starts(k)
    <3>. DEFINE r == [job[k] EXCEPT !.state = "running"]
    <3>1. job' = [job EXCEPT ![k] = r] /\ GoesOn(job[k].state, r.state)
      BY <1>1, <2>0, <2>2 DEF Starts, GoesOn
    <3>. HIDE DEF r
    <3>. QED  BY <1>2, <3>1
  <2>3. CASE Progresses(k)
    <3>. DEFINE r == [job[k] EXCEPT !.progress = 1]
    <3>1. job' = [job EXCEPT ![k] = r] /\ GoesOn(job[k].state, r.state)
      BY <1>1, <2>0, <2>3 DEF Progresses, GoesOn
    <3>. HIDE DEF r
    <3>. QED  BY <1>2, <3>1
  <2>4. CASE Fails(k)
    BY <1>2, <1>4, <2>4 DEF Fails, GoesOn, Ended
  <2>5. CASE Finishes(k)
    BY <1>2, <1>4, <2>5 DEF Finishes, GoesOn, Ended
  <2>. QED  BY <1>5, <2>1, <2>2, <2>3, <2>4, <2>5
<1>6. ASSUME NEW t \in Tabs, NEW q \in Queries, Submit(t, q)
      PROVE  GoesOn(job[j].state, job'[j].state)
  <2>1. q \in Jobs /\ job' = [job EXCEPT ![q] = InState("queued")] /\ GoesOn(job[q].state, InState("queued").state)
    BY <1>4, <1>6 DEF Submit, GoesOn, Jobs
  <2>. QED  BY <1>2, <2>1
<1>7. ASSUME NEW t \in Tabs, AddSample(t)
      PROVE  GoesOn(job[j].state, job'[j].state)
  <2>1. CASE UNCHANGED job
    BY <1>3, <2>1
  <2>2. CASE Unissued # {} /\ job' = [job EXCEPT ![NextId] = InState("queued")]
    <3>1. NextId \in Adds /\ job[NextId].state = "none"
      BY <2>2 DEF NextId, Unissued
    <3>2. NextId \in Jobs /\ GoesOn(job[NextId].state, InState("queued").state)
      BY <1>4, <3>1 DEF GoesOn, Jobs
    <3>. QED  BY <1>2, <2>2, <3>2
  <2>. QED  BY <1>7, <2>1, <2>2 DEF AddSample
<1>8. \/ UNCHANGED job
      \/ \E k \in Jobs : deleteJob(k) \/ Starts(k) \/ Progresses(k) \/ Fails(k) \/ Finishes(k)
      \/ \E t \in Tabs : AddSample(t) \/ \E q \in Queries : Submit(t, q)
  BY DEF Next, Backend, Reader, Page, Promotion, Submitted, Visit, Leave, Promote, OpenUpload, WriteUpload,
         job_by_id, job_status, Received, result, ReadReport, AskCorpus, ReadUpload, vars
<1>. QED  BY <1>3, <1>5, <1>6, <1>7, <1>8

\* A page that shows nothing a poll could compare with.
Bare(p) == p.shown = None /\ p.answer = None /\ ~(p.at = "overview" /\ p.auto)
MadeBare(t) == \E p : tab' = [tab EXCEPT ![t] = p] /\ Bare(p)

LEMMA OpenBare ==
    ASSUME NEW t \in Tabs, NEW at, NEW j, NEW auto, at # "overview", Open(t, at, j, auto)
    PROVE  MadeBare(t)
<1>. DEFINE p == Fresh(at, j, auto)
<1>1. Bare(p)
  BY DEF Fresh, Bare
<1>2. tab' = [tab EXCEPT ![t] = p]
  BY DEF Open
<1>. HIDE DEF p
<1>. QED  BY <1>1, <1>2 DEF MadeBare

LEMMA ToBare ==
    ASSUME NEW t \in Tabs, NEW page, page # "overview", To(t, page)
    PROVE  MadeBare(t)
  BY OpenBare DEF To

LEMMA StepBare ==
    ASSUME IInv, NewsInv, NEW t \in Tabs, NEW at, at # "overview",
           tab[t].at \notin {"load", "overview"}, Step(t, at)
    PROVE  MadeBare(t)
<1>. DEFINE p == [tab[t] EXCEPT !.at = at]
<1>1. tab[t] \in TabPages /\ Told(tab[t], State(tab[t]))
  BY DEF IInv, TypeOK, NewsInv
<1>2. p.shown = tab[t].shown /\ p.answer = tab[t].answer /\ p.at = at
  BY <1>1 DEF TabPages
<1>3. tab[t].shown = None
  BY <1>1 DEF Told
<1>4. tab[t].answer = None
  BY <1>1, <1>3 DEF Told
<1>5. tab' = [tab EXCEPT ![t] = p]
  BY DEF Step
<1>. HIDE DEF p
<1>. QED  BY <1>2, <1>3, <1>4, <1>5 DEF MadeBare, Bare

\* Every other step of a tab leaves a page with nothing to compare.
LEMMA TabSteps ==
    ASSUME IInv, NewsInv, [Next]_vars
    PROVE  \/ UNCHANGED tab
           \/ \E t \in Tabs : MadeBare(t) \/ job_by_id(t) \/ job_status(t) \/ Received(t)
<1>1. ASSUME NEW t \in Tabs, NEW q \in Queries, Submit(t, q)  PROVE MadeBare(t)
  BY <1>1, OpenBare DEF Submit
<1>2. ASSUME NEW t \in Tabs, Visit(t)  PROVE MadeBare(t)
  BY <1>2, OpenBare DEF Visit
<1>3. ASSUME NEW t \in Tabs, Leave(t)  PROVE MadeBare(t)
  BY <1>3, ToBare DEF Leave
<1>4. ASSUME NEW t \in Tabs, Promote(t) \/ OpenUpload(t) \/ WriteUpload(t)  PROVE MadeBare(t)
  BY <1>4, StepBare DEF Promote, OpenUpload, WriteUpload
<1>5. ASSUME NEW t \in Tabs, result(t)  PROVE MadeBare(t)
  BY <1>5, ToBare, OpenBare DEF result
<1>6. ASSUME NEW t \in Tabs, ReadReport(t)  PROVE MadeBare(t)
  BY <1>6, ToBare, OpenBare, StepBare DEF ReadReport, Refused
<1>7. ASSUME NEW t \in Tabs, AskCorpus(t)  PROVE MadeBare(t)
  BY <1>7, ToBare, StepBare DEF AskCorpus
<1>8. ASSUME NEW t \in Tabs, ReadUpload(t)  PROVE MadeBare(t)
  <2>1. CASE Refused(t)
    BY <2>1, OpenBare DEF Refused
  <2>2. CASE ~Refused(t)
    <3>. DEFINE p == [tab[t] EXCEPT !.at = "add", !.read = upload[tab[t].job]]
    <3>1. tab[t] \in TabPages /\ Told(tab[t], State(tab[t]))
      BY DEF IInv, TypeOK, NewsInv
    <3>2. p.shown = tab[t].shown /\ p.answer = tab[t].answer /\ p.at = "add"
      BY <3>1 DEF TabPages
    <3>3. tab[t].shown = None
      BY <1>8, <3>1 DEF ReadUpload, Told
    <3>4. tab[t].answer = None
      BY <3>1, <3>3 DEF Told
    <3>5. tab' = [tab EXCEPT ![t] = p]
      BY <1>8, <2>2 DEF ReadUpload
    <3>. HIDE DEF p
    <3>. QED  BY <3>2, <3>3, <3>4, <3>5 DEF MadeBare, Bare
  <2>. QED  BY <2>1, <2>2
<1>9. ASSUME NEW t \in Tabs, AddSample(t)  PROVE MadeBare(t)
  BY <1>9, ToBare, OpenBare DEF AddSample, Refused
<1>10. ASSUME Backend \/ UNCHANGED vars  PROVE UNCHANGED tab
  BY <1>10 DEF Backend, Submitted, deleteJob, Starts, Progresses, Fails, Finishes, vars
<1>. QED
  BY <1>1, <1>2, <1>3, <1>4, <1>5, <1>6, <1>7, <1>8, <1>9, <1>10 DEF Next, Reader, Page, Promotion

\* What the tab t brings to the screen is news.
News(t) ==
    tab[t].at = "load" /\ tab[t].shown # None /\ tab'[t].at = "overview"
        => tab'[t].shown = None \/ Listed(tab'[t].shown) # Listed(tab[t].shown)

LEMMA NewsStep ==
    ASSUME IInv, NewsInv, [Next]_vars
    PROVE  NewsInv' /\ \A t \in Tabs : News(t)
<1>0. tab \in [Tabs -> TabPages] /\ job \in [Jobs -> [state : JobStates, progress : {0, 1}]]
      /\ \A t \in Tabs : Told(tab[t], State(tab[t])) /\ Placed(tab[t])
  BY DEF IInv, TypeOK, TabsPlaced, NewsInv
<1>1. \A t \in Tabs : tab[t].shown # None => tab[t].job \in Jobs
  BY <1>0 DEF Told, Placed, AboutJob
<1>2. ASSUME NEW t \in Tabs, tab'[t] = tab[t]  PROVE Told(tab'[t], State(tab[t])') /\ News(t)
  <2>1. tab[t].shown # None => GoesOn(State(tab[t]), State(tab[t])')
    BY <1>1, <1>2, JobGoesOn DEF State
  <2>2. Told(tab[t], State(tab[t])')
    BY <1>0, <2>1, ToldLater
  <2>. QED  BY <1>2, <2>2 DEF News
<1>3. ASSUME NEW t \in Tabs, NEW p, tab' = [tab EXCEPT ![t] = p],
             Told(p, job'[p.job].state), tab[t].at = "load" /\ tab[t].shown # None /\ p.at = "overview"
                => p.shown = None \/ Listed(p.shown) # Listed(tab[t].shown)
      PROVE  NewsInv' /\ \A u \in Tabs : News(u)
  <2>1. tab'[t] = p /\ \A u \in Tabs \ {t} : tab'[u] = tab[u]
    BY <1>0, <1>3
  <2>2. Told(tab'[t], State(tab[t])') /\ News(t)
    BY <1>3, <2>1 DEF State, News
  <2>. QED  BY <1>2, <2>1, <2>2 DEF NewsInv
<1>4. ASSUME NEW t \in Tabs, MadeBare(t)  PROVE NewsInv' /\ \A u \in Tabs : News(u)
  <2>1. PICK p : tab' = [tab EXCEPT ![t] = p] /\ Bare(p)
    BY <1>4 DEF MadeBare
  <2>2. Told(p, job'[p.job].state) /\ p.shown = None
    BY <2>1 DEF Bare, Told
  <2>. QED  BY <1>3, <2>1, <2>2
<1>5. ASSUME NEW t \in Tabs, job_by_id(t)  PROVE NewsInv' /\ \A u \in Tabs : News(u)
  <2>. DEFINE j == tab[t].job
              state == job[j].state
              refresh == tab[t].auto /\ state # "failed"
              listed == job_overview_state(j)
              p == [Fresh("overview", j, refresh) EXCEPT !.shown = IF refresh THEN listed ELSE None]
  <2>0. j \in Jobs /\ tab[t].at = "load" /\ UNCHANGED job
    BY <1>0, <1>5 DEF job_by_id, Placed, AboutJob
  <2>1. CASE MadeBare(t)
    BY <1>4, <2>1
  <2>2. CASE ~MadeBare(t)
    <3>1. tab' = [tab EXCEPT ![t] = p] /\ Known(j) /\ ~(state = "finished" /\ tab[t].auto)
      BY <1>5, <2>2, ToBare, OpenBare DEF job_by_id
    <3>2. p = [at |-> "overview", job |-> j, auto |-> refresh,
               shown |-> IF refresh THEN listed ELSE None, answer |-> None, read |-> None]
      BY DEF Fresh
    <3>3. listed.started <=> state \in {"running", "finished", "failed"}
      BY DEF job_overview_state
    <3>4. ~listed.finished <=> state # "finished"
      BY DEF job_overview_state
    <3>5. ~listed.failed <=> state # "failed"
      BY DEF job_overview_state
    <3>6. refresh => state \in {"queued", "running"}
      BY <1>0, <2>0, <3>1 DEF Known, JobStates
    <3>7. Told(p, job'[p.job].state)
      <4>1. /\ p.at = "overview" /\ p.answer = None /\ p.job = j
            /\ refresh => p.shown = listed
            /\ ~refresh => p.shown = None /\ p.auto = FALSE
        BY <1>0, <3>2 DEF TabPages
      <4>2. listed # None
        <5>1. job[j] \in [state : JobStates, progress : {0, 1}]
          BY <1>0, <2>0
        <5>2. listed \in Overview
          BY <5>1 DEF job_overview_state, Overview
        <5>. HIDE DEF listed
        <5>. QED  BY <5>2, NothingIsNoOverview
      <4>3. job'[p.job].state = state
        BY <2>0, <4>1
      <4>. HIDE DEF p, listed, refresh, state
      <4>4. CASE refresh
        BY <3>3, <3>4, <3>5, <3>6, <4>1, <4>2, <4>3, <4>4 DEF Told
      <4>5. CASE ~refresh
        BY <4>1, <4>5 DEF Told
      <4>. QED  BY <4>4, <4>5
    <3>8. ASSUME tab[t].shown # None, refresh  PROVE Listed(listed) # Listed(tab[t].shown)
      <4>1. state # "queued" /\ (tab[t].shown.started => state \in Ended)
        BY <1>0, <2>0, <3>8 DEF Told, State
      <4>2. listed.started /\ ~tab[t].shown.started
        BY <3>3, <3>6, <3>8, <4>1 DEF Ended
      <4>. QED  BY <4>2 DEF Listed
    <3>9. p.shown = (IF refresh THEN listed ELSE None)
      BY <3>2
    <3>. HIDE DEF p, listed, refresh
    <3>. QED  BY <1>3, <2>0, <3>1, <3>7, <3>8, <3>9
  <2>. QED  BY <2>1, <2>2
<1>6. ASSUME NEW t \in Tabs, job_status(t)  PROVE NewsInv' /\ \A u \in Tabs : News(u)
  <2>. DEFINE listed == job_overview_state(tab[t].job)
              state == State(tab[t])
              p == [tab[t] EXCEPT !.answer = listed]
  <2>0. tab[t].at = "overview" /\ tab[t].auto /\ UNCHANGED job
    BY <1>6 DEF job_status, Polls
  <2>1. CASE MadeBare(t)
    BY <1>4, <2>1
  <2>2. CASE ~MadeBare(t)
    <3>1. tab' = [tab EXCEPT ![t].answer = listed] /\ Known(tab[t].job)
      BY <1>6, <2>2, OpenBare DEF job_status
    <3>2. tab' = [tab EXCEPT ![t] = p]
      BY <3>1
    <3>3. /\ p.at = "overview" /\ p.auto = tab[t].auto /\ p.shown = tab[t].shown /\ p.job = tab[t].job
          /\ p.answer = listed
      BY <1>0, <2>0 DEF TabPages
    <3>4. job'[p.job].state = state
      BY <2>0, <3>3 DEF State
    <3>5. listed.started <=> state \in {"running", "finished", "failed"}
      BY DEF job_overview_state, State
    <3>6. listed.finished \/ listed.failed => state \in Ended
      BY DEF job_overview_state, State, Ended
    <3>7. tab[t].shown # None /\ Told(tab[t], state)
      BY <1>0, <2>0 DEF Told
    <3>8. state \in JobStates \ {"none", "gone"}
      BY <1>0, <1>1, <3>1, <3>7 DEF Known, State
    <3>9. tab[t].shown.started => listed.started
      BY <3>5, <3>7, <3>8 DEF Told, JobStates
    <3>10. Told(p, job'[p.job].state)
      <4>. HIDE DEF p, listed, state
      <4>. QED  BY <3>3, <3>4, <3>5, <3>6, <3>7, <3>9 DEF Told
    <3>. HIDE DEF p
    <3>. QED  BY <1>3, <2>0, <3>2, <3>10
  <2>. QED  BY <2>1, <2>2
<1>7. ASSUME NEW t \in Tabs, Received(t)  PROVE NewsInv' /\ \A u \in Tabs : News(u)
  <2>. DEFINE changed == Changed(tab[t].answer, tab[t].shown)
              at == IF changed THEN "load" ELSE tab[t].at
              state == State(tab[t])
              p == [tab[t] EXCEPT !.answer = None, !.at = at]
  <2>1. /\ tab[t].at = "overview" /\ tab[t].auto /\ tab[t].answer # None /\ UNCHANGED job
        /\ tab' = [tab EXCEPT ![t] = p]
    BY <1>7 DEF Received, Polls
  <2>2. tab[t].shown # None /\ Told(tab[t], state)
    BY <1>0, <2>1 DEF Told
  <2>3. tab[t].shown \in Overview /\ tab[t].answer \in Overview
    BY <1>0, <2>1, <2>2 DEF TabPages
  <2>4. changed => state # "queued" /\ (tab[t].shown.started => state \in Ended)
    BY <2>1, <2>2, <2>3 DEF Changed, Told, Overview, Ended
  <2>5. p.at = at /\ p.shown = tab[t].shown /\ p.answer = None /\ p.job = tab[t].job
    BY <1>0, <2>1 DEF TabPages
  <2>6. job'[p.job].state = state
    BY <2>1, <2>5 DEF State
  <2>7. Told(p, job'[p.job].state)
    <3>. HIDE DEF p, changed, state
    <3>. QED  BY <2>1, <2>2, <2>4, <2>5, <2>6 DEF Told
  <2>. HIDE DEF p
  <2>. QED  BY <1>3, <2>1, <2>7
<1>8. ASSUME UNCHANGED tab  PROVE NewsInv' /\ \A u \in Tabs : News(u)
  BY <1>2, <1>8 DEF NewsInv
<1>. QED  BY <1>4, <1>5, <1>6, <1>7, <1>8, TabSteps

LEMMA InitNews == Init => NewsInv
<1>. SUFFICES ASSUME Init, NEW t \in Tabs PROVE Told(tab[t], State(tab[t]))
  BY DEF NewsInv
<1>1. tab[t] = Fresh("blank", None, FALSE)
  BY DEF Init
<1>2. \A s : Told(Fresh("blank", None, FALSE), s)
  BY DEF Fresh, Told
<1>3. Told(tab[t], State(tab[t]))
  BY <1>1, <1>2, Zenon
<1>. QED  BY <1>3

\* What a page shows lies behind its job, and what a poll answered lies
\* between the two (job_status in jobs.py, the script of job_overview.html).
THEOREM NewsInvariant == Spec => []NewsInv
<1>1. IInv /\ NewsInv /\ [Next]_vars => NewsInv'
  BY NewsStep
<1>. QED  BY InitNews, <1>1, QueryInvariant, PTL DEF Spec

\* A page that reloads because of an answer has something new to show, even
\* though the job goes on between the answer and the page that follows it.
THEOREM AlwaysReloadsForNews == Spec => ReloadsForNews
<1>1. IInv /\ NewsInv /\ [Next]_vars
        => [\A t \in Tabs :
              tab[t].at = "load" /\ tab[t].shown # None /\ tab'[t].at = "overview"
                 => tab'[t].shown = None \/ Listed(tab'[t].shown) # Listed(tab[t].shown)]_vars
  BY NewsStep DEF News
<1>. QED  BY <1>1, QueryInvariant, NewsInvariant, PTL DEF Spec, ReloadsForNews
================================================================================
