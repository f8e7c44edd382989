--------------------------- MODULE ResultCacheProofs ---------------------------
(***************************************************************************)
(* Theorems about ResultCache, for any threads, jobs, bounds of the        *)
(* directory, kills and resets.                                            *)
(*                                                                         *)
(* What the directory lists is whole and of the past (Filed), so a page    *)
(* that looks a job up has names of that job alone in hand (Request).      *)
(* Before the first reset the directory is there and nobody takes a part   *)
(* out of it (Undisturbed), and a request whose job was finished as it     *)
(* began keeps that job until a reset (Served).                            *)
(*                                                                         *)
(* The second part is about trims, of which none sees what the others do.  *)
(* Chain says that the directory is past a bound only by what some         *)
(* requests, the fresh ones, wrote, and of the trims that are still timely *)
(* what they miss; each action is shown to leave such requests.            *)
(***************************************************************************)
EXTENDS ResultCache, FiniteSetTheorems, WellFoundedInduction, TLAPS

Working == {"load", "open", "info", "find", "send", "fetch", "write", "replace",
            "list", "stat", "evict"}
Resetting == {"scan", "unlink", "rmdir", "mkdir"}
Stages == Working \cup Resetting \cup {"idle", "done", "dead", "lost"}
Answers == {"none", "report", "half", "error", "invalid", "no result", "disk", "reset"}

Names == Nat \X Jobs
Request == [pc : Stages, kind : {"page", "download", "reset"}, job : Jobs \cup {None},
            todo : SUBSET Names, info : {"none", "running", "finished"},
            sec : Nat, mtime : Nat, listed : SUBSET File,
            within : SUBSET Nat, answer : Answers, of : Jobs \cup {None}, ready : BOOLEAN, since : Nat]

\* A name of the job, not of the future.
NamesOf(job, now) == {n \in Names : n[2] = job /\ n[1] <= now}

\* What a request has in hand is of its own job, and what it writes is not of the future.
Faithful(q, now) ==
    /\ q.pc \in Working => q.job \in Jobs
    /\ q.pc = "open" => q.todo \subseteq NamesOf(q.job, now)
    /\ q.pc = "send" => q.todo \subseteq NamesOf(q.job, now) /\ q.todo # {}
    /\ q.pc \in Working => q.of \in {None, q.job}
    /\ q.pc = "done" /\ q.answer = "report" => q.of = q.job
    /\ q.pc = "done" => q.answer # "half"
    /\ q.sec <= now

Counted ==
    /\ backend \in [Jobs -> {"none", "running", "finished"}]
    /\ clock \in Nat /\ writes \in Nat /\ resets \in Nat
    /\ cache \in {"full", "bare", "none"}
    /\ parts \subseteq Threads
    /\ thread \in [Threads -> Request]

\* The directory lists whole reports, each under a name of its own.
Filed ==
    /\ results \subseteq File
    /\ \A f \in results : f.whole /\ f.sec <= clock
    /\ \A f, g \in results : f.sec = g.sec /\ f.job = g.job => f = g
    /\ cache # "full" => results = {}

Requests == \A t \in Threads : Faithful(thread[t], clock) /\ thread[t].since <= resets

\* Nothing is forgotten before the first reset, and everything by it.
Undisturbed ==
    /\ resets > 0 => \A j \in Jobs : backend[j] = "none"
    /\ resets = 0 => /\ cache = "full"
                     /\ \A t \in Threads : thread[t].pc \notin Resetting
                     /\ \A t \in Threads : thread[t].pc = "replace" => t \in parts

\* A request whose job was finished as it began, under an id that it may ask for.
Calm(q, n) ==
    /\ q.pc # "idle" /\ q.kind # "reset" /\ q.ready /\ q.since = n
    /\ q.kind = "download" => q.job \in HexIds

Served ==
    \A t \in Threads : Calm(thread[t], resets) =>
        /\ thread[t].job \in Jobs /\ backend[thread[t].job] = "finished"
        /\ Done(t) => thread[t].answer \in {"report", "disk"}

IInv == Counted /\ Filed /\ Requests /\ Undisturbed /\ Served /\ NoPartLeft
--------------------------------------------------------------------------------
\* A set of names has a newest.
LEMMA NewestIsThere ==
    ASSUME NEW now \in Nat, NEW names, names # {}, \A n \in names : n \in Names /\ n[1] <= now
    PROVE  Newest(names) \in names
<1>. DEFINE ages == {now - n[1] : n \in names}
            less == OpToRel(<, Nat)
<1>1. \A n \in names : n[1] \in Nat /\ n[1] <= now
  BY DEF Names
<1>2. ages \subseteq Nat /\ ages # {}
  BY <1>1
<1>3. PICK x \in ages : \A y \in ages : <<y, x>> \notin less
  BY <1>2, WFMin, NatLessThanWellFounded, Zenon
<1>4. \A y \in ages : ~(y < x)
  BY <1>2, <1>3, Zenon DEF OpToRel
<1>5. PICK n \in names : x = now - n[1]
  BY <1>3
<1>6. \A m \in names : n[1] >= m[1]
  <2>. TAKE m \in names
  <2>1. now - m[1] \in ages
    OBVIOUS
  <2>2. ~(now - m[1] < now - n[1])
    BY <1>4, <1>5, <2>1
  <2>. QED  BY <1>1, <2>2
<1>. QED  BY <1>5, <1>6 DEF Newest

\* Two ids of one length, of which one ends in the other, are the same.
LEMMA MatchesOnlyItself ==
    ASSUME NEW j \in Jobs, NEW k \in Jobs, Matches(j, k)
    PROVE  j = k
  BY IdsAssumption DEF Matches

\* The names a listing finds for a job are its own, and not of the future.
LEMMA ListedNames ==
    ASSUME Counted, Filed, NEW job \in Jobs
    PROVE  {<<f.sec, f.job>> : f \in {g \in results : Matches(g.job, job)}}
               \subseteq NamesOf(job, clock)
<1>. SUFFICES ASSUME NEW f \in results, Matches(f.job, job)
              PROVE  <<f.sec, f.job>> \in NamesOf(job, clock)
  OBVIOUS
<1>1. f.sec \in Nat /\ f.job \in Jobs /\ f.sec <= clock
  BY DEF Filed, File
<1>2. f.job = job
  BY <1>1, MatchesOnlyItself
<1>. QED  BY <1>1, <1>2 DEF NamesOf, Names
--------------------------------------------------------------------------------
\* What stays of a request that goes on.
SameRequest(r, q) ==
    r.kind = q.kind /\ r.job = q.job /\ r.ready = q.ready /\ r.since = q.since

\* A request that goes on, goes on with names in hand, or ends.
On(q, pc) == [q EXCEPT !.pc = pc]
OnWith(q, pc, todo) == [q EXCEPT !.pc = pc, !.todo = todo]
Over(q, answer, job) == [q EXCEPT !.pc = "done", !.answer = answer, !.of = job]

LEMMA GoneOn ==
    ASSUME NEW q \in Request, NEW pc \in Stages
    PROVE  /\ On(q, pc) \in Request /\ SameRequest(On(q, pc), q)
           /\ On(q, pc).pc = pc /\ On(q, pc).sec = q.sec
           /\ On(q, pc).todo = q.todo /\ On(q, pc).of = q.of
  BY DEF Request, SameRequest, On

LEMMA TakesTodo ==
    ASSUME NEW q \in Request, NEW pc \in Stages, NEW todo \in SUBSET Names
    PROVE  /\ OnWith(q, pc, todo) \in Request /\ SameRequest(OnWith(q, pc, todo), q)
           /\ OnWith(q, pc, todo).pc = pc /\ OnWith(q, pc, todo).sec = q.sec
           /\ OnWith(q, pc, todo).todo = todo /\ OnWith(q, pc, todo).of = q.of
  BY DEF Request, SameRequest, OnWith

LEMMA Answered ==
    ASSUME NEW q \in Request, NEW answer \in Answers, NEW job \in Jobs \cup {None}
    PROVE  /\ Over(q, answer, job) \in Request /\ SameRequest(Over(q, answer, job), q)
           /\ Over(q, answer, job).pc = "done" /\ Over(q, answer, job).sec = q.sec
           /\ Over(q, answer, job).answer = answer /\ Over(q, answer, job).of = job
<1>. DEFINE r1 == [q EXCEPT !.pc = "done"]
            r2 == [r1 EXCEPT !.answer = answer]
            r3 == [r2 EXCEPT !.of = job]
<1>1. r1 \in Request /\ SameRequest(r1, q) /\ r1.pc = "done" /\ r1.sec = q.sec
  BY DEF Request, SameRequest, Stages
<1>. HIDE DEF r1
<1>2. /\ r2 \in Request /\ SameRequest(r2, r1) /\ r2.pc = r1.pc /\ r2.sec = r1.sec
      /\ r2.answer = answer
  BY <1>1 DEF Request, SameRequest
<1>. HIDE DEF r2
<1>3. /\ r3 \in Request /\ SameRequest(r3, r2) /\ r3.pc = r2.pc /\ r3.sec = r2.sec
      /\ r3.answer = r2.answer /\ r3.of = job
  BY <1>2 DEF Request, SameRequest
<1>4. Over(q, answer, job) = r3
  BY DEF Over, r1, r2
<1>. HIDE DEF r3
<1>. QED  BY <1>1, <1>2, <1>3, <1>4 DEF SameRequest

--------------------------------------------------------------------------------
\* A request moves, and keeps what the invariant asks of it.
LEMMA MoveInv ==
    ASSUME IInv, NEW t \in Threads, NEW q \in Request, Move(t, q),
           UNCHANGED <<backend, clock, resets>>,
           cache' \in {"full", "bare", "none"}, writes' \in Nat, parts' \subseteq parts \cup {t},
           Filed', Faithful(q, clock), q.since <= resets,
           resets = 0 => /\ cache' = cache /\ q.pc \notin Resetting
                         /\ parts \ {t} \subseteq parts' /\ (q.pc = "replace" => t \in parts'),
           t \in parts' => q.pc \in {"replace", "dead"},
           Calm(q, resets) =>
               /\ q.job \in Jobs /\ backend[q.job] = "finished"
               /\ q.pc = "done" => q.answer \in {"report", "disk"}
    PROVE  IInv'
<1>1. thread \in [Threads -> Request] /\ parts \subseteq Threads
  BY DEF IInv, Counted
<1>2. thread' \in [Threads -> Request] /\ \A u \in Threads : thread'[u] = IF u = t THEN q ELSE thread[u]
  BY <1>1 DEF Move
<1>3. Counted'
  BY <1>1, <1>2 DEF IInv, Counted
<1>4. Requests'
  BY <1>2 DEF IInv, Requests
<1>5. Undisturbed'
  BY <1>2 DEF IInv, Undisturbed
<1>6. Served'
  BY <1>2 DEF IInv, Served, Done
<1>7. NoPartLeft'
  BY <1>1, <1>2 DEF IInv, NoPartLeft
<1>. QED  BY <1>3, <1>4, <1>5, <1>6, <1>7 DEF IInv

\* The same for a request that goes on with what it began, and leaves the disk alone.
LEMMA ContinueInv ==
    ASSUME IInv, NEW t \in Threads, NEW q \in Request, SameRequest(q, thread[t]),
           Move(t, q), UNCHANGED <<world, disk>>,
           thread[t].pc \notin {"idle", "replace", "dead"}, Faithful(q, clock),
           q.pc \notin Resetting \cup {"replace"},
           Calm(thread[t], resets) /\ q.pc = "done" => q.answer \in {"report", "disk"}
    PROVE  IInv'
<1>1. UNCHANGED <<backend, clock, resets, cache, writes, parts, results>>
  BY DEF world, disk
<1>2. t \notin parts
  BY DEF IInv, NoPartLeft
<1>3. Filed'
  BY <1>1 DEF IInv, Filed
<1>4. q.since <= resets
  BY DEF IInv, Requests, SameRequest
<1>5. Calm(q, resets) => Calm(thread[t], resets) /\ q.job = thread[t].job
  BY DEF Calm, SameRequest
<1>6. Calm(q, resets) =>
          /\ q.job \in Jobs /\ backend[q.job] = "finished"
          /\ q.pc = "done" => q.answer \in {"report", "disk"}
  BY <1>5 DEF IInv, Served
<1>7. cache' \in {"full", "bare", "none"} /\ writes' \in Nat
  BY <1>1 DEF IInv, Counted
<1>. QED  BY <1>1, <1>2, <1>3, <1>4, <1>6, <1>7, MoveInv

\* What is known of a request under way.
LEMMA UnderWay ==
    ASSUME IInv, NEW t \in Threads
    PROVE  /\ thread[t] \in Request /\ Faithful(thread[t], clock) /\ clock \in Nat
           /\ thread[t].pc \in Working => thread[t].job \in Jobs
           /\ Calm(thread[t], resets) =>
                 /\ resets = 0 /\ cache = "full"
                 /\ thread[t].job \in Jobs /\ backend[thread[t].job] = "finished"
                 /\ thread[t].pc \notin Resetting
                 /\ thread[t].pc = "replace" => t \in parts
<1>1. thread[t] \in Request /\ Faithful(thread[t], clock) /\ clock \in Nat /\ resets \in Nat
  BY DEF IInv, Counted, Requests
<1>2. ASSUME Calm(thread[t], resets)
      PROVE  /\ resets = 0 /\ thread[t].job \in Jobs /\ backend[thread[t].job] = "finished"
  <2>1. thread[t].job \in Jobs /\ backend[thread[t].job] = "finished"
    BY <1>2 DEF IInv, Served
  <2>2. ~(resets > 0)
    BY <2>1 DEF IInv, Undisturbed
  <2>. QED  BY <1>1, <2>1, <2>2
<1>. QED  BY <1>1, <1>2 DEF IInv, Undisturbed, Faithful

\* A request that ends without touching the disk.
LEMMA AnswerInv ==
    ASSUME IInv, NEW t \in Threads, thread[t].pc \in (Working \cup Resetting) \ {"replace"},
           NEW answer \in Answers, NEW job \in Jobs \cup {None}, Answer(t, answer, job),
           UNCHANGED <<world, disk>>, answer # "half",
           answer = "report" => job = thread[t].job,
           Calm(thread[t], resets) => answer \in {"report", "disk"}
    PROVE  IInv'
<1>. DEFINE r == Over(thread[t], answer, job)
<1>1. thread[t] \in Request /\ Faithful(thread[t], clock)
  BY UnderWay
<1>2. /\ r \in Request /\ SameRequest(r, thread[t]) /\ r.pc = "done"
      /\ r.sec = thread[t].sec /\ r.answer = answer /\ r.of = job
  BY <1>1, Answered
<1>3. Move(t, r)
  BY DEF Answer, Over
<1>. HIDE DEF r
<1>4. Faithful(r, clock)
  BY <1>1, <1>2 DEF Faithful, SameRequest, Working
<1>5. thread[t].pc \notin {"idle", "replace", "dead"}
  BY DEF Working, Resetting
<1>6. r.pc \notin Resetting \cup {"replace"}
  BY <1>2 DEF Resetting
<1>7. Calm(thread[t], resets) /\ r.pc = "done" => r.answer \in {"report", "disk"}
  BY <1>2
<1>. QED  BY <1>2, <1>3, <1>4, <1>5, <1>6, <1>7, ContinueInv

\* A request that goes on to a step that needs nothing more in hand.
LEMMA GoInv ==
    ASSUME IInv, NEW t \in Threads, thread[t].pc \in Working \ {"replace"},
           NEW pc \in Working \ {"open", "send", "replace"}, Go(t, pc), UNCHANGED <<world, disk>>
    PROVE  IInv'
<1>. DEFINE r == On(thread[t], pc)
<1>1. thread[t] \in Request /\ Faithful(thread[t], clock)
  BY UnderWay
<1>2. pc \in Stages /\ pc # "done" /\ pc \notin Resetting
  BY DEF Stages, Working, Resetting
<1>3. /\ r \in Request /\ SameRequest(r, thread[t]) /\ r.pc = pc
      /\ r.sec = thread[t].sec /\ r.of = thread[t].of
  BY <1>1, <1>2, GoneOn
<1>4. Move(t, r)
  BY DEF Go, On
<1>. HIDE DEF r
<1>5. Faithful(r, clock)
  BY <1>1, <1>2, <1>3 DEF Faithful, SameRequest
<1>6. thread[t].pc \notin {"idle", "replace", "dead"}
  BY DEF Working
<1>7. r.pc \notin Resetting \cup {"replace"} /\ r.pc # "done"
  BY <1>2, <1>3
<1>. QED  BY <1>3, <1>4, <1>5, <1>6, <1>7, ContinueInv
--------------------------------------------------------------------------------
LEMMA LoadInv ==
    ASSUME IInv, NEW t \in Threads, Load(t)
    PROVE  IInv'
<1>1. thread[t].pc = "load" /\ "load" \in Working \ {"replace"} /\ UNCHANGED <<world, disk>>
  BY DEF Load, Working
<1>2. thread[t] \in Request /\ Faithful(thread[t], clock) /\ thread[t].job \in Jobs
  BY <1>1, UnderWay
<1>3. CASE cache = "full"
  <2>. DEFINE todo == {<<f.sec, f.job>> : f \in {g \in results : Matches(g.job, thread[t].job)}}
              r == OnWith(thread[t], "open", todo)
  <2>1. Move(t, r)
    BY <1>3 DEF Load, OnWith
  <2>2. todo \subseteq NamesOf(thread[t].job, clock)
    BY <1>2, ListedNames DEF IInv
  <2>. HIDE DEF todo
  <2>3. todo \in SUBSET Names /\ "open" \in Stages
    BY <2>2 DEF NamesOf, Stages, Working
  <2>4. /\ r \in Request /\ SameRequest(r, thread[t]) /\ r.pc = "open"
        /\ r.sec = thread[t].sec /\ r.todo = todo /\ r.of = thread[t].of
    BY <1>2, <2>3, TakesTodo
  <2>. HIDE DEF r
  <2>5. Faithful(r, clock)
    BY <1>1, <1>2, <2>2, <2>4 DEF Faithful, SameRequest
  <2>6. r.pc \notin Resetting \cup {"replace"} /\ r.pc # "done"
    BY <2>4 DEF Resetting
  <2>7. thread[t].pc \notin {"idle", "replace", "dead"}
    BY <1>1
  <2>. QED  BY <1>1, <2>1, <2>4, <2>5, <2>6, <2>7, ContinueInv
<1>4. CASE cache # "full"
  <2>1. Answer(t, "error", None) /\ "error" \in Answers /\ "error" \notin {"half", "report"}
    BY <1>4 DEF Load, Answers
  <2>2. ~Calm(thread[t], resets)
    BY <1>4, UnderWay
  <2>. QED  BY <1>1, <2>1, <2>2, AnswerInv
<1>. QED  BY <1>3, <1>4

LEMMA OpenInv ==
    ASSUME IInv, NEW t \in Threads, Open(t)
    PROVE  IInv'
<1>1. thread[t].pc = "open" /\ "open" \in Working \ {"replace"} /\ UNCHANGED <<world, disk>>
  BY DEF Open, Working
<1>2. thread[t] \in Request /\ Faithful(thread[t], clock) /\ thread[t].job \in Jobs /\ clock \in Nat
  BY <1>1, UnderWay
<1>3. thread[t].pc \notin {"idle", "replace", "dead"}
  BY <1>1
<1>4. CASE thread[t].todo = {}
  <2>1. Go(t, "info") /\ "info" \in Working \ {"open", "send", "replace"}
    BY <1>4 DEF Open, Working
  <2>. QED  BY <1>1, <2>1, GoInv
<1>5. CASE thread[t].todo # {}
  <2>. DEFINE name == Newest(thread[t].todo)
  <2>1. thread[t].todo \subseteq NamesOf(thread[t].job, clock)
    BY <1>1, <1>2 DEF Faithful
  <2>2. name \in thread[t].todo
    BY <1>2, <1>5, <2>1, NewestIsThere DEF NamesOf
  <2>3. name[2] = thread[t].job
    BY <2>1, <2>2 DEF NamesOf
  <2>4. CASE \E f \in Named(name[1], name[2]) : f.whole
    <3>. DEFINE r == [thread[t] EXCEPT !.pc = "info", !.of = thread[t].job]
    <3>1. Move(t, r)
      BY <1>5, <2>3, <2>4 DEF Open
    <3>2. /\ r \in Request /\ SameRequest(r, thread[t]) /\ r.pc = "info"
          /\ r.sec = thread[t].sec /\ r.of = thread[t].job
      BY <1>2 DEF Request, SameRequest, Stages, Working
    <3>. HIDE DEF r
    <3>3. Faithful(r, clock)
      BY <1>2, <3>2 DEF Faithful, SameRequest
    <3>4. r.pc \notin Resetting \cup {"replace"} /\ r.pc # "done"
      BY <3>2 DEF Resetting
    <3>. QED  BY <1>1, <1>3, <3>1, <3>2, <3>3, <3>4, ContinueInv
  <2>5. CASE ~\E f \in Named(name[1], name[2]) : f.whole
    <3>. DEFINE todo == thread[t].todo \ {name}
                r == [thread[t] EXCEPT !.todo = todo]
    <3>1. Move(t, r)
      BY <1>5, <2>5 DEF Open
    <3>2. todo \in SUBSET Names /\ todo \subseteq NamesOf(thread[t].job, clock)
      BY <2>1 DEF NamesOf
    <3>. HIDE DEF todo
    <3>3. /\ r \in Request /\ SameRequest(r, thread[t]) /\ r.pc = "open"
          /\ r.sec = thread[t].sec /\ r.todo = todo /\ r.of = thread[t].of
      BY <1>1, <1>2, <3>2 DEF Request, SameRequest
    <3>. HIDE DEF r
    <3>4. Faithful(r, clock)
      BY <1>1, <1>2, <3>2, <3>3 DEF Faithful, SameRequest
    <3>5. r.pc \notin Resetting \cup {"replace"} /\ r.pc # "done"
      BY <3>3 DEF Resetting
    <3>. QED  BY <1>1, <1>3, <3>1, <3>3, <3>4, <3>5, ContinueInv
  <2>. QED  BY <2>4, <2>5
<1>. QED  BY <1>4, <1>5

LEMMA InfoInv ==
    ASSUME IInv, NEW t \in Threads, Info(t)
    PROVE  IInv'
<1>. DEFINE q == thread[t]
<1>1. q.pc = "info" /\ "info" \in Working \ {"replace"} /\ UNCHANGED <<world, disk>>
  BY DEF Info, Working
<1>2. /\ q \in Request /\ Faithful(q, clock) /\ q.job \in Jobs
      /\ Known(q) \in {"none", "running", "finished"}
      /\ Calm(q, resets) => Known(q) = "finished"
  BY <1>1, UnderWay DEF IInv, Counted, Known, Calm
<1>3. CASE Known(q) = "none" /\ (q.kind = "download" \/ q.of # None)
  <2>1. Answer(t, "invalid", None) /\ "invalid" \in Answers /\ "invalid" \notin {"half", "report"}
    BY <1>3 DEF Info, Answers
  <2>2. ~Calm(q, resets)
    BY <1>2, <1>3
  <2>. QED  BY <1>1, <2>1, <2>2, AnswerInv
<1>4. CASE ~(Known(q) = "none" /\ (q.kind = "download" \/ q.of # None)) /\ q.of # None
  <2>1. Answer(t, "report", q.of) /\ "report" \in Answers /\ "report" # "half"
    BY <1>4 DEF Info, Answers
  <2>2. q.of = q.job /\ q.of \in Jobs \cup {None}
    BY <1>1, <1>2, <1>4 DEF Faithful
  <2>. QED  BY <1>1, <2>1, <2>2, AnswerInv
<1>5. CASE ~(Known(q) = "none" /\ (q.kind = "download" \/ q.of # None)) /\ q.of = None
  <2>. DEFINE pc == IF q.kind = "download" THEN "find" ELSE "fetch"
              r == [q EXCEPT !.info = Known(q), !.pc = pc]
  <2>1. Move(t, r)
    BY <1>5 DEF Info
  <2>2. pc \in Working \ {"open", "send", "replace"} /\ pc \in Stages /\ pc # "done" /\ pc \notin Resetting
    BY DEF Working, Stages, Resetting
  <2>. HIDE DEF pc
  <2>3. /\ r \in Request /\ SameRequest(r, q) /\ r.pc = pc
        /\ r.sec = q.sec /\ r.of = q.of
    BY <1>2, <2>2 DEF Request, SameRequest
  <2>. HIDE DEF r
  <2>4. Faithful(r, clock)
    BY <1>1, <1>2, <2>2, <2>3 DEF Faithful, SameRequest
  <2>5. r.pc \notin Resetting \cup {"replace"} /\ r.pc # "done"
    BY <2>2, <2>3
  <2>6. q.pc \notin {"idle", "replace", "dead"}
    BY <1>1
  <2>. QED  BY <1>1, <2>1, <2>3, <2>4, <2>5, <2>6, ContinueInv
<1>. QED  BY <1>3, <1>4, <1>5

LEMMA FindInv ==
    ASSUME IInv, NEW t \in Threads, Find(t)
    PROVE  IInv'
<1>. DEFINE q == thread[t]
            names == {<<f.sec, f.job>> : f \in {g \in results : Matches(g.job, q.job)}}
<1>1. q.pc = "find" /\ "find" \in Working \ {"replace"} /\ UNCHANGED <<world, disk>>
  BY DEF Find, Working
<1>2. q \in Request /\ Faithful(q, clock) /\ q.job \in Jobs /\ clock \in Nat
  BY <1>1, UnderWay
<1>3. names \subseteq NamesOf(q.job, clock)
  BY <1>2, ListedNames DEF IInv
<1>4. CASE cache # "full"
  <2>1. Answer(t, "error", None) /\ "error" \in Answers /\ "error" \notin {"half", "report"}
    BY <1>4 DEF Find, Answers
  <2>2. ~Calm(q, resets)
    BY <1>4, UnderWay
  <2>. QED  BY <1>1, <2>1, <2>2, AnswerInv
<1>5. CASE cache = "full" /\ names = {}
  <2>1. Go(t, "fetch") /\ "fetch" \in Working \ {"open", "send", "replace"}
    BY <1>5 DEF Find, Working
  <2>. QED  BY <1>1, <2>1, GoInv
<1>6. CASE cache = "full" /\ names # {}
  <2>. DEFINE todo == {Newest(names)}
              r == OnWith(q, "send", todo)
  <2>1. Move(t, r)
    BY <1>6 DEF Find, OnWith
  <2>. HIDE DEF names
  <2>2. Newest(names) \in names
    BY <1>2, <1>3, <1>6, NewestIsThere DEF NamesOf
  <2>3. todo \subseteq NamesOf(q.job, clock) /\ todo # {}
    BY <1>3, <2>2
  <2>. HIDE DEF todo
  <2>4. todo \in SUBSET Names /\ "send" \in Stages
    BY <2>3 DEF NamesOf, Stages, Working
  <2>5. /\ r \in Request /\ SameRequest(r, q) /\ r.pc = "send"
        /\ r.sec = q.sec /\ r.todo = todo /\ r.of = q.of
    BY <1>2, <2>4, TakesTodo
  <2>. HIDE DEF r
  <2>6. Faithful(r, clock)
    BY <1>1, <1>2, <2>3, <2>5 DEF Faithful, SameRequest
  <2>7. r.pc \notin Resetting \cup {"replace"} /\ r.pc # "done"
    BY <2>5 DEF Resetting
  <2>8. q.pc \notin {"idle", "replace", "dead"}
    BY <1>1
  <2>. QED  BY <1>1, <2>1, <2>5, <2>6, <2>7, <2>8, ContinueInv
<1>. QED  BY <1>4, <1>5, <1>6

LEMMA SendInv ==
    ASSUME IInv, NEW t \in Threads, Send(t)
    PROVE  IInv'
<1>. DEFINE q == thread[t]
            name == Newest(q.todo)
            file == Named(name[1], name[2])
<1>1. q.pc = "send" /\ "send" \in Working \ {"replace"} /\ UNCHANGED <<world, disk>>
  BY DEF Send, Working
<1>2. q \in Request /\ Faithful(q, clock) /\ q.job \in Jobs /\ clock \in Nat
  BY <1>1, UnderWay
<1>3. q.todo \subseteq NamesOf(q.job, clock) /\ q.todo # {}
  BY <1>1, <1>2 DEF Faithful
<1>4. name \in q.todo
  BY <1>2, <1>3, NewestIsThere DEF NamesOf
<1>5. name[2] = q.job
  BY <1>3, <1>4 DEF NamesOf
<1>6. CASE file = {}
  <2>1. Go(t, "fetch") /\ "fetch" \in Working \ {"open", "send", "replace"}
    BY <1>6 DEF Send, Working
  <2>. QED  BY <1>1, <2>1, GoInv
<1>7. CASE file # {}
  <2>1. \A f \in file : f.whole
    BY DEF IInv, Filed, Named
  <2>2. Answer(t, "report", name[2])
    BY <1>7, <2>1 DEF Send
  <2>3. Answer(t, "report", q.job) /\ q.job \in Jobs \cup {None}
    BY <1>2, <1>5, <2>2
  <2>4. "report" \in Answers /\ "report" # "half"
    BY DEF Answers
  <2>. QED  BY <1>1, <2>3, <2>4, AnswerInv
<1>. QED  BY <1>6, <1>7

LEMMA FetchInv ==
    ASSUME IInv, NEW t \in Threads, Fetch(t)
    PROVE  IInv'
<1>. DEFINE q == thread[t]
<1>1. q.pc = "fetch" /\ "fetch" \in Working \ {"replace"} /\ UNCHANGED <<world, disk>>
  BY DEF Fetch, Working
<1>2. /\ q \in Request /\ Faithful(q, clock) /\ q.job \in Jobs /\ clock \in Nat
      /\ Calm(q, resets) => backend[q.job] = "finished"
  BY <1>1, UnderWay
<1>3. CASE backend[q.job] # "finished"
  <2>1. Answer(t, "no result", None) /\ "no result" \in Answers /\ "no result" \notin {"half", "report"}
    BY <1>3 DEF Fetch, Answers
  <2>. QED  BY <1>1, <1>2, <1>3, <2>1, AnswerInv
<1>4. CASE backend[q.job] = "finished" /\ q.info # "finished"
  <2>1. Answer(t, "report", q.job) /\ "report" \in Answers /\ "report" # "half"
    BY <1>4 DEF Fetch, Answers
  <2>. QED  BY <1>1, <1>2, <2>1, AnswerInv
<1>5. CASE backend[q.job] = "finished" /\ q.info = "finished"
  <2>. DEFINE r == [q EXCEPT !.pc = "write", !.sec = clock]
  <2>1. Move(t, r)
    BY <1>5 DEF Fetch
  <2>2. /\ r \in Request /\ SameRequest(r, q) /\ r.pc = "write"
        /\ r.sec = clock /\ r.of = q.of
    BY <1>2 DEF Request, SameRequest, Stages, Working
  <2>. HIDE DEF r
  <2>3. Faithful(r, clock)
    BY <1>1, <1>2, <2>2 DEF Faithful, SameRequest
  <2>4. r.pc \notin Resetting \cup {"replace"} /\ r.pc # "done"
    BY <2>2 DEF Resetting
  <2>5. q.pc \notin {"idle", "replace", "dead"}
    BY <1>1
  <2>. QED  BY <1>1, <2>1, <2>2, <2>3, <2>4, <2>5, ContinueInv
<1>. QED  BY <1>3, <1>4, <1>5

LEMMA ListInv ==
    ASSUME IInv, NEW t \in Threads, List(t)
    PROVE  IInv'
<1>. DEFINE q == thread[t]
<1>1. q.pc = "list" /\ "list" \in Working \ {"replace"} /\ UNCHANGED <<world, disk>>
  BY DEF List, Working
<1>2. q \in Request /\ Faithful(q, clock) /\ q.job \in Jobs
  BY <1>1, UnderWay
<1>3. CASE cache = "full" /\ (MaxFiles # None \/ MaxBytes # None)
  <2>. DEFINE r == [q EXCEPT !.pc = "stat", !.listed = results]
  <2>1. Move(t, r)
    BY <1>3 DEF List
  <2>2. /\ r \in Request /\ SameRequest(r, q) /\ r.pc = "stat"
        /\ r.sec = q.sec /\ r.of = q.of
    BY <1>2 DEF Request, SameRequest, Stages, Working, IInv, Filed
  <2>. HIDE DEF r
  <2>3. Faithful(r, clock)
    BY <1>1, <1>2, <2>2 DEF Faithful, SameRequest, Working
  <2>4. r.pc \notin Resetting \cup {"replace"} /\ r.pc # "done"
    BY <2>2 DEF Resetting
  <2>5. q.pc \notin {"idle", "replace", "dead"}
    BY <1>1
  <2>. QED  BY <1>1, <2>1, <2>2, <2>3, <2>4, <2>5, ContinueInv
<1>4. CASE ~(cache = "full" /\ (MaxFiles # None \/ MaxBytes # None))
  <2>1. Answer(t, "report", q.job) /\ "report" \in Answers /\ "report" # "half"
    BY <1>4 DEF List, Answers
  <2>. QED  BY <1>1, <1>2, <2>1, AnswerInv
<1>. QED  BY <1>3, <1>4

LEMMA StatInv ==
    ASSUME IInv, NEW t \in Threads, Stat(t)
    PROVE  IInv'
<1>. DEFINE q == thread[t]
            listed == Still(q.listed)
            r == [q EXCEPT !.pc = "evict", !.listed = listed]
<1>1. q.pc = "stat" /\ "stat" \in Working \ {"replace"} /\ UNCHANGED <<world, disk>>
  BY DEF Stat, Working
<1>2. q \in Request /\ Faithful(q, clock) /\ q.job \in Jobs
  BY <1>1, UnderWay
<1>3. Move(t, r)
  BY DEF Stat
<1>4. listed \in SUBSET File
  BY DEF IInv, Filed, Still
<1>. HIDE DEF listed
<1>5. /\ r \in Request /\ SameRequest(r, q) /\ r.pc = "evict"
      /\ r.sec = q.sec /\ r.of = q.of
  BY <1>2, <1>4 DEF Request, SameRequest, Stages, Working
<1>. HIDE DEF r
<1>6. Faithful(r, clock)
  BY <1>1, <1>2, <1>5 DEF Faithful, SameRequest, Working
<1>7. r.pc \notin Resetting \cup {"replace"} /\ r.pc # "done"
  BY <1>5 DEF Resetting
<1>8. q.pc \notin {"idle", "replace", "dead"}
  BY <1>1
<1>. QED  BY <1>1, <1>3, <1>5, <1>6, <1>7, <1>8, ContinueInv
--------------------------------------------------------------------------------
\* A reset under way is not the zeroth.
LEMMA ResetUnderWay ==
    ASSUME IInv, NEW t \in Threads, thread[t].pc \in Resetting
    PROVE  resets # 0 /\ ~Calm(thread[t], resets) /\ thread[t].pc # "idle" /\ t \notin parts
<1>1. resets # 0
  BY DEF IInv, Undisturbed
<1>2. ~Calm(thread[t], resets)
  BY <1>1, UnderWay
<1>3. thread[t].pc # "idle" /\ thread[t].pc \notin {"replace", "dead"}
  BY DEF Resetting
<1>. QED  BY <1>1, <1>2, <1>3 DEF IInv, NoPartLeft

\* The same for a request that goes on and touches the disk.
LEMMA DiskInv ==
    ASSUME IInv, NEW t \in Threads, NEW q \in Request, SameRequest(q, thread[t]), Move(t, q),
           UNCHANGED world, thread[t].pc # "idle", Faithful(q, clock), Filed',
           cache' \in {"full", "bare", "none"}, writes' \in Nat, parts' \subseteq parts \cup {t},
           resets = 0 => /\ cache' = cache /\ q.pc \notin Resetting
                         /\ parts \ {t} \subseteq parts' /\ (q.pc = "replace" => t \in parts'),
           t \in parts' => q.pc \in {"replace", "dead"},
           Calm(thread[t], resets) /\ q.pc = "done" => q.answer \in {"report", "disk"}
    PROVE  IInv'
<1>1. UNCHANGED <<backend, clock, resets>>
  BY DEF world
<1>2. q.since <= resets
  BY DEF IInv, Requests, SameRequest
<1>3. Calm(q, resets) => Calm(thread[t], resets) /\ q.job = thread[t].job
  BY DEF Calm, SameRequest
<1>4. Calm(q, resets) =>
          /\ q.job \in Jobs /\ backend[q.job] = "finished"
          /\ q.pc = "done" => q.answer \in {"report", "disk"}
  BY <1>3 DEF IInv, Served
<1>. QED  BY <1>1, <1>2, <1>4, MoveInv

LEMMA WriteInv ==
    ASSUME IInv, NEW t \in Threads, Write(t)
    PROVE  IInv'
<1>. DEFINE q == thread[t]
<1>1. q.pc = "write" /\ q.pc # "idle" /\ q.pc \in Working /\ UNCHANGED <<world, results>>
  BY DEF Write, Working
<1>2. q \in Request /\ Faithful(q, clock) /\ q.job \in Jobs /\ writes \in Nat
  BY <1>1, UnderWay DEF IInv, Counted
<1>3. /\ cache' \in {"full", "bare", "none"}
      /\ cache = "full" => cache' = cache
      /\ cache # "full" => cache' # "full"
  BY DEF Write, IInv, Counted
<1>4. resets = 0 => cache = "full"
  BY DEF IInv, Undisturbed
<1>5. Filed'
  BY <1>1, <1>3 DEF IInv, Filed, world
<1>6. t \notin parts
  BY <1>1 DEF IInv, NoPartLeft
<1>7. CASE /\ Move(t, [q EXCEPT !.pc = "replace", !.mtime = writes])
           /\ writes' = writes + 1 /\ parts' = parts \cup {t}
  <2>. DEFINE r == [q EXCEPT !.pc = "replace", !.mtime = writes]
  <2>1. Move(t, r) /\ writes' \in Nat /\ parts' = parts \cup {t}
    BY <1>2, <1>7
  <2>2. /\ r \in Request /\ SameRequest(r, q) /\ r.pc = "replace"
        /\ r.sec = q.sec /\ r.of = q.of
    BY <1>2 DEF Request, SameRequest, Stages, Working
  <2>. HIDE DEF r
  <2>3. Faithful(r, clock)
    BY <1>1, <1>2, <2>2 DEF Faithful, SameRequest
  <2>4. r.pc \notin Resetting /\ r.pc # "done"
    BY <2>2 DEF Resetting
  <2>. QED  BY <1>1, <1>3, <1>4, <1>5, <2>1, <2>2, <2>3, <2>4, DiskInv
<1>8. CASE Answer(t, "disk", None) /\ UNCHANGED <<writes, parts>>
  <2>. DEFINE r == Over(q, "disk", None)
  <2>1. Move(t, r) /\ writes' \in Nat /\ parts' = parts
    BY <1>2, <1>8 DEF Answer, Over
  <2>2. /\ r \in Request /\ SameRequest(r, q) /\ r.pc = "done"
        /\ r.sec = q.sec /\ r.answer = "disk"
    <3>1. "disk" \in Answers
      BY DEF Answers
    <3>. QED  BY <1>2, <3>1, Answered
  <2>. HIDE DEF r
  <2>3. Faithful(r, clock)
    BY <1>2, <2>2 DEF Faithful, SameRequest, Working
  <2>4. r.pc \notin Resetting /\ r.pc # "replace"
    BY <2>2 DEF Resetting
  <2>. QED  BY <1>1, <1>3, <1>4, <1>5, <1>6, <2>1, <2>2, <2>3, <2>4, DiskInv
<1>9. CASE /\ \E u \in Threads : thread[u].pc \in {"unlink", "rmdir"}
           /\ Answer(t, "error", None) /\ UNCHANGED <<writes, parts>>
  <2>. DEFINE r == Over(q, "error", None)
  <2>1. Move(t, r) /\ writes' \in Nat /\ parts' = parts
    BY <1>2, <1>9 DEF Answer, Over
  <2>2. /\ r \in Request /\ SameRequest(r, q) /\ r.pc = "done"
        /\ r.sec = q.sec /\ r.answer = "error"
    <3>1. "error" \in Answers
      BY DEF Answers
    <3>. QED  BY <1>2, <3>1, Answered
  <2>. HIDE DEF r
  <2>3. Faithful(r, clock)
    BY <1>2, <2>2 DEF Faithful, SameRequest, Working
  <2>4. r.pc \notin Resetting /\ r.pc # "replace"
    BY <2>2 DEF Resetting
  <2>5. resets # 0
    BY <1>9, ResetUnderWay DEF Resetting
  <2>6. ~Calm(q, resets)
    BY <2>5, UnderWay
  <2>. QED  BY <1>1, <1>3, <1>4, <1>5, <1>6, <2>1, <2>2, <2>3, <2>4, <2>6, DiskInv
<1>. QED  BY <1>7, <1>8, <1>9 DEF Write

\* A rename leaves one file under every name.
LEMMA PutFiled ==
    ASSUME Filed, NEW file \in File, file.whole, file.sec <= clock, cache = "full",
           results' = Put(file), UNCHANGED <<cache, clock>>
    PROVE  Filed'
<1>1. \A f \in results' : f = file \/ (f \in results /\ ~(f.sec = file.sec /\ f.job = file.job))
  BY DEF Put, Named
<1>. QED  BY <1>1 DEF Filed

LEMMA ReplaceInv ==
    ASSUME IInv, NEW t \in Threads, Replace(t)
    PROVE  IInv'
<1>. DEFINE q == thread[t]
            file == [sec |-> q.sec, job |-> q.job, mtime |-> q.mtime, whole |-> TRUE]
<1>1. /\ q.pc = "replace" /\ q.pc # "idle" /\ q.pc \in Working
      /\ UNCHANGED <<world, cache, writes>> /\ parts' = parts \ {t}
  BY DEF Replace, Working
<1>2. q \in Request /\ Faithful(q, clock) /\ q.job \in Jobs
  BY <1>1, UnderWay
<1>3. cache' \in {"full", "bare", "none"} /\ writes' \in Nat
  BY <1>1 DEF IInv, Counted
<1>4. CASE cache = "full" /\ t \in parts
  <2>. DEFINE r == On(q, "list")
  <2>1. Move(t, r) /\ results' = Put(file)
    BY <1>4 DEF Replace, Go, On
  <2>2. "list" \in Stages
    BY DEF Stages, Working
  <2>3. /\ r \in Request /\ SameRequest(r, q) /\ r.pc = "list"
        /\ r.sec = q.sec /\ r.of = q.of
    BY <1>2, <2>2, GoneOn
  <2>. HIDE DEF r
  <2>4. Faithful(r, clock)
    BY <1>1, <1>2, <2>3 DEF Faithful, SameRequest, Working
  <2>5. r.pc \notin Resetting /\ r.pc # "done" /\ r.pc # "replace"
    BY <2>3 DEF Resetting
  <2>6. file \in File /\ file.whole /\ file.sec <= clock
    BY <1>2 DEF File, Request, Faithful
  <2>. HIDE DEF file
  <2>7. Filed'
    BY <1>1, <1>4, <2>1, <2>6, PutFiled DEF IInv, world
  <2>. QED  BY <1>1, <1>3, <2>1, <2>3, <2>4, <2>5, <2>7, DiskInv
<1>5. CASE ~(cache = "full" /\ t \in parts)
  <2>. DEFINE r == Over(q, "error", None)
  <2>1. Move(t, r) /\ results' = results
    BY <1>5 DEF Replace, Answer, Over
  <2>2. /\ r \in Request /\ SameRequest(r, q) /\ r.pc = "done"
        /\ r.sec = q.sec /\ r.answer = "error"
    <3>1. "error" \in Answers
      BY DEF Answers
    <3>. QED  BY <1>2, <3>1, Answered
  <2>. HIDE DEF r
  <2>3. Faithful(r, clock)
    BY <1>2, <2>2 DEF Faithful, SameRequest, Working
  <2>4. r.pc \notin Resetting /\ r.pc # "replace"
    BY <2>2 DEF Resetting
  <2>5. Filed'
    BY <1>1, <2>1 DEF IInv, Filed, world
  <2>6. ~Calm(q, resets)
    BY <1>1, <1>5, UnderWay
  <2>. QED  BY <1>1, <1>3, <2>1, <2>2, <2>3, <2>4, <2>5, <2>6, DiskInv
<1>. QED  BY <1>4, <1>5

LEMMA EvictInv ==
    ASSUME IInv, NEW t \in Threads, Evict(t)
    PROVE  IInv'
<1>. DEFINE q == thread[t]
            victim == Oldest(q.listed)
            listed == q.listed \ {victim}
            r == [q EXCEPT !.listed = listed]
<1>1. /\ q.pc = "evict" /\ q.pc # "idle" /\ "evict" \in Working \ {"replace"}
      /\ UNCHANGED <<world, cache, parts, writes>>
  BY DEF Evict, Working
<1>2. q \in Request /\ Faithful(q, clock) /\ q.job \in Jobs
  BY <1>1, UnderWay
<1>3. cache' \in {"full", "bare", "none"} /\ writes' \in Nat /\ t \notin parts'
  BY <1>1 DEF IInv, Counted, NoPartLeft
<1>4. CASE Past(q.listed)
  <2>1. Move(t, r) /\ results' = results \ Named(victim.sec, victim.job)
    BY <1>4 DEF Evict
  <2>2. results' \subseteq results
    BY <2>1
  <2>3. Filed'
    BY <1>1, <2>2 DEF IInv, Filed, world
  <2>. HIDE DEF victim
  <2>4. listed \in SUBSET File
    BY <1>2 DEF Request
  <2>. HIDE DEF listed
  <2>5. /\ r \in Request /\ SameRequest(r, q) /\ r.pc = "evict"
        /\ r.sec = q.sec /\ r.of = q.of
    BY <1>1, <1>2, <2>4 DEF Request, SameRequest
  <2>. HIDE DEF r
  <2>6. Faithful(r, clock)
    BY <1>1, <1>2, <2>5 DEF Faithful, SameRequest
  <2>7. r.pc \notin Resetting /\ r.pc # "done" /\ r.pc # "replace"
    BY <2>5 DEF Resetting
  <2>. QED  BY <1>1, <1>3, <2>1, <2>3, <2>5, <2>6, <2>7, DiskInv
<1>5. CASE ~Past(q.listed)
  <2>1. Answer(t, "report", q.job) /\ UNCHANGED <<world, disk>>
    BY <1>1, <1>5 DEF Evict, disk
  <2>2. "report" \in Answers /\ "report" # "half"
    BY DEF Answers
  <2>. QED  BY <1>1, <1>2, <2>1, <2>2, AnswerInv
<1>. QED  BY <1>4, <1>5
--------------------------------------------------------------------------------
\* The steps of a reset in the directory.
LEMMA ResetGoes ==
    ASSUME IInv, NEW t \in Threads, thread[t].pc \in Resetting, NEW pc \in Resetting, Go(t, pc),
           UNCHANGED <<world, writes>>, cache' \in {"full", "bare", "none"},
           parts' \subseteq parts, Filed'
    PROVE  IInv'
<1>. DEFINE r == On(thread[t], pc)
<1>1. thread[t] \in Request /\ Faithful(thread[t], clock)
  BY UnderWay
<1>2. pc \in Stages /\ pc \notin Working /\ pc # "done"
  BY DEF Stages, Working, Resetting
<1>3. r \in Request /\ SameRequest(r, thread[t]) /\ r.pc = pc /\ r.sec = thread[t].sec
  BY <1>1, <1>2, GoneOn
<1>4. Move(t, r)
  BY DEF Go, On
<1>. HIDE DEF r
<1>5. Faithful(r, clock)
  BY <1>1, <1>2, <1>3 DEF Faithful, Working
<1>6. writes' \in Nat /\ t \notin parts'
  BY ResetUnderWay DEF IInv, Counted
<1>. QED  BY <1>2, <1>3, <1>4, <1>5, <1>6, ResetUnderWay, DiskInv

LEMMA ResetEnds ==
    ASSUME IInv, NEW t \in Threads, thread[t].pc \in Resetting,
           NEW answer \in {"error", "reset"}, Answer(t, answer, None),
           UNCHANGED <<world, writes>>, cache' \in {"full", "bare", "none"},
           parts' \subseteq parts, Filed'
    PROVE  IInv'
<1>. DEFINE r == Over(thread[t], answer, None)
<1>1. thread[t] \in Request /\ Faithful(thread[t], clock)
  BY UnderWay
<1>2. answer \in Answers /\ answer # "report" /\ answer # "half"
  BY DEF Answers
<1>3. /\ r \in Request /\ SameRequest(r, thread[t]) /\ r.pc = "done"
      /\ r.sec = thread[t].sec /\ r.answer = answer
  BY <1>1, <1>2, Answered
<1>4. Move(t, r)
  BY DEF Answer, Over
<1>. HIDE DEF r
<1>5. Faithful(r, clock)
  BY <1>1, <1>2, <1>3 DEF Faithful, Working
<1>6. writes' \in Nat /\ t \notin parts'
  BY ResetUnderWay DEF IInv, Counted
<1>. QED  BY <1>3, <1>4, <1>5, <1>6, ResetUnderWay, DiskInv

LEMMA ScanInv ==
    ASSUME IInv, NEW t \in Threads, Scan(t)
    PROVE  IInv'
<1>. DEFINE q == thread[t]
            within == {thread[u].mtime : u \in parts}
            r == [q EXCEPT !.pc = "unlink", !.listed = results, !.within = within]
<1>1. /\ q.pc = "scan" /\ "scan" \in Resetting /\ UNCHANGED <<world, disk>>
      /\ UNCHANGED <<world, cache, results, parts, writes>>
  BY DEF Scan, Resetting, disk
<1>2. q \in Request /\ Faithful(q, clock)
  BY UnderWay
<1>3. Filed' /\ cache' \in {"full", "bare", "none"} /\ writes' \in Nat
  BY <1>1 DEF IInv, Counted, Filed, world
<1>4. CASE Move(t, r)
  <2>1. within \in SUBSET Nat
    BY DEF IInv, Counted, Request
  <2>2. results \in SUBSET File
    BY DEF IInv, Filed
  <2>. HIDE DEF within
  <2>3. r \in Request /\ SameRequest(r, q) /\ r.pc = "unlink" /\ r.sec = q.sec
    BY <1>2, <2>1, <2>2 DEF Request, SameRequest, Stages, Resetting
  <2>. HIDE DEF r
  <2>4. Faithful(r, clock)
    BY <1>2, <2>3 DEF Faithful, Working
  <2>5. r.pc # "done" /\ r.pc # "replace"
    BY <2>3
  <2>6. resets # 0 /\ q.pc # "idle" /\ t \notin parts
    BY <1>1, ResetUnderWay
  <2>. QED  BY <1>1, <1>3, <1>4, <2>3, <2>4, <2>5, <2>6, DiskInv
<1>5. CASE Answer(t, "error", None)
  BY <1>1, <1>3, <1>5, ResetEnds
<1>. QED  BY <1>4, <1>5 DEF Scan

LEMMA UnlinkInv ==
    ASSUME IInv, NEW t \in Threads, Unlink(t)
    PROVE  IInv'
<1>1. /\ thread[t].pc \in Resetting /\ "rmdir" \in Resetting
      /\ UNCHANGED <<world, writes>>
  BY DEF Unlink, Resetting
<1>2. parts' \subseteq parts /\ results' \subseteq results
  BY DEF Unlink
<1>3. /\ cache' = cache \/ (cache' = "bare" /\ results' = {})
      /\ cache \in {"full", "bare", "none"}
  BY DEF Unlink, IInv, Counted
<1>4. Filed' /\ cache' \in {"full", "bare", "none"}
  BY <1>1, <1>2, <1>3 DEF IInv, Filed, world
<1>5. Go(t, "rmdir") \/ Answer(t, "error", None)
  BY DEF Unlink
<1>. QED  BY <1>1, <1>2, <1>4, <1>5, ResetGoes, ResetEnds

LEMMA RmdirInv ==
    ASSUME IInv, NEW t \in Threads, Rmdir(t)
    PROVE  IInv'
<1>1. /\ thread[t].pc \in Resetting /\ "mkdir" \in Resetting
      /\ UNCHANGED <<world, writes>> /\ parts' \subseteq parts /\ UNCHANGED <<world, results>>
  BY DEF Rmdir, Resetting
<1>2. cache' \in {"full", "bare", "none"} /\ (cache' # "full" => results = {})
  BY DEF Rmdir, IInv, Counted, Filed
<1>3. Filed'
  BY <1>1, <1>2 DEF IInv, Filed, world
<1>4. Go(t, "mkdir") \/ Answer(t, "error", None)
  BY DEF Rmdir
<1>. QED  BY <1>1, <1>2, <1>3, <1>4, ResetGoes, ResetEnds

LEMMA MkdirInv ==
    ASSUME IInv, NEW t \in Threads, Mkdir(t)
    PROVE  IInv'
<1>1. /\ thread[t].pc \in Resetting /\ cache' = "full" /\ Answer(t, "reset", None)
      /\ UNCHANGED <<world, writes>> /\ parts' \subseteq parts /\ UNCHANGED <<world, results>>
  BY DEF Mkdir, Resetting
<1>2. Filed'
  BY <1>1 DEF IInv, Filed, world
<1>. QED  BY <1>1, <1>2, ResetEnds
--------------------------------------------------------------------------------
\* A thread between two requests.
LEMMA NothingFaithful ==
    ASSUME clock \in Nat
    PROVE  /\ Nothing \in Request /\ Faithful(Nothing, clock) /\ Nothing.pc = "idle"
           /\ Nothing.since = 0 /\ ~Nothing.ready
<1>1. Nothing \in Request
  BY DEF Nothing, Request, Stages, Answers
<1>. QED  BY <1>1 DEF Nothing, Faithful, Working

LEMMA InitInv == Init => IInv
<1>. SUFFICES ASSUME Init PROVE IInv
  OBVIOUS
<1>1. clock = 0 /\ clock \in Nat /\ resets = 0 /\ cache = "full" /\ results = {} /\ parts = {}
  BY DEF Init
<1>2. \A t \in Threads : thread[t] = Nothing
  BY DEF Init
<1>3. /\ Nothing \in Request /\ Faithful(Nothing, clock) /\ Nothing.pc = "idle"
      /\ Nothing.since = 0
  BY <1>1, NothingFaithful
<1>4. Counted
  BY <1>3 DEF Init, Counted
<1>5. Filed /\ NoPartLeft
  BY <1>1 DEF Filed, NoPartLeft
<1>6. Requests
  BY <1>1, <1>2, <1>3 DEF Requests
<1>7. Undisturbed
  BY <1>1, <1>2, <1>3 DEF Undisturbed, Resetting
<1>8. Served
  BY <1>2, <1>3 DEF Served, Calm
<1>. QED  BY <1>4, <1>5, <1>6, <1>7, <1>8 DEF IInv

LEMMA TickInv ==
    ASSUME IInv, Tick
    PROVE  IInv'
<1>1. /\ clock \in Nat /\ clock' = clock + 1
      /\ UNCHANGED <<backend, writes, cache, results, parts, thread, resets>>
  BY DEF Tick, disk, IInv, Counted
<1>2. Counted' /\ NoPartLeft' /\ Undisturbed' /\ Served'
  BY <1>1 DEF IInv, Counted, NoPartLeft, Undisturbed, Served, Done
<1>3. Filed'
  <2>1. \A f \in results : f.whole /\ f.sec \in Nat /\ f.sec <= clock
    BY DEF IInv, Filed, File
  <2>. QED  BY <1>1, <2>1 DEF IInv, Filed
<1>4. ASSUME NEW t \in Threads PROVE Faithful(thread[t], clock')
  <2>1. thread[t] \in Request /\ Faithful(thread[t], clock)
    BY UnderWay
  <2>2. thread[t].sec \in Nat
    BY <2>1 DEF Request
  <2>3. NamesOf(thread[t].job, clock) \subseteq NamesOf(thread[t].job, clock')
    BY <1>1 DEF NamesOf, Names
  <2>. QED  BY <1>1, <2>1, <2>2, <2>3 DEF Faithful
<1>5. Requests'
  BY <1>1, <1>4 DEF IInv, Requests
<1>. QED  BY <1>2, <1>3, <1>5 DEF IInv

LEMMA FinishInv ==
    ASSUME IInv, NEW j \in Jobs, Finish(j)
    PROVE  IInv'
<1>1. /\ backend[j] = "running" /\ backend' = [backend EXCEPT ![j] = "finished"]
      /\ UNCHANGED <<clock, writes, cache, results, parts, thread, resets>>
      /\ backend \in [Jobs -> {"none", "running", "finished"}]
  BY DEF Finish, disk, IInv, Counted
<1>2. Counted' /\ Filed' /\ Requests' /\ NoPartLeft'
  BY <1>1 DEF IInv, Counted, Filed, Requests, NoPartLeft
<1>3. ~(resets > 0)
  BY <1>1 DEF IInv, Undisturbed
<1>4. Undisturbed'
  BY <1>1, <1>3 DEF IInv, Undisturbed
<1>5. \A k \in Jobs : backend[k] = "finished" => backend'[k] = "finished"
  BY <1>1
<1>6. Served'
  BY <1>1, <1>5 DEF IInv, Served, Done
<1>. QED  BY <1>2, <1>4, <1>6 DEF IInv

LEMMA BeginInv ==
    ASSUME IInv, NEW t \in Threads, NEW kind \in {"page", "download"}, NEW j \in Jobs,
           Begin(t, kind, j)
    PROVE  IInv'
<1>. DEFINE pc == IF kind = "page" THEN "load" ELSE "info"
            ready == backend[j] = "finished"
            r == [Nothing EXCEPT !.pc = pc, !.kind = kind, !.job = j,
                                 !.ready = ready, !.since = resets]
<1>1. thread[t].pc = "idle" /\ Move(t, r) /\ UNCHANGED <<backend, clock, resets, disk>>
  BY DEF Begin
<1>2. clock \in Nat /\ resets \in Nat /\ writes \in Nat /\ cache \in {"full", "bare", "none"}
  BY DEF IInv, Counted
<1>3. Nothing \in Request /\ Faithful(Nothing, clock) /\ Nothing.sec = 0
  BY <1>2, NothingFaithful DEF Nothing
<1>4. pc \in {"load", "info"} /\ pc \in Stages /\ pc \in Working
  BY DEF Stages, Working
<1>5. ready \in BOOLEAN /\ (ready <=> backend[j] = "finished")
  OBVIOUS
<1>. HIDE DEF pc, ready
<1>6. /\ r \in Request /\ r.pc = pc /\ r.kind = kind /\ r.job = j /\ r.ready = ready
      /\ r.since = resets /\ r.sec = 0 /\ r.of = None
  <2>. DEFINE r1 == [Nothing EXCEPT !.pc = pc]
              r2 == [r1 EXCEPT !.kind = kind]
              r3 == [r2 EXCEPT !.job = j]
              r4 == [r3 EXCEPT !.ready = ready]
              r5 == [r4 EXCEPT !.since = resets]
  <2>1. r1 \in Request /\ r1.pc = pc /\ r1.sec = 0 /\ r1.of = None
    BY <1>3, <1>4 DEF Request, Nothing
  <2>. HIDE DEF r1
  <2>2. r2 \in Request /\ r2.pc = pc /\ r2.kind = kind /\ r2.sec = 0 /\ r2.of = None
    BY <2>1 DEF Request
  <2>. HIDE DEF r2
  <2>3. r3 \in Request /\ r3.pc = pc /\ r3.kind = kind /\ r3.job = j /\ r3.sec = 0 /\ r3.of = None
    BY <2>2 DEF Request
  <2>. HIDE DEF r3
  <2>4. /\ r4 \in Request /\ r4.pc = pc /\ r4.kind = kind /\ r4.job = j /\ r4.sec = 0
        /\ r4.of = None /\ r4.ready = ready
    BY <1>5, <2>3 DEF Request
  <2>. HIDE DEF r4
  <2>5. /\ r5 \in Request /\ r5.pc = pc /\ r5.kind = kind /\ r5.job = j /\ r5.sec = 0
        /\ r5.of = None /\ r5.ready = ready /\ r5.since = resets
    BY <1>2, <2>4 DEF Request
  <2>6. r = r5
    BY DEF r1, r2, r3, r4
  <2>. HIDE DEF r, r5
  <2>. QED  BY <2>5, <2>6
<1>. HIDE DEF r
<1>7. Faithful(r, clock) /\ r.since <= resets
  BY <1>2, <1>4, <1>6 DEF Faithful
<1>8. r.pc \notin Resetting /\ r.pc # "replace" /\ r.pc # "done"
  BY <1>4, <1>6 DEF Resetting
<1>9. Calm(r, resets) => r.job \in Jobs /\ backend[r.job] = "finished"
  BY <1>5, <1>6 DEF Calm
<1>10. Filed'
  BY <1>1 DEF IInv, Filed, disk
<1>11. t \notin parts
  BY <1>1 DEF IInv, NoPartLeft
<1>12. UNCHANGED <<cache, writes, parts>>
  BY <1>1 DEF disk
<1>. QED  BY <1>1, <1>2, <1>6, <1>7, <1>8, <1>9, <1>10, <1>11, <1>12, MoveInv

LEMMA EndInv ==
    ASSUME IInv, NEW t \in Threads, End(t)
    PROVE  IInv'
<1>1. thread[t].pc = "done" /\ Move(t, Nothing) /\ UNCHANGED <<backend, clock, resets, disk>>
  BY DEF End, world
<1>2. clock \in Nat /\ resets \in Nat /\ writes \in Nat /\ cache \in {"full", "bare", "none"}
  BY DEF IInv, Counted
<1>3. /\ Nothing \in Request /\ Faithful(Nothing, clock) /\ Nothing.pc = "idle"
      /\ Nothing.since <= resets
  BY <1>2, NothingFaithful
<1>4. Filed'
  BY <1>1 DEF IInv, Filed, disk
<1>5. t \notin parts
  BY <1>1 DEF IInv, NoPartLeft
<1>6. UNCHANGED <<cache, writes, parts>>
  BY <1>1 DEF disk
<1>7. ~Calm(Nothing, resets) /\ Nothing.pc \notin Resetting /\ Nothing.pc # "replace"
  BY <1>3 DEF Calm, Resetting
<1>. QED  BY <1>1, <1>2, <1>3, <1>4, <1>5, <1>6, <1>7, MoveInv

LEMMA KillInv ==
    ASSUME IInv, NEW t \in Threads, Kill(t)
    PROVE  IInv'
<1>. DEFINE q == thread[t]
            pc == IF q.pc \in {"list", "stat", "evict"} THEN "lost" ELSE "dead"
            r == On(q, pc)
<1>1. q.pc # "idle" /\ Move(t, r) /\ UNCHANGED <<backend, clock, resets, disk>>
  BY DEF Kill, Go, On
<1>2. q \in Request /\ Faithful(q, clock) /\ q.since <= resets
  BY UnderWay DEF IInv, Requests
<1>3. writes \in Nat /\ cache \in {"full", "bare", "none"}
  BY DEF IInv, Counted
<1>4. /\ pc \in Stages /\ pc \notin Working /\ pc \notin Resetting
      /\ pc \notin {"open", "send", "done", "replace"}
  BY DEF Stages, Working, Resetting
<1>5. t \in parts => pc = "dead"
  BY DEF IInv, NoPartLeft
<1>. HIDE DEF pc
<1>6. r \in Request /\ SameRequest(r, q) /\ r.pc = pc /\ r.sec = q.sec
  BY <1>2, <1>4, GoneOn
<1>. HIDE DEF r
<1>7. Faithful(r, clock) /\ r.since <= resets
  BY <1>2, <1>4, <1>6 DEF Faithful, SameRequest
<1>8. Filed'
  BY <1>1 DEF IInv, Filed, disk
<1>9. UNCHANGED <<cache, writes, parts>>
  BY <1>1 DEF disk
<1>10. Calm(r, resets) => r.job \in Jobs /\ backend[r.job] = "finished"
  BY <1>1, <1>6, UnderWay DEF Calm, SameRequest
<1>. QED  BY <1>1, <1>3, <1>4, <1>5, <1>6, <1>7, <1>8, <1>9, <1>10, MoveInv

\* A reset forgets the jobs, and with them what any request before it relied on.
LEMMA RespawnInv ==
    ASSUME IInv, NEW t \in Threads, Respawn(t)
    PROVE  IInv'
<1>. DEFINE r == [Nothing EXCEPT !.pc = "scan", !.kind = "reset"]
<1>1. /\ thread[t].pc = "idle" /\ resets' = resets + 1 /\ backend' = [j \in Jobs |-> "none"]
      /\ Move(t, r) /\ UNCHANGED <<clock, writes, cache, results, parts>>
  BY DEF Respawn, disk
<1>2. /\ resets \in Nat /\ thread \in [Threads -> Request] /\ parts \subseteq Threads
      /\ clock \in Nat
  BY DEF IInv, Counted
<1>3. /\ Nothing \in Request /\ Nothing.sec = 0 /\ Nothing.since = 0 /\ ~Nothing.ready
  BY <1>2, NothingFaithful DEF Nothing
<1>4. r \in Request /\ Faithful(r, clock) /\ r.pc = "scan" /\ r.since = 0 /\ ~r.ready
  <2>1. /\ r \in Request /\ r.pc = "scan" /\ r.sec = 0 /\ r.since = 0 /\ ~r.ready
    BY <1>3 DEF Request, Stages, Resetting
  <2>. HIDE DEF r
  <2>. QED  BY <1>2, <2>1 DEF Faithful, Working
<1>. HIDE DEF r
<1>5. thread' \in [Threads -> Request]
      /\ \A u \in Threads : thread'[u] = IF u = t THEN r ELSE thread[u]
  BY <1>1, <1>2, <1>4 DEF Move
<1>6. \A u \in Threads : thread[u].since \in Nat /\ thread[u].since <= resets
  BY <1>2 DEF IInv, Requests, Request
<1>7. Counted'
  BY <1>1, <1>2, <1>5 DEF IInv, Counted
<1>8. Filed'
  BY <1>1 DEF IInv, Filed
<1>9. Requests'
  BY <1>1, <1>2, <1>4, <1>5, <1>6 DEF IInv, Requests
<1>10. Undisturbed'
  BY <1>1, <1>2 DEF Undisturbed
<1>11. \A u \in Threads : ~Calm(thread'[u], resets')
  BY <1>1, <1>2, <1>4, <1>5, <1>6 DEF Calm
<1>12. Served'
  BY <1>11 DEF Served
<1>13. NoPartLeft'
  BY <1>1, <1>2, <1>5 DEF IInv, NoPartLeft
<1>. QED  BY <1>7, <1>8, <1>9, <1>10, <1>12, <1>13 DEF IInv
--------------------------------------------------------------------------------
LEMMA StepInv ==
    ASSUME IInv, NEW t \in Threads, Step(t)
    PROVE  IInv'
  BY LoadInv, OpenInv, InfoInv, FindInv, SendInv, FetchInv, WriteInv, ReplaceInv, ListInv,
     StatInv, EvictInv, ScanInv, UnlinkInv, RmdirInv, MkdirInv, EndInv DEF Step

LEMMA NextInv == IInv /\ [Next]_vars => IInv'
<1>. SUFFICES ASSUME IInv, [Next]_vars PROVE IInv'
  OBVIOUS
<1>1. ASSUME UNCHANGED vars PROVE IInv'
  BY <1>1 DEF vars, IInv, Counted, Filed, Requests, Undisturbed, Served, NoPartLeft, Done
<1>2. CASE Tick
  BY <1>2, TickInv
<1>3. CASE \E j \in Jobs : Finish(j)
  BY <1>3, FinishInv
<1>4. CASE \E t \in Threads : \E kind \in {"page", "download"}, j \in Jobs : Begin(t, kind, j)
  BY <1>4, BeginInv
<1>5. CASE \E t \in Threads : Respawn(t) \/ Step(t) \/ Kill(t)
  BY <1>5, RespawnInv, StepInv, KillInv
<1>6. CASE Quiet
  BY <1>1, <1>6 DEF Quiet
<1>. QED  BY <1>1, <1>2, <1>3, <1>4, <1>5, <1>6 DEF Next
--------------------------------------------------------------------------------
\* The inductive invariant: whole files of the past under names of their own, requests that
\* hold nothing of another job, an undisturbed directory before the first reset.
THEOREM CacheInvariant == Spec => []IInv
<1>. QED  BY InitInv, NextInv, PTL DEF Spec

\* Types, and that every file in the directory is whole at all times (os.replace of
\* write_atomically).
THEOREM CacheTyped == Spec => []TypeOK
<1>1. IInv => TypeOK
  BY DEF IInv, Counted, Filed, TypeOK
<1>. QED  BY <1>1, CacheInvariant, PTL

\* Nobody gets half a report (write_atomically, load_cached_result, send_from_directory).
THEOREM AlwaysWhole == Spec => []WholeReport
<1>1. IInv => WholeReport
  BY DEF IInv, Requests, Faithful, WholeReport, Done
<1>. QED  BY <1>1, CacheInvariant, PTL

\* The report that is shown is that of the job asked for (find_cached_result_filename).
THEOREM AlwaysOwnReport == Spec => []OwnReport
<1>1. IInv => OwnReport
  BY DEF IInv, Requests, Faithful, OwnReport, Done
<1>. QED  BY <1>1, CacheInvariant, PTL

\* Until a reset a finished job is shown, and downloaded if JOB_ID_PATTERN matches its id,
\* whatever is evicted and whoever is killed (data.result, data.download_result): only a full
\* disk is in the way.
THEOREM EvictionIsFree == Spec => []EvictionCostsNoAnswer
<1>1. IInv => EvictionCostsNoAnswer
  BY DEF IInv, Served, EvictionCostsNoAnswer, Done, Calm
<1>. QED  BY <1>1, CacheInvariant, PTL

\* What lies in cache/incomplete is still being written, or its writer was killed
\* (write_atomically).
THEOREM NothingLeftBehind == Spec => []NoPartLeft
<1>1. IInv => NoPartLeft
  BY DEF IInv
<1>. QED  BY <1>1, CacheInvariant, PTL
--------------------------------------------------------------------------------
(* Sums of sizes.                                                             *)

Units(set, size) == UNION {{x} \X (1..size[x]) : x \in set}

LEMMA UnitsOf ==
    ASSUME NEW set, NEW size
    PROVE  /\ Total(set, size) = Cardinality(Units(set, size))
           /\ \A u : u \in Units(set, size) <=> \E x \in set : u \in {x} \X (1..size[x])
  BY DEF Total, Units

\* A finite set of things of finite size has a size.
LEMMA UnitsFinite ==
    ASSUME NEW set, IsFiniteSet(set), NEW size, \A x \in set : size[x] \in Nat
    PROVE  IsFiniteSet(Units(set, size)) /\ Total(set, size) \in Nat
<1>. DEFINE heap == [x \in set |-> {x} \X (1..size[x])]
            heaps == {{x} \X (1..size[x]) : x \in set}
<1>1. heap \in Surjection(set, heaps)
  BY DEF Surjection
<1>2. \A x \in set : IsFiniteSet({x} \X (1..size[x]))
  <2>. SUFFICES ASSUME NEW x \in set PROVE IsFiniteSet({x} \X (1..size[x]))
    OBVIOUS
  <2>1. IsFiniteSet(1..size[x])
    BY FS_Interval
  <2>2. IsFiniteSet({x})
    BY FS_Singleton
  <2>. QED  BY <2>1, <2>2, FS_Product
<1>3. \A h \in heaps : IsFiniteSet(h)
  BY <1>2
<1>. HIDE DEF heap, heaps
<1>4. IsFiniteSet(heaps)
  BY <1>1, FS_Surjection
<1>5. IsFiniteSet(UNION heaps)
  BY <1>3, <1>4, FS_UNION
<1>6. Units(set, size) = UNION heaps
  BY DEF Units, heaps
<1>. QED  BY <1>5, <1>6, UnitsOf, FS_CardinalityType

LEMMA TotalOfLess ==
    ASSUME NEW set, IsFiniteSet(set), NEW less, less \subseteq set,
           NEW size, \A x \in set : size[x] \in Nat
    PROVE  IsFiniteSet(less) /\ Total(less, size) \in Nat /\ Total(less, size) <= Total(set, size)
<1>1. IsFiniteSet(less)
  BY FS_Subset
<1>2. Units(less, size) \subseteq Units(set, size)
  BY UnitsOf
<1>3. IsFiniteSet(Units(set, size)) /\ Units(less, size) \in SUBSET Units(set, size)
  BY <1>2, UnitsFinite
<1>4. Cardinality(Units(less, size)) <= Cardinality(Units(set, size))
  BY <1>3, FS_Subset
<1>5. Total(less, size) \in Nat
  BY <1>1, UnitsFinite
<1>. QED  BY <1>1, <1>4, <1>5, UnitsOf

LEMMA TotalOfBoth ==
    ASSUME NEW one, IsFiniteSet(one), NEW other, IsFiniteSet(other),
           NEW size, \A x \in one \cup other : size[x] \in Nat
    PROVE  Total(one \cup other, size) <= Total(one, size) + Total(other, size)
<1>. DEFINE U1 == Units(one, size)
            U2 == Units(other, size)
<1>1. Units(one \cup other, size) = U1 \cup U2
  BY UnitsOf
<1>2. /\ IsFiniteSet(U1) /\ Total(one, size) \in Nat
      /\ IsFiniteSet(U2) /\ Total(other, size) \in Nat
  BY UnitsFinite
<1>. HIDE DEF U1, U2
<1>3. Cardinality(U1 \cup U2) = Cardinality(U1) + Cardinality(U2) - Cardinality(U1 \cap U2)
  BY <1>2, FS_Union
<1>4. Cardinality(U1 \cap U2) \in Nat
  <2>1. U1 \cap U2 \in SUBSET U1
    OBVIOUS
  <2>2. IsFiniteSet(U1 \cap U2)
    BY <1>2, <2>1, FS_Subset
  <2>. QED  BY <2>2, FS_CardinalityType
<1>5. /\ Total(one, size) = Cardinality(U1) /\ Total(other, size) = Cardinality(U2)
      /\ Total(one \cup other, size) = Cardinality(U1 \cup U2)
  BY <1>1, UnitsOf DEF U1, U2
<1>. QED  BY <1>2, <1>3, <1>4, <1>5

LEMMA TotalOfOne ==
    ASSUME NEW x, NEW size, size[x] \in Nat
    PROVE  Total({x}, size) = size[x]
<1>1. Units({x}, size) = {x} \X (1..size[x])
  BY UnitsOf
<1>2. IsFiniteSet({x}) /\ Cardinality({x}) = 1
  BY FS_Singleton
<1>. DEFINE n == size[x]
<1>. HIDE DEF n
<1>3. IsFiniteSet(1..n) /\ Cardinality(1..n) = n
  <2>1. n \in Nat /\ 1 \in Int /\ n \in Int
    BY DEF n
  <2>2. IsFiniteSet(1..n) /\ Cardinality(1..n) = IF 1 > n THEN 0 ELSE n - 1 + 1
    BY <2>1, FS_Interval
  <2>. QED  BY <2>1, <2>2
<1>4. Cardinality({x} \X (1..n)) = Cardinality({x}) * Cardinality(1..n)
  BY <1>2, <1>3, FS_Product
<1>5. n \in Nat
  BY DEF n
<1>6. Cardinality({x} \X (1..n)) = n
  BY <1>2, <1>3, <1>4, <1>5
<1>. QED  BY <1>1, <1>6, UnitsOf DEF n

LEMMA TotalOfMore ==
    ASSUME NEW set, IsFiniteSet(set), NEW x, x \notin set,
           NEW size, size[x] \in Nat, \A y \in set : size[y] \in Nat
    PROVE  Total(set \cup {x}, size) = Total(set, size) + size[x]
<1>. DEFINE U1 == Units(set, size)
            U2 == Units({x}, size)
<1>1. Units(set \cup {x}, size) = U1 \cup U2 /\ U1 \cap U2 = {}
  BY UnitsOf
<1>2. IsFiniteSet({x})
  BY FS_Singleton
<1>3. IsFiniteSet(U1) /\ IsFiniteSet(U2) /\ Total(set, size) \in Nat
  BY <1>2, UnitsFinite
<1>. HIDE DEF U1, U2
<1>4. Cardinality(U1 \cup U2) = Cardinality(U1) + Cardinality(U2) - Cardinality(U1 \cap U2)
  BY <1>3, FS_Union
<1>5. Cardinality(U1 \cap U2) = 0
  BY <1>1, FS_EmptySet
<1>6. /\ Total(set, size) = Cardinality(U1) /\ Total({x}, size) = Cardinality(U2)
      /\ Total(set \cup {x}, size) = Cardinality(U1 \cup U2)
  BY <1>1, UnitsOf DEF U1, U2
<1>7. Total({x}, size) = size[x]
  BY TotalOfOne
<1>. QED  BY <1>3, <1>4, <1>5, <1>6, <1>7

LEMMA TotalOfNone == ASSUME NEW size PROVE Total({}, size) = 0
<1>1. Units({}, size) = {}
  BY UnitsOf
<1>. QED  BY <1>1, UnitsOf, FS_EmptySet

LEMMA TotalSame ==
    ASSUME NEW set, NEW one, NEW other, \A x \in set : one[x] = other[x]
    PROVE  Total(set, one) = Total(set, other)
<1>1. \A u : u \in Units(set, one) <=> u \in Units(set, other)
  <2>1. \A x \in set : {x} \X (1..one[x]) = {x} \X (1..other[x])
    OBVIOUS
  <2>. QED  BY <2>1, UnitsOf
<1>2. Units(set, one) = Units(set, other)
  BY <1>1
<1>. QED  BY <1>2, UnitsOf

\* Things of size one are counted.
LEMMA TotalOfOnes ==
    ASSUME NEW set, IsFiniteSet(set), NEW size, \A x \in set : size[x] = 1
    PROVE  Total(set, size) = Cardinality(set)
<1>1. Units(set, size) = set \X (1..1)
  BY UnitsOf
<1>2. IsFiniteSet(1..1) /\ Cardinality(1..1) = 1
  <2>1. 1..1 = {1}
    OBVIOUS
  <2>. QED  BY <2>1, FS_Singleton
<1>3. Cardinality(set \X (1..1)) = Cardinality(set) * Cardinality(1..1)
  BY <1>2, FS_Product
<1>4. Cardinality(set) \in Nat
  BY FS_CardinalityType
<1>5. Cardinality(set \X (1..1)) = Cardinality(set)
  BY <1>2, <1>3, <1>4
<1>. QED  BY <1>1, <1>5, UnitsOf
--------------------------------------------------------------------------------
(* Trims.                                                                     *)

\* How much a file, or a request with the file it wrote, counts for.
FileSize(weigh) == [f \in File |-> weigh[f.job]]
AskedSize(weigh) ==
    [t \in Threads |-> IF thread[t].job \in Jobs THEN weigh[thread[t].job] ELSE 0]

\* The requests that have listed the directory, and the files each of them will not see.
Listing == {t \in Threads : thread[t].pc \in {"stat", "evict"}}
Missed(t) ==
    IF thread[t].pc = "stat"
    THEN {f \in results : \A g \in thread[t].listed : ~(f.sec = g.sec /\ f.job = g.job)}
    ELSE results \ thread[t].listed

\* The directory is past its bound by what the fresh requests wrote.  A request that is timely
\* misses only what those in since[t] wrote after it had listed; one that is not wrote its own
\* file before the last trim that ended had listed.  Of two timely requests, the one that
\* listed later misses no more, or wrote what it wrote before the other listed.
Chain(weigh, bound, fresh, timely, since) ==
    /\ fresh \subseteq Trimming /\ timely \subseteq Listing
    /\ Total(results, FileSize(weigh)) <= bound + Total(fresh, AskedSize(weigh))
    /\ \A t \in Listing \ timely : t \notin fresh
    /\ \A t \in timely :
        /\ since[t] \subseteq fresh /\ t \notin since[t]
        /\ Total(Missed(t), FileSize(weigh)) <= Total(since[t], AskedSize(weigh))
    /\ \A t, u \in timely : since[u] \subseteq since[t] \/ u \notin since[t]

ChainInv(weigh, bound) ==
    \E fresh, timely \in SUBSET Threads : \E since \in [Threads -> SUBSET Threads] :
        Chain(weigh, bound, fresh, timely, since)

\* All sets are finite, and a request killed as it trimmed had a job.
Finite ==
    /\ IsFiniteSet(results)
    /\ \A t \in Threads : /\ IsFiniteSet(thread[t].listed)
                          /\ thread[t].pc = "lost" => thread[t].job \in Jobs

\* The steps that have nothing to do with a trim.
Aloof(t) ==
    /\ results' \subseteq results
    /\ thread[t].pc \notin {"list", "stat", "evict", "lost"}
    /\ \A u \in Threads \ {t} : thread'[u] = thread[u]
    /\ thread'[t].pc \notin {"stat", "evict", "lost"}
    /\ thread'[t].listed \in {thread[t].listed, results, {}}

Apart(pc) == pc \notin {"list", "stat", "evict", "lost"}

LEMMA MoveAloof ==
    ASSUME IInv, NEW t \in Threads, NEW q, Move(t, q), results' \subseteq results,
           Apart(thread[t].pc), q.pc \notin {"stat", "evict", "lost"},
           q.listed \in {thread[t].listed, results, {}}
    PROVE  Aloof(t)
<1>1. thread \in [Threads -> Request]
  BY DEF IInv, Counted
<1>2. thread'[t] = q /\ \A u \in Threads \ {t} : thread'[u] = thread[u]
  BY <1>1 DEF Move
<1>. QED  BY <1>2 DEF Aloof, Apart

LEMMA GoAloof ==
    ASSUME IInv, NEW t \in Threads, results' \subseteq results, Apart(thread[t].pc),
           NEW pc, Go(t, pc), pc \notin {"stat", "evict", "lost"}
    PROVE  Aloof(t)
<1>. DEFINE q == [thread[t] EXCEPT !.pc = pc]
<1>1. thread[t] \in Request
  BY UnderWay
<1>2. q.pc = pc /\ q.listed = thread[t].listed
  BY <1>1 DEF Request
<1>3. Move(t, q)
  BY DEF Go
<1>. HIDE DEF q
<1>. QED  BY <1>2, <1>3, MoveAloof

LEMMA AnswerAloof ==
    ASSUME IInv, NEW t \in Threads, results' \subseteq results, Apart(thread[t].pc),
           NEW answer, NEW j, Answer(t, answer, j)
    PROVE  Aloof(t)
<1>. DEFINE q == [thread[t] EXCEPT !.pc = "done", !.answer = answer, !.of = j]
<1>1. thread[t] \in Request
  BY UnderWay
<1>2. q.pc = "done" /\ q.listed = thread[t].listed
  BY <1>1 DEF Request
<1>3. Move(t, q)
  BY DEF Answer
<1>. HIDE DEF q
<1>. QED  BY <1>2, <1>3, MoveAloof

LEMMA TodoAloof ==
    ASSUME IInv, NEW t \in Threads, results' \subseteq results, Apart(thread[t].pc),
           NEW pc, pc \notin {"stat", "evict", "lost"}, NEW todo,
           \/ Move(t, [thread[t] EXCEPT !.pc = pc, !.todo = todo])
           \/ Move(t, [thread[t] EXCEPT !.todo = todo])
    PROVE  Aloof(t)
<1>1. thread[t] \in Request
  BY UnderWay
<1>2. CASE Move(t, [thread[t] EXCEPT !.pc = pc, !.todo = todo])
  <2>. DEFINE q == [thread[t] EXCEPT !.pc = pc, !.todo = todo]
  <2>1. q.pc = pc /\ q.listed = thread[t].listed
    BY <1>1 DEF Request
  <2>2. Move(t, q)
    BY <1>2
  <2>. HIDE DEF q
  <2>. QED  BY <2>1, <2>2, MoveAloof
<1>3. CASE Move(t, [thread[t] EXCEPT !.todo = todo])
  <2>. DEFINE q == [thread[t] EXCEPT !.todo = todo]
  <2>1. q.pc = thread[t].pc /\ q.listed = thread[t].listed
    BY <1>1 DEF Request
  <2>2. Move(t, q)
    BY <1>3
  <2>. HIDE DEF q
  <2>. QED  BY <2>1, <2>2, MoveAloof DEF Apart
<1>. QED  BY <1>2, <1>3

LEMMA LookupAloof ==
    ASSUME IInv, NEW t \in Threads, Load(t) \/ Open(t) \/ Info(t) \/ Find(t) \/ Send(t) \/ Fetch(t)
    PROVE  Aloof(t)
<1>1. thread[t] \in Request
  BY UnderWay
<1>2. results' = results /\ Apart(thread[t].pc)
  BY DEF Load, Open, Info, Find, Send, Fetch, disk, Apart
<1>3. CASE Load(t)
  <2>1. Answer(t, "error", None) \/ \E todo : Move(t, [thread[t] EXCEPT !.pc = "open", !.todo = todo])
    BY <1>3 DEF Load
  <2>. QED  BY <1>2, <2>1, AnswerAloof, TodoAloof
<1>4. CASE Open(t)
  <2>1. ASSUME NEW j, Move(t, [thread[t] EXCEPT !.pc = "info", !.of = j])
        PROVE  Aloof(t)
    <3>. DEFINE q == [thread[t] EXCEPT !.pc = "info", !.of = j]
    <3>1. q.pc = "info" /\ q.listed = thread[t].listed
      BY <1>1 DEF Request
    <3>2. Move(t, q)
      BY <2>1
    <3>. HIDE DEF q
    <3>. QED  BY <1>2, <3>1, <3>2, MoveAloof
  <2>2. \/ Go(t, "info")
        \/ \E j : Move(t, [thread[t] EXCEPT !.pc = "info", !.of = j])
        \/ \E todo : Move(t, [thread[t] EXCEPT !.todo = todo])
    BY <1>4 DEF Open
  <2>. QED  BY <1>2, <2>1, <2>2, GoAloof, TodoAloof
<1>5. CASE Info(t)
  <2>1. ASSUME NEW info, NEW pc \in {"find", "fetch"},
               Move(t, [thread[t] EXCEPT !.info = info, !.pc = pc])
        PROVE  Aloof(t)
    <3>. DEFINE q == [thread[t] EXCEPT !.info = info, !.pc = pc]
    <3>1. q.pc = pc /\ q.listed = thread[t].listed
      BY <1>1 DEF Request
    <3>2. Move(t, q)
      BY <2>1
    <3>. HIDE DEF q
    <3>. QED  BY <1>2, <3>1, <3>2, MoveAloof
  <2>2. \/ \E a, j : Answer(t, a, j)
        \/ \E info : \E pc \in {"find", "fetch"} :
              Move(t, [thread[t] EXCEPT !.info = info, !.pc = pc])
    BY <1>5 DEF Info
  <2>. QED  BY <1>2, <2>1, <2>2, AnswerAloof
<1>6. CASE Find(t)
  <2>1. \/ Answer(t, "error", None) \/ Go(t, "fetch")
        \/ \E todo : Move(t, [thread[t] EXCEPT !.pc = "send", !.todo = todo])
    BY <1>6 DEF Find
  <2>. QED  BY <1>2, <2>1, AnswerAloof, GoAloof, TodoAloof
<1>7. CASE Send(t)
  <2>1. Go(t, "fetch") \/ \E a, j : Answer(t, a, j)
    BY <1>7 DEF Send
  <2>. QED  BY <1>2, <2>1, AnswerAloof, GoAloof
<1>8. CASE Fetch(t)
  <2>1. ASSUME NEW sec, Move(t, [thread[t] EXCEPT !.pc = "write", !.sec = sec])
        PROVE  Aloof(t)
    <3>. DEFINE q == [thread[t] EXCEPT !.pc = "write", !.sec = sec]
    <3>1. q.pc = "write" /\ q.listed = thread[t].listed
      BY <1>1 DEF Request
    <3>2. Move(t, q)
      BY <2>1
    <3>. HIDE DEF q
    <3>. QED  BY <1>2, <3>1, <3>2, MoveAloof
  <2>2. \/ \E a, j : Answer(t, a, j)
        \/ \E sec : Move(t, [thread[t] EXCEPT !.pc = "write", !.sec = sec])
    BY <1>8 DEF Fetch
  <2>. QED  BY <1>2, <2>1, <2>2, AnswerAloof
<1>. QED  BY <1>3, <1>4, <1>5, <1>6, <1>7, <1>8

LEMMA OtherAloof ==
    ASSUME IInv, NEW t \in Threads,
           Write(t) \/ Scan(t) \/ Unlink(t) \/ Rmdir(t) \/ Mkdir(t) \/ End(t) \/ Respawn(t)
    PROVE  Aloof(t)
<1>1. thread[t] \in Request
  BY UnderWay
<1>2. results' \subseteq results /\ Apart(thread[t].pc)
  BY DEF Write, Scan, Unlink, Rmdir, Mkdir, End, Respawn, disk, Apart
<1>3. CASE Write(t)
  <2>1. ASSUME NEW mtime, Move(t, [thread[t] EXCEPT !.pc = "replace", !.mtime = mtime])
        PROVE  Aloof(t)
    <3>. DEFINE q == [thread[t] EXCEPT !.pc = "replace", !.mtime = mtime]
    <3>1. q.pc = "replace" /\ q.listed = thread[t].listed
      BY <1>1 DEF Request
    <3>2. Move(t, q)
      BY <2>1
    <3>. HIDE DEF q
    <3>. QED  BY <1>2, <3>1, <3>2, MoveAloof
  <2>2. \/ \E a, j : Answer(t, a, j)
        \/ \E mtime : Move(t, [thread[t] EXCEPT !.pc = "replace", !.mtime = mtime])
    BY <1>3 DEF Write
  <2>. QED  BY <1>2, <2>1, <2>2, AnswerAloof
<1>4. CASE Unlink(t) \/ Rmdir(t) \/ Mkdir(t)
  <2>1. (\E a, j : Answer(t, a, j)) \/ (\E pc \in {"rmdir", "mkdir"} : Go(t, pc))
    BY <1>4 DEF Unlink, Rmdir, Mkdir
  <2>. QED  BY <1>2, <2>1, AnswerAloof, GoAloof
<1>5. CASE Scan(t)
  <2>1. ASSUME NEW within, Move(t, [thread[t] EXCEPT !.pc = "unlink", !.listed = results,
                                                     !.within = within])
        PROVE  Aloof(t)
    <3>. DEFINE q == [thread[t] EXCEPT !.pc = "unlink", !.listed = results, !.within = within]
    <3>1. q.pc = "unlink" /\ q.listed = results
      BY <1>1 DEF Request
    <3>2. Move(t, q)
      BY <2>1
    <3>. HIDE DEF q
    <3>. QED  BY <1>2, <3>1, <3>2, MoveAloof
  <2>2. \/ \E a, j : Answer(t, a, j)
        \/ \E within : Move(t, [thread[t] EXCEPT !.pc = "unlink", !.listed = results,
                                                 !.within = within])
    BY <1>5 DEF Scan
  <2>. QED  BY <1>2, <2>1, <2>2, AnswerAloof
<1>6. CASE End(t)
  <2>1. Move(t, Nothing) /\ Nothing.pc = "idle" /\ Nothing.listed = {}
    BY <1>6 DEF End, Nothing
  <2>. QED  BY <1>2, <2>1, MoveAloof
<1>7. CASE Respawn(t)
  <2>. DEFINE q == [Nothing EXCEPT !.pc = "scan", !.kind = "reset"]
  <2>1. Move(t, q) /\ q.pc = "scan" /\ q.listed = {}
    BY <1>7 DEF Respawn, Nothing
  <2>. HIDE DEF q
  <2>. QED  BY <1>2, <2>1, MoveAloof
<1>. QED  BY <1>3, <1>4, <1>5, <1>6, <1>7

LEMMA BeginAloof ==
    ASSUME IInv, NEW t \in Threads, NEW kind, NEW j, Begin(t, kind, j)
    PROVE  Aloof(t)
<1>. DEFINE pc == IF kind = "page" THEN "load" ELSE "info"
            q  == [Nothing EXCEPT !.pc = pc, !.kind = kind, !.job = j,
                                  !.ready = backend[j] = "finished", !.since = resets]
<1>1. Move(t, q) /\ results' = results /\ Apart(thread[t].pc)
  BY DEF Begin, disk, Apart
<1>2. pc \in {"load", "info"}
  OBVIOUS
<1>. HIDE DEF pc
<1>3. q.pc = pc /\ q.listed = {}
  BY DEF Nothing
<1>. HIDE DEF q
<1>. QED  BY <1>1, <1>2, <1>3, MoveAloof

LEMMA SizesTyped ==
    ASSUME IInv, Finite, NEW weigh \in [Jobs -> Nat]
    PROVE  /\ \A f \in File : FileSize(weigh)[f] \in Nat
           /\ \A t \in Threads : AskedSize(weigh)[t] \in Nat
           /\ IsFiniteSet(results) /\ results \subseteq File
           /\ \A t \in Threads : Missed(t) \subseteq results
<1>1. \A f \in File : FileSize(weigh)[f] \in Nat
  BY DEF FileSize, File
<1>2. \A t \in Threads : AskedSize(weigh)[t] \in Nat
  BY DEF AskedSize
<1>. QED  BY <1>1, <1>2 DEF IInv, Filed, Finite, Missed

LEMMA AskedSame ==
    ASSUME NEW weigh, NEW ts, ts \subseteq Threads, \A t \in ts : thread'[t].job = thread[t].job
    PROVE  Total(ts, AskedSize(weigh))' = Total(ts, AskedSize(weigh))
<1>1. \A t \in ts : (AskedSize(weigh))'[t] = AskedSize(weigh)[t]
  BY DEF AskedSize
<1>2. Total(ts, (AskedSize(weigh))') = Total(ts, AskedSize(weigh))
  BY <1>1, TotalSame
<1>3. Total(ts, AskedSize(weigh))' = Total(ts, (AskedSize(weigh))')
  OBVIOUS
<1>. QED  BY <1>2, <1>3

\* What is fewer counts for less.
LEMMA FewerFiles ==
    ASSUME IInv, Finite, NEW weigh \in [Jobs -> Nat],
           NEW few, NEW many, few \subseteq many, many \subseteq results
    PROVE  /\ Total(few, FileSize(weigh)) <= Total(many, FileSize(weigh))
           /\ Total(few, FileSize(weigh)) \in Nat /\ Total(many, FileSize(weigh)) \in Nat
<1>1. /\ IsFiniteSet(results) /\ \A f \in many : FileSize(weigh)[f] \in Nat
  BY SizesTyped
<1>2. IsFiniteSet(many)
  BY <1>1, FS_Subset
<1>. QED  BY <1>1, <1>2, TotalOfLess

LEMMA FewThreads ==
    ASSUME IInv, Finite, NEW weigh \in [Jobs -> Nat], NEW ts, ts \subseteq Threads
    PROVE  IsFiniteSet(ts) /\ Total(ts, AskedSize(weigh)) \in Nat
<1>1. \A t \in ts : AskedSize(weigh)[t] \in Nat
  BY SizesTyped
<1>2. IsFiniteSet(ts)
  BY ThreadsAssumption, FS_Subset
<1>. QED  BY <1>1, <1>2, UnitsFinite

\* The chain holds while nobody writes or lists, and nobody ends a trim.
LEMMA ChainShrinks ==
    ASSUME IInv, Finite, NEW weigh \in [Jobs -> Nat], NEW bound \in Nat, ChainInv(weigh, bound),
           results' \subseteq results,
           \A t \in Trimming : t \in Trimming' /\ thread'[t].job = thread[t].job,
           \A t \in Listing' : t \in Listing /\ Missed(t)' \subseteq Missed(t)
    PROVE  ChainInv(weigh, bound)'
<1>1. PICK fresh \in SUBSET Threads, timely \in SUBSET Threads, since \in [Threads -> SUBSET Threads] :
        Chain(weigh, bound, fresh, timely, since)
  BY DEF ChainInv
<1>2. PICK still \in SUBSET Threads : still = timely \cap Listing'
  OBVIOUS
<1>3. /\ Total(fresh, AskedSize(weigh))' = Total(fresh, AskedSize(weigh))
      /\ Total(fresh, AskedSize(weigh)) \in Nat
  <2>1. \A t \in fresh : thread'[t].job = thread[t].job
    BY <1>1 DEF Chain
  <2>. QED  BY <2>1, AskedSame, FewThreads
<1>4. (Total(results, FileSize(weigh)) <= bound + Total(fresh, AskedSize(weigh)))'
  <2>1. /\ Total(results', FileSize(weigh)) <= Total(results, FileSize(weigh))
        /\ Total(results', FileSize(weigh)) \in Nat /\ Total(results, FileSize(weigh)) \in Nat
    BY FewerFiles
  <2>2. Total(results, FileSize(weigh)) <= bound + Total(fresh, AskedSize(weigh))
    BY <1>1 DEF Chain
  <2>3. Total(results', FileSize(weigh)) <= bound + Total(fresh, AskedSize(weigh))
    BY <1>3, <2>1, <2>2
  <2>. QED  BY <1>3, <2>3
<1>5. ASSUME NEW t \in still
      PROVE  (Total(Missed(t), FileSize(weigh)) <= Total(since[t], AskedSize(weigh)))'
  <2>1. t \in Threads /\ t \in timely /\ t \in Listing' /\ since[t] \subseteq Threads
    BY <1>2
  <2>2. since[t] \subseteq Trimming
    BY <1>1, <2>1 DEF Chain
  <2>3. /\ Total(since[t], AskedSize(weigh))' = Total(since[t], AskedSize(weigh))
        /\ Total(since[t], AskedSize(weigh)) \in Nat
    BY <2>1, <2>2, AskedSame, FewThreads
  <2>4. Missed(t)' \subseteq Missed(t) /\ Missed(t) \subseteq results
    BY <2>1, SizesTyped
  <2>5. /\ Total(Missed(t)', FileSize(weigh)) <= Total(Missed(t), FileSize(weigh))
        /\ Total(Missed(t)', FileSize(weigh)) \in Nat /\ Total(Missed(t), FileSize(weigh)) \in Nat
    BY <2>4, FewerFiles
  <2>6. Total(Missed(t), FileSize(weigh)) <= Total(since[t], AskedSize(weigh))
    BY <1>1, <2>1 DEF Chain
  <2>7. Total(Missed(t)', FileSize(weigh)) <= Total(since[t], AskedSize(weigh))
    BY <2>3, <2>5, <2>6
  <2>. QED  BY <2>3, <2>7
<1>6. /\ (fresh \subseteq Trimming)' /\ (still \subseteq Listing)'
      /\ (\A t \in Listing \ still : t \notin fresh)'
  BY <1>1, <1>2 DEF Chain
<1>7. \A t \in still : since[t] \subseteq fresh /\ t \notin since[t]
  BY <1>1, <1>2 DEF Chain
<1>8. \A t, u \in still : since[u] \subseteq since[t] \/ u \notin since[t]
  BY <1>1, <1>2 DEF Chain
<1>9. Chain(weigh, bound, fresh, still, since)'
  BY <1>4, <1>5, <1>6, <1>7, <1>8 DEF Chain
<1>. QED  BY <1>9 DEF ChainInv

LEMMA AloofChain ==
    ASSUME IInv, Finite, NEW weigh \in [Jobs -> Nat], NEW bound \in Nat, ChainInv(weigh, bound),
           NEW t \in Threads, Aloof(t)
    PROVE  ChainInv(weigh, bound)'
<1>1. results' \subseteq results
  BY DEF Aloof
<1>2. \A u \in Trimming : u \in Trimming' /\ thread'[u].job = thread[u].job
  BY DEF Aloof, Trimming
<1>3. ASSUME NEW u \in Listing' PROVE u \in Listing /\ Missed(u)' \subseteq Missed(u)
  <2>1. u \in Threads /\ u # t /\ thread'[u] = thread[u] /\ u \in Listing
    BY <1>3 DEF Aloof, Listing
  <2>. QED  BY <1>1, <2>1 DEF Missed
<1>. QED  BY <1>1, <1>2, <1>3, ChainShrinks

LEMMA KillChain ==
    ASSUME IInv, Finite, NEW weigh \in [Jobs -> Nat], NEW bound \in Nat, ChainInv(weigh, bound),
           NEW t \in Threads, Kill(t)
    PROVE  ChainInv(weigh, bound)'
<1>. DEFINE pc == IF thread[t].pc \in {"list", "stat", "evict"} THEN "lost" ELSE "dead"
            q  == [thread[t] EXCEPT !.pc = pc]
<1>1. results' = results /\ Move(t, q) /\ thread[t].pc \notin {"idle", "done", "dead", "lost"}
  BY DEF Kill, disk, Go
<1>2. thread \in [Threads -> Request]
  BY DEF IInv, Counted
<1>3. pc = IF thread[t].pc \in {"list", "stat", "evict"} THEN "lost" ELSE "dead"
  OBVIOUS
<1>. HIDE DEF pc
<1>4. q.pc = pc /\ q.job = thread[t].job
  BY <1>2 DEF Request
<1>. HIDE DEF q
<1>5. thread'[t] = q /\ \A u \in Threads \ {t} : thread'[u] = thread[u]
  BY <1>1, <1>2 DEF Move
<1>6. \A u \in Trimming : u \in Trimming' /\ thread'[u].job = thread[u].job
  BY <1>1, <1>3, <1>4, <1>5 DEF Trimming
<1>7. ASSUME NEW u \in Listing' PROVE u \in Listing /\ Missed(u)' \subseteq Missed(u)
  <2>1. u \in Threads /\ u # t /\ thread'[u] = thread[u] /\ u \in Listing
    BY <1>3, <1>4, <1>5 DEF Listing
  <2>. QED  BY <1>1, <2>1 DEF Missed
<1>. QED  BY <1>1, <1>6, <1>7, ChainShrinks

\* A file more counts for itself.
LEMMA OneFileMore ==
    ASSUME IInv, Finite, NEW weigh \in [Jobs -> Nat], NEW file \in File,
           NEW before, before \subseteq results, NEW after, after \subseteq before \cup {file}
    PROVE  /\ Total(after, FileSize(weigh)) <= Total(before, FileSize(weigh)) + weigh[file.job]
           /\ Total(after, FileSize(weigh)) \in Nat /\ Total(before, FileSize(weigh)) \in Nat
<1>1. /\ IsFiniteSet(results) /\ results \subseteq File
      /\ \A f \in File : FileSize(weigh)[f] \in Nat
  BY SizesTyped
<1>2. IsFiniteSet(before) /\ IsFiniteSet({file})
  BY <1>1, FS_Subset, FS_Singleton
<1>3. \A f \in before \cup {file} : FileSize(weigh)[f] \in Nat
  BY <1>1
<1>4. IsFiniteSet(before \cup {file})
  BY <1>2, FS_Union
<1>5. /\ Total(after, FileSize(weigh)) \in Nat
      /\ Total(after, FileSize(weigh)) <= Total(before \cup {file}, FileSize(weigh))
  BY <1>3, <1>4, TotalOfLess
<1>6. Total(before \cup {file}, FileSize(weigh)) \in Nat
  BY <1>3, <1>4, TotalOfLess
<1>7. Total(before, FileSize(weigh)) \in Nat
  BY <1>2, <1>3, UnitsFinite
<1>8. Total(before \cup {file}, FileSize(weigh))
        <= Total(before, FileSize(weigh)) + Total({file}, FileSize(weigh))
  BY <1>2, <1>3, TotalOfBoth
<1>9. Total({file}, FileSize(weigh)) = FileSize(weigh)[file]
  BY <1>1, TotalOfOne
<1>10. FileSize(weigh)[file] = weigh[file.job] /\ FileSize(weigh)[file] \in Nat
  BY <1>1 DEF FileSize
<1>. QED  BY <1>5, <1>6, <1>7, <1>8, <1>9, <1>10

\* So does a request.
LEMMA OneThreadMore ==
    ASSUME IInv, Finite, NEW weigh \in [Jobs -> Nat], NEW t \in Threads, thread[t].job \in Jobs,
           NEW ts, ts \subseteq Threads, t \notin ts
    PROVE  Total(ts \cup {t}, AskedSize(weigh)) = Total(ts, AskedSize(weigh)) + weigh[thread[t].job]
<1>1. \A u \in Threads : AskedSize(weigh)[u] \in Nat
  BY SizesTyped
<1>2. IsFiniteSet(ts) /\ AskedSize(weigh)[t] \in Nat /\ \A u \in ts : AskedSize(weigh)[u] \in Nat
  BY <1>1, FewThreads
<1>3. Total(ts \cup {t}, AskedSize(weigh)) = Total(ts, AskedSize(weigh)) + AskedSize(weigh)[t]
  BY <1>2, TotalOfMore
<1>. QED  BY <1>3 DEF AskedSize

LEMMA ReplaceChain ==
    ASSUME IInv, Finite, NEW weigh \in [Jobs -> Nat], NEW bound \in Nat, ChainInv(weigh, bound),
           NEW t \in Threads, Replace(t)
    PROVE  ChainInv(weigh, bound)'
<1>. DEFINE q == thread[t]
<1>1. q.pc = "replace" /\ q \in Request /\ q.job \in Jobs /\ Apart(q.pc)
  BY UnderWay DEF Replace, Working, Apart
<1>2. CASE ~(cache = "full" /\ t \in parts)
  <2>1. Answer(t, "error", None) /\ results' = results
    BY <1>2 DEF Replace
  <2>2. Aloof(t)
    BY <1>1, <2>1, AnswerAloof
  <2>. QED  BY <2>2, AloofChain
<1>3. CASE cache = "full" /\ t \in parts
  <2>1. PICK file \in File : /\ file = [sec |-> q.sec, job |-> q.job, mtime |-> q.mtime, whole |-> TRUE]
                             /\ results' = Put(file)
    <3>1. [sec |-> q.sec, job |-> q.job, mtime |-> q.mtime, whole |-> TRUE] \in File
      BY <1>1 DEF File, Request
    <3>. QED  BY <1>3, <3>1 DEF Replace
  <2>2. file.job = q.job /\ results' \subseteq results \cup {file}
    BY <2>1 DEF Put
  <2>3. thread \in [Threads -> Request] /\ thread' = [thread EXCEPT ![t] = [thread[t] EXCEPT !.pc = "list"]]
    BY <1>3 DEF IInv, Counted, Replace, Go, Move
  <2>4. thread'[t].pc = "list" /\ \A u \in Threads : thread'[u].job = thread[u].job
    BY <2>3 DEF Request
  <2>5. \A u \in Threads \ {t} : thread'[u] = thread[u]
    BY <2>3
  <2>6. PICK fresh \in SUBSET Threads, timely \in SUBSET Threads, since \in [Threads -> SUBSET Threads] :
          Chain(weigh, bound, fresh, timely, since)
    BY DEF ChainInv
  <2>7. PICK more \in SUBSET Threads : more = fresh \cup {t}
    OBVIOUS
  <2>8. PICK later \in [Threads -> SUBSET Threads] : later = [u \in Threads |-> since[u] \cup {t}]
    OBVIOUS
  <2>9. t \notin Trimming /\ t \notin Listing /\ t \in Trimming'
    BY <1>1, <2>4 DEF Trimming, Listing
  <2>10. Listing' = Listing /\ Trimming' = Trimming \cup {t}
    BY <2>4, <2>5, <2>9 DEF Trimming, Listing
  <2>11. t \notin fresh /\ t \notin timely /\ \A u \in timely : since[u] \subseteq fresh /\ t \notin since[u]
    BY <2>6, <2>9 DEF Chain
  <2>12. \A ts \in SUBSET Threads : Total(ts, AskedSize(weigh))' = Total(ts, AskedSize(weigh))
    BY <2>4, AskedSame
  <2>13. (Total(results, FileSize(weigh)) <= bound + Total(more, AskedSize(weigh)))'
    <3>1. Total(more, AskedSize(weigh)) = Total(fresh, AskedSize(weigh)) + weigh[q.job]
      BY <1>1, <2>7, <2>11, OneThreadMore
    <3>2. Total(results, FileSize(weigh)) <= bound + Total(fresh, AskedSize(weigh))
      BY <2>6 DEF Chain
    <3>3. Total(fresh, AskedSize(weigh)) \in Nat
      BY FewThreads
    <3>4. /\ Total(results', FileSize(weigh)) <= Total(results, FileSize(weigh)) + weigh[q.job]
          /\ Total(results', FileSize(weigh)) \in Nat /\ Total(results, FileSize(weigh)) \in Nat
      BY <2>2, OneFileMore
    <3>5. weigh[q.job] \in Nat
      BY <1>1
    <3>. HIDE DEF q
    <3>6. Total(results', FileSize(weigh)) <= bound + Total(more, AskedSize(weigh))
      BY <3>1, <3>2, <3>3, <3>4, <3>5
    <3>. QED  BY <2>12, <3>6
  <2>14. ASSUME NEW u \in timely
         PROVE  (Total(Missed(u), FileSize(weigh)) <= Total(later[u], AskedSize(weigh)))'
    <3>1. u \in Threads /\ u # t /\ u \in Listing /\ since[u] \subseteq Threads /\ t \notin since[u]
      BY <2>6, <2>11 DEF Chain
    <3>2. later[u] = since[u] \cup {t} /\ later[u] \in SUBSET Threads
      BY <2>8, <3>1
    <3>3. Total(later[u], AskedSize(weigh)) = Total(since[u], AskedSize(weigh)) + weigh[q.job]
      BY <1>1, <3>1, <3>2, OneThreadMore
    <3>4. Total(Missed(u), FileSize(weigh)) <= Total(since[u], AskedSize(weigh))
      BY <2>6 DEF Chain
    <3>5. Total(since[u], AskedSize(weigh)) \in Nat
      BY <3>1, FewThreads
    <3>6. Missed(u)' \subseteq Missed(u) \cup {file} /\ Missed(u) \subseteq results
      <4>1. thread'[u] = thread[u]
        BY <2>5, <3>1
      <4>. QED  BY <2>2, <4>1 DEF Missed
    <3>7. /\ Total(Missed(u)', FileSize(weigh)) <= Total(Missed(u), FileSize(weigh)) + weigh[q.job]
          /\ Total(Missed(u)', FileSize(weigh)) \in Nat /\ Total(Missed(u), FileSize(weigh)) \in Nat
      BY <2>2, <3>6, OneFileMore
    <3>8. weigh[q.job] \in Nat
      BY <1>1
    <3>9. Total(later[u], AskedSize(weigh))' = Total(later[u], AskedSize(weigh))
      BY <2>12, <3>2
    <3>. HIDE DEF q
    <3>10. Total(Missed(u)', FileSize(weigh)) <= Total(later[u], AskedSize(weigh))
      BY <3>3, <3>4, <3>5, <3>7, <3>8
    <3>. QED  BY <3>9, <3>10
  <2>15. /\ (more \subseteq Trimming)' /\ (timely \subseteq Listing)'
         /\ (\A u \in Listing \ timely : u \notin more)'
    BY <2>6, <2>7, <2>9, <2>10 DEF Chain
  <2>16. \A u \in timely : later[u] \subseteq more /\ u \notin later[u]
    BY <2>6, <2>7, <2>8, <2>11 DEF Chain
  <2>17. \A u, v \in timely : later[v] \subseteq later[u] \/ v \notin later[u]
    BY <2>6, <2>8, <2>11 DEF Chain
  <2>18. Chain(weigh, bound, more, timely, later)'
    BY <2>13, <2>14, <2>15, <2>16, <2>17 DEF Chain
  <2>. QED  BY <2>18 DEF ChainInv
<1>. QED  BY <1>2, <1>3

\* What a trim goes by, as a bound on sizes: a set of files that is not past it is within.
Bounds(weigh, bound) ==
    /\ MaxFiles # None \/ MaxBytes # None
    /\ \A files \in SUBSET File :
          IsFiniteSet(files) /\ ~Past(files) => Total(files, FileSize(weigh)) <= bound

\* An empty directory is within any bound.
LEMMA EmptyChain ==
    ASSUME IInv, Finite, NEW weigh \in [Jobs -> Nat], NEW bound \in Nat, results' = {}
    PROVE  ChainInv(weigh, bound)'
<1>1. PICK none \in SUBSET Threads : none = {}
  OBVIOUS
<1>2. PICK since \in [Threads -> SUBSET Threads] : TRUE
  <2>1. [t \in Threads |-> {}] \in [Threads -> SUBSET Threads]
    OBVIOUS
  <2>. QED  BY <2>1
<1>3. (Total(results, FileSize(weigh)) <= bound + Total(none, AskedSize(weigh)))'
  <2>1. Total({}, FileSize(weigh)) = 0 /\ Total({}, (AskedSize(weigh))') = 0
    BY TotalOfNone
  <2>2. Total(results', FileSize(weigh)) = 0 /\ Total(none, (AskedSize(weigh))') = 0
    BY <1>1, <2>1
  <2>. QED  BY <2>2
<1>4. Chain(weigh, bound, none, none, since)'
  BY <1>1, <1>3 DEF Chain
<1>. QED  BY <1>4 DEF ChainInv

LEMMA ListChain ==
    ASSUME IInv, Finite, NEW weigh \in [Jobs -> Nat], NEW bound \in Nat, ChainInv(weigh, bound),
           Bounds(weigh, bound), NEW t \in Threads, List(t)
    PROVE  ChainInv(weigh, bound)'
<1>1. thread[t].pc = "list" /\ results' = results /\ thread \in [Threads -> Request]
  BY DEF List, disk, IInv, Counted
<1>2. CASE cache # "full"
  <2>1. results' = {}
    BY <1>1, <1>2 DEF IInv, Filed
  <2>. QED  BY <2>1, EmptyChain
<1>3. CASE cache = "full"
  <2>1. thread' = [thread EXCEPT ![t] = [thread[t] EXCEPT !.pc = "stat", !.listed = results]]
    BY <1>3 DEF List, Move, Bounds
  <2>2. thread'[t].pc = "stat" /\ thread'[t].listed = results /\ thread'[t].job = thread[t].job
    BY <1>1, <2>1 DEF Request
  <2>3. \A u \in Threads \ {t} : thread'[u] = thread[u]
    BY <1>1, <2>1
  <2>4. PICK fresh \in SUBSET Threads, timely \in SUBSET Threads, since \in [Threads -> SUBSET Threads] :
          Chain(weigh, bound, fresh, timely, since)
    BY DEF ChainInv
  <2>5. PICK more \in SUBSET Threads : more = timely \cup {t}
    OBVIOUS
  <2>6. PICK later \in [Threads -> SUBSET Threads] : later = [since EXCEPT ![t] = {}]
    <3>1. [since EXCEPT ![t] = {}] \in [Threads -> SUBSET Threads]
      OBVIOUS
    <3>. QED  BY <3>1
  <2>7. t \notin Listing /\ Listing' = Listing \cup {t} /\ Trimming' = Trimming /\ t \notin timely
    BY <1>1, <2>2, <2>3, <2>4 DEF Listing, Trimming, Chain
  <2>8. \A ts \in SUBSET Threads : Total(ts, AskedSize(weigh))' = Total(ts, AskedSize(weigh))
    BY <2>2, <2>3, AskedSame
  <2>9. (Total(results, FileSize(weigh)) <= bound + Total(fresh, AskedSize(weigh)))'
    <3>1. Total(results, FileSize(weigh)) <= bound + Total(fresh, AskedSize(weigh))
      BY <2>4 DEF Chain
    <3>. QED  BY <1>1, <2>8, <3>1
  <2>10. ASSUME NEW u \in more
         PROVE  (Total(Missed(u), FileSize(weigh)) <= Total(later[u], AskedSize(weigh)))'
    <3>1. CASE u = t
      <4>1. Missed(t)' = {}
        <5>1. Missed(t)' = {f \in results' : \A g \in results : ~(f.sec = g.sec /\ f.job = g.job)}
          BY <2>2 DEF Missed
        <5>. QED  BY <1>1, <5>1
      <4>2. later[t] = {}
        BY <2>6
      <4>3. Total({}, FileSize(weigh)) = 0 /\ Total({}, (AskedSize(weigh))') = 0
        BY TotalOfNone
      <4>4. Total(Missed(t)', FileSize(weigh)) = 0 /\ Total(later[t], (AskedSize(weigh))') = 0
        BY <4>1, <4>2, <4>3
      <4>. QED  BY <3>1, <4>4
    <3>2. CASE u # t
      <4>1. u \in timely /\ later[u] = since[u] /\ thread'[u] = thread[u] /\ since[u] \in SUBSET Threads
        BY <2>3, <2>5, <2>6, <3>2
      <4>2. Total(Missed(u), FileSize(weigh)) <= Total(since[u], AskedSize(weigh))
        BY <2>4, <4>1 DEF Chain
      <4>3. Missed(u)' = Missed(u)
        BY <1>1, <4>1 DEF Missed
      <4>. QED  BY <2>8, <4>1, <4>2, <4>3
    <3>. QED  BY <3>1, <3>2
  <2>11. /\ (fresh \subseteq Trimming)' /\ (more \subseteq Listing)'
         /\ (\A u \in Listing \ more : u \notin fresh)'
    BY <2>4, <2>5, <2>7 DEF Chain
  <2>12. \A u \in more : later[u] \subseteq fresh /\ u \notin later[u]
    BY <2>4, <2>5, <2>6 DEF Chain
  <2>13. \A u, v \in more : later[v] \subseteq later[u] \/ v \notin later[u]
    <3>1. later[t] = {} /\ \A u \in timely : later[u] = since[u]
      BY <2>6, <2>7
    <3>2. \A u, v \in timely : since[v] \subseteq since[u] \/ v \notin since[u]
      BY <2>4 DEF Chain
    <3>. QED  BY <2>5, <3>1, <3>2
  <2>14. Chain(weigh, bound, fresh, more, later)'
    BY <2>9, <2>10, <2>11, <2>12, <2>13 DEF Chain
  <2>. QED  BY <2>14 DEF ChainInv
<1>. QED  BY <1>2, <1>3

LEMMA StatChain ==
    ASSUME IInv, Finite, NEW weigh \in [Jobs -> Nat], NEW bound \in Nat, ChainInv(weigh, bound),
           NEW t \in Threads, Stat(t)
    PROVE  ChainInv(weigh, bound)'
<1>. DEFINE listed == Still(thread[t].listed)
<1>1. /\ thread[t].pc = "stat" /\ results' = results /\ thread \in [Threads -> Request]
      /\ thread' = [thread EXCEPT ![t] = [thread[t] EXCEPT !.pc = "evict", !.listed = listed]]
  BY DEF Stat, Move, disk, IInv, Counted
<1>2. Missed(t) = results \ listed
  BY <1>1 DEF Missed, Still
<1>. HIDE DEF listed
<1>3. thread'[t].pc = "evict" /\ thread'[t].listed = listed /\ thread'[t].job = thread[t].job
  BY <1>1 DEF Request
<1>4. \A u \in Threads \ {t} : thread'[u] = thread[u]
  BY <1>1
<1>5. \A u \in Trimming : u \in Trimming' /\ thread'[u].job = thread[u].job
  BY <1>3, <1>4 DEF Trimming
<1>6. ASSUME NEW u \in Listing' PROVE u \in Listing /\ Missed(u)' \subseteq Missed(u)
  <2>1. u \in Listing
    BY <1>1, <1>4 DEF Listing
  <2>2. CASE u = t
    <3>1. Missed(t)' = results' \ listed
      BY <1>3 DEF Missed
    <3>. QED  BY <1>1, <1>2, <2>1, <2>2, <3>1
  <2>3. CASE u # t
    <3>1. thread'[u] = thread[u]
      BY <1>4, <2>1, <2>3 DEF Listing
    <3>. QED  BY <1>1, <2>1, <3>1 DEF Missed
  <2>. QED  BY <2>2, <2>3
<1>. QED  BY <1>1, <1>5, <1>6, ChainShrinks

LEMMA RemoveChain ==
    ASSUME IInv, Finite, NEW weigh \in [Jobs -> Nat], NEW bound \in Nat, ChainInv(weigh, bound),
           NEW t \in Threads, Evict(t), Past(thread[t].listed)
    PROVE  ChainInv(weigh, bound)'
<1>1. PICK victim : /\ results' = results \ Named(victim.sec, victim.job)
                    /\ thread' = [thread EXCEPT ![t] = [thread[t] EXCEPT !.listed = @ \ {victim}]]
  BY DEF Evict, Move
<1>2. thread[t].pc = "evict" /\ thread \in [Threads -> Request]
  BY DEF Evict, IInv, Counted
<1>3. /\ thread'[t].pc = "evict" /\ thread'[t].listed = thread[t].listed \ {victim}
      /\ thread'[t].job = thread[t].job
  BY <1>1, <1>2 DEF Request
<1>4. \A u \in Threads \ {t} : thread'[u] = thread[u]
  BY <1>1, <1>2
<1>5. results' \subseteq results /\ victim \notin results'
  BY <1>1 DEF Named
<1>6. \A u \in Trimming : u \in Trimming' /\ thread'[u].job = thread[u].job
  BY <1>3, <1>4 DEF Trimming
<1>7. ASSUME NEW u \in Listing' PROVE u \in Listing /\ Missed(u)' \subseteq Missed(u)
  <2>1. u \in Listing
    BY <1>2, <1>4 DEF Listing
  <2>2. CASE u = t
    <3>1. Missed(t)' = results' \ (thread[t].listed \ {victim}) /\ Missed(t) = results \ thread[t].listed
      BY <1>2, <1>3 DEF Missed
    <3>. QED  BY <1>5, <2>1, <2>2, <3>1
  <2>3. CASE u # t
    <3>1. thread'[u] = thread[u]
      BY <1>4, <2>1, <2>3 DEF Listing
    <3>. QED  BY <1>5, <2>1, <3>1 DEF Missed
  <2>. QED  BY <2>2, <2>3
<1>. QED  BY <1>5, <1>6, <1>7, ChainShrinks

\* The end of a trim: whoever listed later keeps the directory within the bound of this one.
LEMMA EndTrimChain ==
    ASSUME IInv, Finite, NEW weigh \in [Jobs -> Nat], NEW bound \in Nat, ChainInv(weigh, bound),
           Bounds(weigh, bound), NEW t \in Threads, Evict(t), ~Past(thread[t].listed)
    PROVE  ChainInv(weigh, bound)'
<1>1. /\ thread[t].pc = "evict" /\ results' = results /\ thread \in [Threads -> Request]
      /\ Answer(t, "report", thread[t].job)
  BY DEF Evict, IInv, Counted
<1>2. thread'[t].pc = "done" /\ thread'[t].job = thread[t].job
  BY <1>1 DEF Answer, Move, Request
<1>3. \A u \in Threads \ {t} : thread'[u] = thread[u]
  BY <1>1 DEF Answer, Move
<1>4. PICK fresh \in SUBSET Threads, timely \in SUBSET Threads, since \in [Threads -> SUBSET Threads] :
        Chain(weigh, bound, fresh, timely, since)
  BY DEF ChainInv
<1>5. t \in Listing /\ Listing' = Listing \ {t} /\ Trimming' = Trimming \ {t}
  BY <1>1, <1>2, <1>3 DEF Listing, Trimming
<1>6. \A ts \in SUBSET Threads : Total(ts, AskedSize(weigh))' = Total(ts, AskedSize(weigh))
  BY <1>2, <1>3, AskedSame
<1>7. ASSUME NEW u \in timely \ {t}
      PROVE  (Total(Missed(u), FileSize(weigh)) <= Total(since[u], AskedSize(weigh)))'
  <2>1. u \in Threads /\ thread'[u] = thread[u] /\ since[u] \in SUBSET Threads
    BY <1>3
  <2>2. Total(Missed(u), FileSize(weigh)) <= Total(since[u], AskedSize(weigh))
    BY <1>4 DEF Chain
  <2>3. Missed(u)' = Missed(u)
    BY <1>1, <2>1 DEF Missed
  <2>. QED  BY <1>6, <2>1, <2>2, <2>3
<1>8. CASE t \notin timely
  <2>1. t \notin fresh
    BY <1>4, <1>5, <1>8 DEF Chain
  <2>2. (Total(results, FileSize(weigh)) <= bound + Total(fresh, AskedSize(weigh)))'
    <3>1. Total(results, FileSize(weigh)) <= bound + Total(fresh, AskedSize(weigh))
      BY <1>4 DEF Chain
    <3>. QED  BY <1>1, <1>6, <3>1
  <2>3. /\ (fresh \subseteq Trimming)' /\ (timely \subseteq Listing)'
        /\ (\A u \in Listing \ timely : u \notin fresh)'
    BY <1>4, <1>5, <1>8, <2>1 DEF Chain
  <2>4. \A u \in timely : since[u] \subseteq fresh /\ u \notin since[u]
    BY <1>4 DEF Chain
  <2>5. \A u, v \in timely : since[v] \subseteq since[u] \/ v \notin since[u]
    BY <1>4 DEF Chain
  <2>6. Chain(weigh, bound, fresh, timely, since)'
    BY <1>7, <1>8, <2>2, <2>3, <2>4, <2>5 DEF Chain
  <2>. QED  BY <2>6 DEF ChainInv
<1>9. CASE t \in timely
  <2>1. PICK wrote \in SUBSET Threads : wrote = since[t]
    OBVIOUS
  <2>2. PICK still \in SUBSET Threads : still = {u \in timely \ {t} : since[u] \subseteq since[t]}
    <3>1. {u \in timely \ {t} : since[u] \subseteq since[t]} \in SUBSET Threads
      OBVIOUS
    <3>. QED  BY <3>1
  <2>3. wrote \subseteq fresh /\ t \notin wrote
    BY <1>4, <1>9, <2>1 DEF Chain
  <2>4. (Total(results, FileSize(weigh)) <= bound + Total(wrote, AskedSize(weigh)))'
    <3>. DEFINE listed == thread[t].listed
                seen   == results \cap listed
    <3>1. Missed(t) = results \ listed /\ Missed(t) \subseteq results /\ seen \subseteq results
      BY <1>1 DEF Missed
    <3>2. Total(Missed(t), FileSize(weigh)) <= Total(wrote, AskedSize(weigh))
      BY <1>4, <1>9, <2>1 DEF Chain
    <3>3. Total(wrote, AskedSize(weigh)) \in Nat
      BY FewThreads
    <3>4. /\ IsFiniteSet(results) /\ \A f \in File : FileSize(weigh)[f] \in Nat
          /\ results \subseteq File
      BY SizesTyped
    <3>5. listed \in SUBSET File /\ IsFiniteSet(listed)
      BY <1>1 DEF Request, Finite
    <3>6. Total(listed, FileSize(weigh)) <= bound
      BY <3>5 DEF Bounds
    <3>. HIDE DEF listed
    <3>7. /\ Total(seen, FileSize(weigh)) <= Total(listed, FileSize(weigh))
          /\ Total(seen, FileSize(weigh)) \in Nat /\ IsFiniteSet(seen)
      <4>1. seen \subseteq listed /\ \A f \in listed : FileSize(weigh)[f] \in Nat
        BY <3>4, <3>5
      <4>. HIDE DEF seen
      <4>. QED  BY <3>5, <4>1, TotalOfLess
    <3>8. Total(listed, FileSize(weigh)) \in Nat
      <4>1. \A f \in listed : FileSize(weigh)[f] \in Nat
        BY <3>4, <3>5
      <4>. QED  BY <3>5, <4>1, UnitsFinite
    <3>9. results = seen \cup Missed(t)
      BY <3>1
    <3>. HIDE DEF seen
    <3>10. /\ Total(Missed(t), FileSize(weigh)) \in Nat /\ IsFiniteSet(Missed(t))
           /\ \A f \in seen \cup Missed(t) : FileSize(weigh)[f] \in Nat
      <4>1. \A f \in results : FileSize(weigh)[f] \in Nat
        BY <3>4
      <4>. QED  BY <3>1, <3>4, <3>9, <4>1, TotalOfLess
    <3>11. Total(seen \cup Missed(t), FileSize(weigh))
             <= Total(seen, FileSize(weigh)) + Total(Missed(t), FileSize(weigh))
      BY <3>7, <3>10, TotalOfBoth
    <3>12. Total(results, FileSize(weigh)) \in Nat
      <4>1. \A f \in results : FileSize(weigh)[f] \in Nat
        BY <3>4
      <4>. QED  BY <3>4, <4>1, UnitsFinite
    <3>13. Total(results, FileSize(weigh)) <= bound + Total(wrote, AskedSize(weigh))
      BY <3>2, <3>3, <3>6, <3>7, <3>8, <3>9, <3>10, <3>11, <3>12
    <3>. QED  BY <1>1, <1>6, <3>13
  <2>5. /\ (wrote \subseteq Trimming)' /\ (still \subseteq Listing)'
        /\ (\A u \in Listing \ still : u \notin wrote)'
    <3>1. wrote \subseteq Trimming' /\ still \subseteq Listing'
      BY <1>4, <1>5, <2>2, <2>3 DEF Chain
    <3>2. ASSUME NEW u \in Listing' \ still PROVE u \notin wrote
      <4>1. u \in Listing /\ u # t
        BY <1>5, <3>2
      <4>2. CASE u \notin timely
        BY <1>4, <2>3, <4>1, <4>2 DEF Chain
      <4>3. CASE u \in timely
        <5>1. ~(since[u] \subseteq since[t])
          BY <2>2, <3>2, <4>1, <4>3
        <5>. QED  BY <1>4, <1>9, <2>1, <4>3, <5>1 DEF Chain
      <4>. QED  BY <4>2, <4>3
    <3>. QED  BY <3>1, <3>2
  <2>6. \A u \in still : since[u] \subseteq wrote /\ u \notin since[u]
    BY <1>4, <2>1, <2>2 DEF Chain
  <2>7. \A u, v \in still : since[v] \subseteq since[u] \/ v \notin since[u]
    BY <1>4, <2>2 DEF Chain
  <2>8. \A u \in still : (Total(Missed(u), FileSize(weigh)) <= Total(since[u], AskedSize(weigh)))'
    BY <1>7, <2>2
  <2>9. Chain(weigh, bound, wrote, still, since)'
    BY <2>4, <2>5, <2>6, <2>7, <2>8 DEF Chain
  <2>. QED  BY <2>9 DEF ChainInv
<1>. QED  BY <1>8, <1>9

\* One request moves; its list and the directory stay finite.
LEMMA FiniteMoves ==
    ASSUME Finite, NEW t \in Threads, IsFiniteSet(results'),
           \A u \in Threads \ {t} : thread'[u] = thread[u],
           IsFiniteSet(thread'[t].listed), thread'[t].pc = "lost" => thread'[t].job \in Jobs
    PROVE  Finite'
  BY DEF Finite

LEMMA AloofFinite ==
    ASSUME Finite, NEW t \in Threads, Aloof(t)
    PROVE  Finite'
<1>1. IsFiniteSet({}) /\ IsFiniteSet(results')
  BY FS_EmptySet, FS_Subset DEF Finite, Aloof
<1>. QED  BY <1>1 DEF Finite, Aloof

LEMMA ReplaceFinite ==
    ASSUME IInv, Finite, NEW t \in Threads, Replace(t)
    PROVE  Finite'
<1>1. thread[t] \in Request /\ thread[t].pc = "replace" /\ Apart(thread[t].pc)
  BY UnderWay DEF Replace, Apart
<1>2. CASE ~(cache = "full" /\ t \in parts)
  <2>1. Answer(t, "error", None) /\ results' = results
    BY <1>2 DEF Replace
  <2>2. Aloof(t)
    BY <1>1, <2>1, AnswerAloof
  <2>. QED  BY <2>2, AloofFinite
<1>3. CASE cache = "full" /\ t \in parts
  <2>1. PICK file : results' = Put(file)
    BY <1>3 DEF Replace
  <2>2. thread \in [Threads -> Request] /\ thread' = [thread EXCEPT ![t] = [thread[t] EXCEPT !.pc = "list"]]
    BY <1>3 DEF IInv, Counted, Replace, Go, Move
  <2>3. thread'[t].pc = "list" /\ thread'[t].listed = thread[t].listed
    BY <2>2 DEF Request
  <2>4. \A u \in Threads \ {t} : thread'[u] = thread[u]
    BY <2>2
  <2>5. results' \subseteq results \cup {file}
    BY <2>1 DEF Put
  <2>6. IsFiniteSet(results \cup {file})
    BY FS_AddElement DEF Finite
  <2>7. IsFiniteSet(results')
    BY <2>5, <2>6, FS_Subset
  <2>. QED  BY <2>3, <2>4, <2>7, FiniteMoves DEF Finite
<1>. QED  BY <1>2, <1>3

LEMMA TrimFinite ==
    ASSUME IInv, Finite, NEW t \in Threads, List(t) \/ Stat(t) \/ Evict(t)
    PROVE  Finite'
<1>1. /\ results' \subseteq results /\ thread \in [Threads -> Request]
      /\ IsFiniteSet(results) /\ IsFiniteSet(thread[t].listed)
  BY DEF List, Stat, Evict, disk, IInv, Counted, Finite
<1>2. IsFiniteSet(results')
  BY <1>1, FS_Subset
<1>3. ASSUME NEW answer, NEW j, Answer(t, answer, j)
      PROVE  Finite'
  <2>1. thread'[t].pc = "done" /\ thread'[t].listed = thread[t].listed
    BY <1>1, <1>3 DEF Answer, Move, Request
  <2>2. \A u \in Threads \ {t} : thread'[u] = thread[u]
    BY <1>1, <1>3 DEF Answer, Move
  <2>. QED  BY <1>1, <1>2, <2>1, <2>2, FiniteMoves
<1>4. ASSUME NEW listed, IsFiniteSet(listed), NEW pc \in {"stat", "evict"},
             \/ Move(t, [thread[t] EXCEPT !.pc = pc, !.listed = listed])
             \/ thread[t].pc = pc /\ Move(t, [thread[t] EXCEPT !.listed = listed])
      PROVE  Finite'
  <2>1. thread'[t].pc = pc /\ thread'[t].listed = listed
    BY <1>1, <1>4 DEF Move, Request
  <2>2. \A u \in Threads \ {t} : thread'[u] = thread[u]
    BY <1>1, <1>4 DEF Move
  <2>. QED  BY <1>2, <1>4, <2>1, <2>2, FiniteMoves
<1>5. CASE List(t)
  <2>1. Answer(t, "report", thread[t].job) \/ Move(t, [thread[t] EXCEPT !.pc = "stat", !.listed = results])
    BY <1>5 DEF List
  <2>. QED  BY <1>1, <1>3, <1>4, <2>1
<1>6. CASE Stat(t)
  <2>1. PICK listed \in SUBSET results : Move(t, [thread[t] EXCEPT !.pc = "evict", !.listed = listed])
    <3>1. Still(thread[t].listed) \in SUBSET results
      BY DEF Still
    <3>. QED  BY <1>6, <3>1 DEF Stat
  <2>2. IsFiniteSet(listed)
    BY <1>1, FS_Subset
  <2>. QED  BY <1>4, <2>1, <2>2
<1>7. CASE Evict(t)
  <2>1. \/ Answer(t, "report", thread[t].job)
        \/ \E victim : Move(t, [thread[t] EXCEPT !.listed = thread[t].listed \ {victim}])
    BY <1>7 DEF Evict
  <2>2. ASSUME NEW victim, Move(t, [thread[t] EXCEPT !.listed = thread[t].listed \ {victim}])
        PROVE  Finite'
    <3>1. IsFiniteSet(thread[t].listed \ {victim})
      BY <1>1, FS_RemoveElement
    <3>2. thread[t].pc = "evict"
      BY <1>7 DEF Evict
    <3>. QED  BY <1>4, <2>2, <3>1, <3>2
  <2>. QED  BY <1>3, <2>1, <2>2
<1>. QED  BY <1>5, <1>6, <1>7

LEMMA KillFinite ==
    ASSUME IInv, Finite, NEW t \in Threads, Kill(t)
    PROVE  Finite'
<1>. DEFINE pc == IF thread[t].pc \in {"list", "stat", "evict"} THEN "lost" ELSE "dead"
            q  == [thread[t] EXCEPT !.pc = pc]
<1>1. results' = results /\ Move(t, q) /\ thread[t].pc # "lost"
  BY DEF Kill, disk, Go
<1>2. thread \in [Threads -> Request] /\ (thread[t].pc \in {"list", "stat", "evict"} => thread[t].job \in Jobs)
  BY UnderWay DEF IInv, Counted, Working
<1>3. pc = IF thread[t].pc \in {"list", "stat", "evict"} THEN "lost" ELSE "dead"
  OBVIOUS
<1>. HIDE DEF pc
<1>4. q.pc = pc /\ q.job = thread[t].job /\ q.listed = thread[t].listed
  BY <1>2 DEF Request
<1>. HIDE DEF q
<1>5. thread'[t] = q /\ \A u \in Threads \ {t} : thread'[u] = thread[u]
  BY <1>1, <1>2 DEF Move
<1>. QED  BY <1>1, <1>2, <1>3, <1>4, <1>5, FiniteMoves DEF Finite

\* Every step but those of a trim is aloof, a rename, a kill, or changes neither the directory
\* nor a request.
LEMMA Steps ==
    ASSUME IInv, [Next]_vars
    PROVE  \/ UNCHANGED <<results, thread>>
           \/ \E t \in Threads :
                 \/ Aloof(t) \/ Replace(t) \/ Kill(t)
                 \/ List(t) \/ Stat(t) \/ Evict(t)
<1>1. CASE UNCHANGED vars \/ Tick \/ Quiet \/ \E j \in Jobs : Finish(j)
  BY <1>1 DEF vars, Tick, Quiet, Finish, disk
<1>2. CASE \E t \in Threads : \E kind \in {"page", "download"}, j \in Jobs : Begin(t, kind, j)
  BY <1>2, BeginAloof
<1>3. ASSUME NEW t \in Threads, Respawn(t) \/ Step(t) \/ Kill(t)
      PROVE  Aloof(t) \/ Replace(t) \/ Kill(t) \/ List(t) \/ Stat(t) \/ Evict(t)
  BY <1>3, LookupAloof, OtherAloof DEF Step
<1>. QED  BY <1>1, <1>2, <1>3 DEF Next

LEMMA NextFinite == ASSUME IInv, Finite, [Next]_vars PROVE Finite'
<1>1. CASE UNCHANGED <<results, thread>>
  BY <1>1 DEF Finite
<1>. QED  BY <1>1, Steps, AloofFinite, ReplaceFinite, KillFinite, TrimFinite

LEMMA NextChain ==
    ASSUME IInv, Finite, NEW weigh \in [Jobs -> Nat], NEW bound \in Nat, ChainInv(weigh, bound),
           Bounds(weigh, bound), [Next]_vars
    PROVE  ChainInv(weigh, bound)'
<1>1. CASE UNCHANGED <<results, thread>>
  <2>1. \A t \in Trimming : t \in Trimming' /\ thread'[t].job = thread[t].job
    BY <1>1 DEF Trimming
  <2>2. \A t \in Listing' : t \in Listing /\ Missed(t)' \subseteq Missed(t)
    BY <1>1 DEF Listing, Missed
  <2>. QED  BY <1>1, <2>1, <2>2, ChainShrinks
<1>2. ASSUME NEW t \in Threads, Evict(t)
      PROVE  ChainInv(weigh, bound)'
  BY <1>2, RemoveChain, EndTrimChain
<1>. QED  BY <1>1, <1>2, Steps, AloofChain, ReplaceChain, KillChain, ListChain, StatChain

Ones == [j \in Jobs |-> 1]

\* Both bounds hold a chain.
Chained ==
    /\ Finite
    /\ MaxFiles # None => ChainInv(Ones, MaxFiles)
    /\ MaxBytes # None => ChainInv(Size, MaxBytes)

LEMMA FilesBound == MaxFiles # None => Bounds(Ones, MaxFiles)
<1>. SUFFICES ASSUME MaxFiles # None, NEW files \in SUBSET File, IsFiniteSet(files), ~Past(files)
              PROVE  Total(files, FileSize(Ones)) <= MaxFiles
  BY DEF Bounds
<1>1. \A f \in files : FileSize(Ones)[f] = 1
  BY DEF FileSize, Ones, File
<1>2. Total(files, FileSize(Ones)) = Cardinality(files)
  BY <1>1, TotalOfOnes
<1>3. Cardinality(files) \in Nat /\ MaxFiles \in Nat /\ ~(Cardinality(files) > MaxFiles)
  BY FS_CardinalityType, MaxAssumption DEF Past
<1>. QED  BY <1>2, <1>3

LEMMA BytesOf ==
    ASSUME NEW files, files \subseteq File
    PROVE  Bytes(files) = Total(files, FileSize(Size))
<1>. DEFINE bytes == [f \in files |-> Size[f.job]]
<1>1. \A f \in files : bytes[f] = FileSize(Size)[f]
  BY DEF FileSize
<1>. HIDE DEF bytes
<1>2. Total(files, bytes) = Total(files, FileSize(Size))
  BY <1>1, TotalSame
<1>. QED  BY <1>2 DEF Bytes, bytes

LEMMA BytesBound == MaxBytes # None => Bounds(Size, MaxBytes)
<1>. SUFFICES ASSUME MaxBytes # None, NEW files \in SUBSET File, IsFiniteSet(files), ~Past(files)
              PROVE  Total(files, FileSize(Size)) <= MaxBytes
  BY DEF Bounds
<1>1. Bytes(files) = Total(files, FileSize(Size))
  BY BytesOf
<1>2. \A f \in files : FileSize(Size)[f] \in Nat
  BY SizeAssumption DEF FileSize, File
<1>3. Total(files, FileSize(Size)) \in Nat
  BY <1>2, UnitsFinite
<1>4. MaxBytes \in Nat /\ ~(Bytes(files) > MaxBytes)
  BY MaxAssumption DEF Past
<1>. QED  BY <1>1, <1>3, <1>4

LEMMA InitChained == Init => Chained
<1>. SUFFICES ASSUME Init PROVE Chained
  OBVIOUS
<1>1. results = {} /\ \A t \in Threads : thread[t].pc = "idle" /\ thread[t].listed = {}
  BY DEF Init, Nothing
<1>2. Finite
  BY <1>1, FS_EmptySet DEF Finite
<1>3. ASSUME NEW weigh \in [Jobs -> Nat], NEW bound \in Nat
      PROVE  ChainInv(weigh, bound)
  <2>1. PICK none \in SUBSET Threads : none = {}
    OBVIOUS
  <2>2. PICK since \in [Threads -> SUBSET Threads] : TRUE
    <3>1. [t \in Threads |-> {}] \in [Threads -> SUBSET Threads]
      OBVIOUS
    <3>. QED  BY <3>1
  <2>3. Total({}, FileSize(weigh)) = 0 /\ Total({}, AskedSize(weigh)) = 0
    BY TotalOfNone
  <2>4. Total(results, FileSize(weigh)) <= bound + Total(none, AskedSize(weigh))
    BY <1>1, <2>1, <2>3
  <2>5. Chain(weigh, bound, none, none, since)
    BY <2>1, <2>4 DEF Chain
  <2>. QED  BY <2>5 DEF ChainInv
<1>4. Ones \in [Jobs -> Nat] /\ Size \in [Jobs -> Nat]
  BY SizeAssumption DEF Ones
<1>. QED  BY <1>2, <1>3, <1>4, MaxAssumption DEF Chained

\* However many trims run at once, each lists later than some, misses no more than what was
\* written since, and leaves the directory within the bound of whoever listed last.
THEOREM TrimsInvariant == Spec => []Chained
<1>1. ASSUME IInv, Chained, [Next]_vars PROVE Chained'
  <2>1. Finite'
    BY <1>1, NextFinite DEF Chained
  <2>2. Ones \in [Jobs -> Nat] /\ Size \in [Jobs -> Nat]
    BY SizeAssumption DEF Ones
  <2>3. MaxFiles # None => ChainInv(Ones, MaxFiles)'
    BY <1>1, <2>2, NextChain, FilesBound, MaxAssumption DEF Chained
  <2>4. MaxBytes # None => ChainInv(Size, MaxBytes)'
    BY <1>1, <2>2, NextChain, BytesBound, MaxAssumption DEF Chained
  <2>. QED  BY <2>1, <2>3, <2>4 DEF Chained
<1>2. IInv /\ Chained /\ [Next]_vars => Chained'
  BY <1>1
<1>. QED  BY <1>2, InitChained, CacheInvariant, PTL DEF Spec

\* The directory is past its bounds by at most the reports of the requests that have not
\* finished trimming, however the trims of threads and processes overlap and whoever is killed
\* in one (trim_result_cache).
THEOREM TrimsKeepBounds == Spec => []BoundedByTrims
<1>1. ASSUME IInv, Chained PROVE BoundedByTrims
  <2>1. ASSUME NEW weigh \in [Jobs -> Nat], NEW bound \in Nat, ChainInv(weigh, bound)
        PROVE  /\ Total(results, FileSize(weigh)) <= bound + Total(Trimming, AskedSize(weigh))
               /\ Total(results, FileSize(weigh)) \in Nat /\ Total(Trimming, AskedSize(weigh)) \in Nat
    <3>1. PICK fresh \in SUBSET Threads :
            /\ fresh \subseteq Trimming
            /\ Total(results, FileSize(weigh)) <= bound + Total(fresh, AskedSize(weigh))
      BY <2>1 DEF ChainInv, Chain
    <3>2. Finite
      BY <1>1 DEF Chained
    <3>3. \A t \in Threads : AskedSize(weigh)[t] \in Nat
      BY <1>1, <3>2, SizesTyped
    <3>4. Trimming \subseteq Threads /\ \A t \in Trimming : AskedSize(weigh)[t] \in Nat
      BY <3>3 DEF Trimming
    <3>5. IsFiniteSet(Trimming) /\ Total(Trimming, AskedSize(weigh)) \in Nat
      BY <1>1, <3>2, <3>4, FewThreads
    <3>6. Total(fresh, AskedSize(weigh)) <= Total(Trimming, AskedSize(weigh)) /\ Total(fresh, AskedSize(weigh)) \in Nat
      BY <3>1, <3>4, <3>5, TotalOfLess
    <3>7. Total(results, FileSize(weigh)) \in Nat
      BY <1>1, <3>2, FewerFiles
    <3>. QED  BY <3>1, <3>5, <3>6, <3>7
  <2>2. \A t \in Trimming : t \in Threads /\ thread[t].job \in Jobs
    BY <1>1, UnderWay DEF Trimming, Working, Chained, Finite
  <2>3. IsFiniteSet(results) /\ results \subseteq File /\ IsFiniteSet(Trimming)
    <3>1. Trimming \subseteq Threads
      BY DEF Trimming
    <3>. QED  BY <1>1, <3>1, ThreadsAssumption, FS_Subset DEF Chained, Finite, IInv, Filed
  <2>4. ASSUME MaxFiles # None
        PROVE  Cardinality(results) <= MaxFiles + Cardinality(Trimming)
    <3>1. (\A f \in results : FileSize(Ones)[f] = 1) /\ \A t \in Trimming : AskedSize(Ones)[t] = 1
      BY <2>2, <2>3 DEF FileSize, AskedSize, Ones, File
    <3>2. /\ Total(results, FileSize(Ones)) = Cardinality(results)
          /\ Total(Trimming, AskedSize(Ones)) = Cardinality(Trimming)
      BY <2>3, <3>1, TotalOfOnes
    <3>3. Ones \in [Jobs -> Nat] /\ MaxFiles \in Nat /\ ChainInv(Ones, MaxFiles)
      BY <1>1, <2>4, MaxAssumption DEF Ones, Chained
    <3>. QED  BY <2>1, <3>2, <3>3
  <2>5. ASSUME MaxBytes # None
        PROVE  Bytes(results) <= MaxBytes + Total(Trimming, [t \in Trimming |-> Size[thread[t].job]])
    <3>. DEFINE asked == [t \in Trimming |-> Size[thread[t].job]]
    <3>1. \A t \in Trimming : asked[t] = AskedSize(Size)[t]
      BY <2>2 DEF AskedSize
    <3>. HIDE DEF asked
    <3>2. Total(Trimming, asked) = Total(Trimming, AskedSize(Size))
      BY <3>1, TotalSame
    <3>3. Bytes(results) = Total(results, FileSize(Size))
      BY <2>3, BytesOf
    <3>4. MaxBytes \in Nat /\ ChainInv(Size, MaxBytes)
      BY <1>1, <2>5, MaxAssumption DEF Chained
    <3>5. Bytes(results) <= MaxBytes + Total(Trimming, asked)
      BY <2>1, <3>2, <3>3, <3>4, SizeAssumption
    <3>. QED  BY <3>5 DEF asked
  <2>. QED  BY <2>4, <2>5 DEF BoundedByTrims
<1>2. IInv /\ Chained => BoundedByTrims
  BY <1>1
<1>. QED  BY <1>2, CacheInvariant, TrimsInvariant, PTL
================================================================================
