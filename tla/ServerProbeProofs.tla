--------------------------- MODULE ServerProbeProofs ---------------------------
(***************************************************************************)
(* Theorems about ServerProbe, for any workers, threads, settings and TTL. *)
(*                                                                         *)
(* That pages do not go back in time is a property of what they show; it   *)
(* is inductive only with what is behind it: the entry of a worker is no   *)
(* older than anything the worker showed in this generation, so a page     *)
(* that took the entry may show it, and a page that probes starts later    *)
(* than everything.  PageOK says this for a page at every point of its     *)
(* way, against the generation, the entry and the clock of its worker.     *)
(***************************************************************************)
EXTENDS ServerProbe, TLAPS

\* The entry c of a worker in generation g that has shown nothing newer than s, at time now.
CacheOK(c, g, s, now) ==
    /\ s <= now
    /\ c # None => c.generation = g /\ c.started <= now
    /\ Ttl > 0 /\ c = None => s = 0
    /\ Ttl > 0 /\ c # None => s <= c.started

\* The entry c is at least as recent as a probe that started at i.
AsRecent(c, i) == c # None /\ i <= c.started

\* A page between Check and End.
Probing(p) == p.pc \in {"ask", "receive", "remember", "done"}

\* A page at p, in a worker with entry c, generation g and seen s, at time now.
PageOK(p, c, g, s, now) ==
    /\ p.generation <= g /\ p.floor_generation <= g /\ p.floor <= now
    /\ p.floor_generation = g => p.floor <= s
    /\ p.pc = "check" /\ p.cached # None =>
          /\ p.cached.generation = p.generation
          /\ p.cached.started <= now
          /\ Ttl > 0 /\ p.generation = p.floor_generation => p.floor <= p.cached.started
          /\ Ttl > 0 /\ p.generation = g => AsRecent(c, p.cached.started)
    /\ Probing(p) =>
          /\ p.probe.url = p.url
          /\ p.probe.generation = p.generation
          /\ p.probe.started <= now
          /\ p.generation = p.floor_generation => p.floor <= p.probe.started
    /\ p.pc \in {"receive", "remember"} => p.probe.answer # "none"
    /\ p.pc = "remember" => p.probe.answered = p.at
    /\ p.pc = "done" =>
          /\ p.probe.answered = p.at \/ p.at - p.probe.answered < Ttl
          /\ Ttl > 0 /\ p.generation = g => AsRecent(c, p.probe.started)

\* The inductive invariant.
IInv ==
    /\ TypeOK
    /\ \A w \in Workers : CacheOK(probe_cache[w], probe_generation[w], seen[w], clock)
    /\ \A t \in Threads :
          LET w == WorkerOf[t]
          IN  PageOK(page[t], probe_cache[w], probe_generation[w], seen[w], clock)

--------------------------------------------------------------------------------
(* Facts about pages and entries.                                             *)

LEMMA NoPageTyped == NoAnswer \in Probe /\ NoPage \in Page
  <1>1. NoAnswer \in Probe
    BY SettingsAssumption DEF NoAnswer, Probe, Settings
  <1>2. NoPage \in Page
    BY <1>1, SettingsAssumption, ZenonT(60) DEF NoPage, Page, Settings
  <1> QED
    BY <1>1, <1>2

\* A page that does nothing relies on nothing.
LEMMA IdleOK ==
    ASSUME NEW c, NEW g \in Nat, NEW s \in Nat, NEW now \in Nat
    PROVE  PageOK(NoPage, c, g, s, now)
  BY DEF PageOK, NoPage, Probing

\* Time passing, an entry as recent and more pages shown disturb no page.
LEMMA Onwards ==
    ASSUME NEW p \in Page, NEW c \in Probe \cup {None}, NEW d \in Probe \cup {None},
           NEW g \in Nat, NEW s \in Nat, NEW z \in Nat, NEW now \in Nat, NEW later \in Nat,
           PageOK(p, c, g, s, now), s <= z, now <= later,
           Ttl > 0 /\ c # None => AsRecent(d, c.started)
    PROVE  PageOK(p, d, g, z, later)
  <1>1. p.probe \in Probe /\ p.cached \in Probe \cup {None} /\ p.floor \in Nat
    BY DEF Page
  <1>2. ASSUME NEW i \in Nat, Ttl > 0, AsRecent(c, i)
        PROVE  AsRecent(d, i)
    BY <1>2 DEF AsRecent, Probe
  <1>3. p.probe.started \in Nat /\ (p.cached # None => p.cached.started \in Nat)
    BY <1>1 DEF Probe
  <1> QED
    BY <1>1, <1>2, <1>3 DEF PageOK

\* Nor does a forget.
LEMMA Forgotten ==
    ASSUME NEW p \in Page, NEW c, NEW g \in Nat, NEW s \in Nat, NEW now \in Nat,
           PageOK(p, c, g, s, now)
    PROVE  PageOK(p, None, g + 1, 0, now)
  <1>1. p.generation \in Nat /\ p.floor_generation \in Nat
    BY DEF Page
  <1> QED
    BY <1>1 DEF PageOK

\* When one page moves and its worker's entry stays, the others are undisturbed.
LEMMA OneMoves ==
    ASSUME TypeOK, NEW t \in Threads, NEW q \in Page,
           \A r \in Threads : PageOK(page[r], probe_cache[WorkerOf[r]],
                 probe_generation[WorkerOf[r]], seen[WorkerOf[r]], clock),
           page' = [page EXCEPT ![t] = q],
           UNCHANGED <<probe_cache, probe_generation, seen, clock>>,
           PageOK(q, probe_cache[WorkerOf[t]], probe_generation[WorkerOf[t]],
                  seen[WorkerOf[t]], clock)
    PROVE  /\ page' \in [Threads -> Page]
           /\ \A r \in Threads : PageOK(page'[r], probe_cache'[WorkerOf[r]],
                 probe_generation'[WorkerOf[r]], seen'[WorkerOf[r]], clock')
  BY DEF TypeOK

--------------------------------------------------------------------------------
(* Every step keeps IInv.                                                     *)

LEMMA InitHolds == Init => IInv
  <1> SUFFICES ASSUME Init PROVE IInv
    OBVIOUS
  <1>1. TypeOK
    BY NoPageTyped, SettingsAssumption DEF Init, TypeOK
  <1>2. ASSUME NEW w \in Workers
        PROVE  CacheOK(probe_cache[w], probe_generation[w], seen[w], clock)
    <2>1. probe_cache[w] = None /\ probe_generation[w] = 0 /\ seen[w] = 0 /\ clock = 0
      BY DEF Init
    <2> QED
      BY <2>1 DEF CacheOK
  <1>3. \A t \in Threads : PageOK(page[t], probe_cache[WorkerOf[t]],
              probe_generation[WorkerOf[t]], seen[WorkerOf[t]], clock)
    BY <1>1, IdleOK, ThreadsAssumption DEF Init, TypeOK
  <1> QED
    BY <1>1, <1>2, <1>3 DEF IInv

LEMMA TickKeeps ==
    ASSUME IInv, Tick
    PROVE  IInv'
  <1> USE DEF IInv
  <1>1. TypeOK'
    BY DEF Tick, TypeOK
  <1>2. \A w \in Workers : CacheOK(probe_cache[w], probe_generation[w], seen[w], clock)'
    BY DEF Tick, CacheOK, TypeOK, Probe
  <1>3. ASSUME NEW t \in Threads
        PROVE  PageOK(page'[t], probe_cache'[WorkerOf[t]],
                      probe_generation'[WorkerOf[t]], seen'[WorkerOf[t]], clock')
    <2> DEFINE w == WorkerOf[t]
    <2>1. /\ w \in Workers /\ page[t] \in Page /\ probe_cache[w] \in Probe \cup {None}
          /\ probe_generation[w] \in Nat /\ seen[w] \in Nat
          /\ clock \in Nat /\ clock' \in Nat /\ clock <= clock' /\ seen[w] <= seen[w]
      BY ThreadsAssumption DEF TypeOK, Tick
    <2>2. Ttl > 0 /\ probe_cache[w] # None => AsRecent(probe_cache[w], probe_cache[w].started)
      BY <2>1 DEF AsRecent, Probe
    <2>3. PageOK(page[t], probe_cache[w], probe_generation[w], seen[w], clock)
      OBVIOUS
    <2> HIDE DEF w
    <2>4. PageOK(page[t], probe_cache[w], probe_generation[w], seen[w], clock')
      BY <2>1, <2>2, <2>3, Onwards, Zenon
    <2>5. /\ page' = page /\ probe_cache' = probe_cache
          /\ probe_generation' = probe_generation /\ seen' = seen
      BY DEF Tick
    <2> QED
      BY <2>4, <2>5 DEF w
  <1> QED
    BY <1>1, <1>2, <1>3

LEMMA ArriveKeeps ==
    ASSUME IInv, NEW t \in Threads, NEW pc \in {"lookup", "save", "forget"}, Arrive(t, pc)
    PROVE  IInv'
  <1> DEFINE w == WorkerOf[t]
             q == [NoPage EXCEPT !.pc = pc, !.url = server.url, !.token = server.token,
                                 !.version = saves, !.floor = seen[w],
                                 !.floor_generation = probe_generation[w], !.told = told[w]]
  <1>1. /\ TypeOK /\ w \in Workers /\ NoPage \in Page
        /\ seen[w] \in Nat /\ probe_generation[w] \in Nat /\ told[w] \in Nat /\ saves \in Nat
        /\ server.url \in Urls /\ server.token \in Tokens /\ clock \in Nat
    BY ThreadsAssumption, NoPageTyped DEF IInv, TypeOK, Settings
  <1>2. pc \in {"idle", "save", "forget", "lookup", "check", "ask", "receive", "remember", "done"}
    OBVIOUS
  <1>3. q \in Page
    BY <1>1, <1>2, ZenonT(60) DEF Page
  <1>4. /\ q.pc = pc /\ q.generation = 0 /\ q.floor = seen[w]
        /\ q.floor_generation = probe_generation[w]
    BY DEF NoPage
  <1>5. seen[w] <= clock
    BY <1>1 DEF IInv, CacheOK
  <1> HIDE DEF q
  <1>6. PageOK(q, probe_cache[w], probe_generation[w], seen[w], clock)
    BY <1>1, <1>4, <1>5 DEF PageOK, Probing
  <1>7. page' = [page EXCEPT ![t] = q]
    BY DEF Arrive, q
  <1>8. /\ page' \in [Threads -> Page]
        /\ \A r \in Threads : PageOK(page'[r], probe_cache'[WorkerOf[r]],
              probe_generation'[WorkerOf[r]], seen'[WorkerOf[r]], clock')
    BY <1>1, <1>3, <1>6, <1>7, OneMoves DEF Arrive, IInv
  <1>9. TypeOK'
    BY <1>1, <1>8 DEF Arrive, TypeOK
  <1> QED
    BY <1>8, <1>9 DEF IInv, Arrive

LEMMA SaveKeeps ==
    ASSUME IInv, NEW t \in Threads, NEW s \in Settings, Save(t, s)
    PROVE  IInv'
  <1> DEFINE w == WorkerOf[t]
             q == IF s = [url |-> page[t].url, token |-> page[t].token]
                  THEN NoPage ELSE [page[t] EXCEPT !.pc = "forget"]
  <1>1. /\ TypeOK /\ w \in Workers /\ page[t] \in Page
        /\ seen[w] \in Nat /\ probe_generation[w] \in Nat /\ clock \in Nat
        /\ PageOK(page[t], probe_cache[w], probe_generation[w], seen[w], clock)
    BY ThreadsAssumption DEF IInv, TypeOK
  <1>2. q \in Page
    <2>1. [page[t] EXCEPT !.pc = "forget"] \in Page
      BY <1>1 DEF Page
    <2> QED
      BY <2>1, NoPageTyped
  <1>3. PageOK(q, probe_cache[w], probe_generation[w], seen[w], clock)
    <2>1. PageOK([page[t] EXCEPT !.pc = "forget"],
                 probe_cache[w], probe_generation[w], seen[w], clock)
      BY <1>1 DEF PageOK, Probing, Page
    <2>2. PageOK(NoPage, probe_cache[w], probe_generation[w], seen[w], clock)
      BY <1>1, IdleOK
    <2> QED
      BY <2>1, <2>2
  <1>4. page' = [page EXCEPT ![t] = q]
    BY DEF Save
  <1> HIDE DEF q
  <1>5. /\ page' \in [Threads -> Page]
        /\ \A r \in Threads : PageOK(page'[r], probe_cache'[WorkerOf[r]],
              probe_generation'[WorkerOf[r]], seen'[WorkerOf[r]], clock')
    BY <1>1, <1>2, <1>3, <1>4, OneMoves DEF Save, IInv
  <1>6. server' \in Settings /\ saves' \in Nat
    BY <1>1 DEF Save, TypeOK
  <1>7. TypeOK'
    BY <1>1, <1>5, <1>6 DEF Save, TypeOK
  <1> QED
    BY <1>5, <1>7 DEF IInv, Save

LEMMA ForgetKeeps ==
    ASSUME IInv, NEW t \in Threads, Forget(t)
    PROVE  IInv'
  <1> DEFINE w == WorkerOf[t]
  <1>1. /\ TypeOK /\ w \in Workers /\ probe_generation[w] \in Nat /\ clock \in Nat
    BY ThreadsAssumption DEF IInv, TypeOK
  <1>2. TypeOK'
    BY <1>1, NoPageTyped DEF Forget, TypeOK
  <1>3. ASSUME NEW v \in Workers
        PROVE  CacheOK(probe_cache'[v], probe_generation'[v], seen'[v], clock')
    <2>1. CASE v = w
      <3>1. probe_cache'[v] = None /\ seen'[v] = 0 /\ clock' = clock
        BY <1>1, <2>1 DEF Forget, TypeOK
      <3> QED
        BY <1>1, <3>1 DEF CacheOK
    <2>2. CASE v # w
      BY <1>1, <2>2 DEF Forget, TypeOK, IInv
    <2> QED
      BY <2>1, <2>2
  <1>4. ASSUME NEW r \in Threads
        PROVE  PageOK(page'[r], probe_cache'[WorkerOf[r]],
                      probe_generation'[WorkerOf[r]], seen'[WorkerOf[r]], clock')
    <2> DEFINE v == WorkerOf[r]
    <2>1. /\ v \in Workers /\ page[r] \in Page
          /\ probe_generation[v] \in Nat /\ seen[v] \in Nat
          /\ probe_generation'[v] \in Nat /\ seen'[v] \in Nat /\ clock' = clock
          /\ PageOK(page[r], probe_cache[v], probe_generation[v], seen[v], clock)
      BY <1>1, <1>2, ThreadsAssumption DEF IInv, TypeOK, Forget
    <2>2. CASE r = t
      <3>1. page'[r] = NoPage
        BY <1>1, <2>2 DEF Forget, TypeOK
      <3> QED
        BY <1>1, <2>1, <3>1, IdleOK
    <2>3. CASE r # t /\ v = w
      <3>1. /\ page'[r] = page[r] /\ probe_cache'[v] = None
            /\ probe_generation'[v] = probe_generation[v] + 1 /\ seen'[v] = 0
        BY <1>1, <2>1, <2>3 DEF Forget, TypeOK
      <3> HIDE DEF v
      <3>2. PageOK(page[r], None, probe_generation[v] + 1, 0, clock)
        BY <1>1, <2>1, Forgotten
      <3> QED
        BY <2>1, <3>1, <3>2 DEF v
    <2>4. CASE r # t /\ v # w
      <3>1. /\ page'[r] = page[r] /\ probe_cache'[v] = probe_cache[v]
            /\ probe_generation'[v] = probe_generation[v] /\ seen'[v] = seen[v]
        BY <1>1, <2>1, <2>4 DEF Forget, TypeOK
      <3> QED
        BY <2>1, <3>1
    <2> QED
      BY <2>2, <2>3, <2>4
  <1> QED
    BY <1>2, <1>3, <1>4 DEF IInv

\* Lookup, Check, Ask, Receive and Fault move one page and nothing else.
Alone(t, q) ==
    /\ page' = [page EXCEPT ![t] = q]
    /\ UNCHANGED <<server, saves, clock, probe_cache, probe_generation, pages, seen, told>>

LEMMA AloneKeeps ==
    ASSUME IInv, NEW t \in Threads, NEW q \in Page, Alone(t, q),
           PageOK(q, probe_cache[WorkerOf[t]], probe_generation[WorkerOf[t]],
                  seen[WorkerOf[t]], clock)
    PROVE  IInv'
  <1>1. TypeOK /\ page' = [page EXCEPT ![t] = q]
    BY DEF IInv, Alone
  <1>2. /\ page' \in [Threads -> Page]
        /\ \A r \in Threads : PageOK(page'[r], probe_cache'[WorkerOf[r]],
              probe_generation'[WorkerOf[r]], seen'[WorkerOf[r]], clock')
    BY <1>1, OneMoves DEF Alone, IInv
  <1>3. TypeOK'
    BY <1>1, <1>2 DEF Alone, TypeOK
  <1> QED
    BY <1>2, <1>3 DEF IInv, Alone

\* What a thread's page and worker are, for the lemmas below.
LEMMA Around ==
    ASSUME IInv, NEW t \in Threads
    PROVE  /\ WorkerOf[t] \in Workers /\ page[t] \in Page
           /\ page[t].probe \in Probe /\ page[t].cached \in Probe \cup {None}
           /\ probe_cache[WorkerOf[t]] \in Probe \cup {None}
           /\ probe_generation[WorkerOf[t]] \in Nat /\ seen[WorkerOf[t]] \in Nat
           /\ clock \in Nat
           /\ CacheOK(probe_cache[WorkerOf[t]], probe_generation[WorkerOf[t]],
                      seen[WorkerOf[t]], clock)
           /\ PageOK(page[t], probe_cache[WorkerOf[t]], probe_generation[WorkerOf[t]],
                     seen[WorkerOf[t]], clock)
  <1>1. TypeOK /\ WorkerOf[t] \in Workers
    BY ThreadsAssumption DEF IInv
  <1>2. page[t] \in Page
    BY <1>1 DEF TypeOK
  <1>3. page[t].probe \in Probe /\ page[t].cached \in Probe \cup {None}
    BY <1>2 DEF Page
  <1>4. probe_cache[WorkerOf[t]] \in Probe \cup {None}
    BY <1>1 DEF TypeOK
  <1> QED
    BY <1>1, <1>2, <1>3, <1>4 DEF IInv, TypeOK

LEMMA LookupKeeps ==
    ASSUME IInv, NEW t \in Threads, Lookup(t)
    PROVE  IInv'
  <1> DEFINE w == WorkerOf[t]
             q == [page[t] EXCEPT !.pc = "check", !.cached = probe_cache[w],
                                  !.generation = probe_generation[w]]
  <1>1. q \in Page
    BY Around DEF Page
  <1>2. Alone(t, q)
    BY DEF Lookup, Alone
  <1>3. PageOK(q, probe_cache[w], probe_generation[w], seen[w], clock)
    <2>1. /\ q.pc = "check" /\ q.cached = probe_cache[w] /\ q.generation = probe_generation[w]
          /\ q.floor = page[t].floor /\ q.floor_generation = page[t].floor_generation
          /\ q.floor \in Nat
      BY Around DEF Page
    <2>2. probe_cache[w] # None => probe_cache[w].started \in Nat
      BY Around DEF Probe
    <2> HIDE DEF q
    <2> QED
      BY <2>1, <2>2, Around DEF PageOK, CacheOK, AsRecent, Probing
  <1> HIDE DEF q
  <1> QED
    BY <1>1, <1>2, <1>3, AloneKeeps

LEMMA CheckKeeps ==
    ASSUME IInv, NEW t \in Threads, Check(t)
    PROVE  IInv'
  <1> DEFINE w == WorkerOf[t]
             p == page[t]
             old == [p EXCEPT !.pc = "done", !.at = clock, !.probe = p.cached, !.cached = None]
             probe == [NoAnswer EXCEPT !.url = p.url, !.started = clock, !.version = p.version,
                                       !.generation = p.generation]
             new == [p EXCEPT !.pc = "ask", !.cached = None, !.probe = probe]
  <1>1. /\ p \in Page /\ p.pc = "check" /\ p.cached \in Probe \cup {None} /\ clock \in Nat
        /\ p.url \in Urls /\ p.version \in Nat /\ p.generation \in Nat
        /\ p.floor \in Nat /\ p.floor_generation \in Nat
    BY Around DEF Check, Page
  <1>2. CASE Usable(p.cached, p.url)
    <2>1. p.cached \in Probe /\ p.cached # None
      BY <1>1, <1>2 DEF Usable
    <2>2. old \in Page
      BY <1>1, <2>1 DEF Page
    <2>3. Alone(t, old)
      BY <1>2 DEF Check, Alone
    <2>4. PageOK(old, probe_cache[w], probe_generation[w], seen[w], clock)
      <3>1. /\ old.pc = "done" /\ old.at = clock /\ old.probe = p.cached
            /\ old.url = p.url /\ old.generation = p.generation /\ old.floor = p.floor
            /\ old.floor_generation = p.floor_generation
        BY <1>1 DEF Page
      <3> HIDE DEF old
      <3> QED
        BY <1>1, <1>2, <2>1, <3>1, Around DEF PageOK, Probing, Usable
    <2> HIDE DEF old
    <2> QED
      BY <2>2, <2>3, <2>4, AloneKeeps
  <1>3. CASE ~Usable(p.cached, p.url)
    <2>1. probe \in Probe
      BY <1>1, NoPageTyped DEF Probe
    <2>2. probe.url = p.url /\ probe.generation = p.generation /\ probe.started = clock
      BY DEF NoAnswer
    <2> HIDE DEF probe
    <2>3. new \in Page
      BY <1>1, <2>1 DEF Page
    <2>4. Alone(t, new)
      BY <1>3 DEF Check, Alone, probe
    <2>5. PageOK(new, probe_cache[w], probe_generation[w], seen[w], clock)
      <3>1. /\ new.pc = "ask" /\ new.probe = probe
            /\ new.url = p.url /\ new.generation = p.generation /\ new.floor = p.floor
            /\ new.floor_generation = p.floor_generation
        BY <1>1 DEF Page
      <3> HIDE DEF new
      <3> QED
        BY <1>1, <2>2, <3>1, Around DEF PageOK, Probing
    <2> HIDE DEF new
    <2> QED
      BY <2>3, <2>4, <2>5, AloneKeeps
  <1> QED
    BY <1>2, <1>3

LEMMA AskKeeps ==
    ASSUME IInv, NEW t \in Threads, Ask(t)
    PROVE  IInv'
  <1> DEFINE p == page[t]
  <1>1. PICK answer \in {IF p.token = Accepted THEN "up" ELSE "denied", "failed"} :
           page' = [page EXCEPT ![t] =
                      [p EXCEPT !.pc = "receive", !.probe = [@ EXCEPT !.answer = answer]]]
    BY DEF Ask
  <1> DEFINE probe == [p.probe EXCEPT !.answer = answer]
             q == [p EXCEPT !.pc = "receive", !.probe = probe]
  <1>2. answer \in {"up", "denied", "failed"} /\ p \in Page /\ p.probe \in Probe /\ p.pc = "ask"
    BY Around DEF Ask
  <1>3. probe \in Probe
    BY <1>2 DEF Probe
  <1>4. /\ probe.url = p.probe.url /\ probe.generation = p.probe.generation
        /\ probe.started = p.probe.started /\ probe.answer # "none"
    BY <1>2 DEF Probe
  <1>5. Alone(t, q)
    BY <1>1 DEF Ask, Alone
  <1> HIDE DEF probe
  <1>6. q \in Page
    BY <1>2, <1>3 DEF Page
  <1>7. PageOK(q, probe_cache[WorkerOf[t]], probe_generation[WorkerOf[t]],
               seen[WorkerOf[t]], clock)
    <2>1. /\ q.pc = "receive" /\ q.probe = probe
          /\ q.url = p.url /\ q.generation = p.generation /\ q.floor = p.floor
          /\ q.floor_generation = p.floor_generation
      BY <1>2 DEF Page
    <2> HIDE DEF q
    <2> QED
      BY <1>2, <1>4, <2>1, Around DEF PageOK, Probing
  <1> HIDE DEF q
  <1> QED
    BY <1>5, <1>6, <1>7, AloneKeeps

LEMMA ReceiveKeeps ==
    ASSUME IInv, NEW t \in Threads, Receive(t)
    PROVE  IInv'
  <1> DEFINE p == page[t]
             probe == [p.probe EXCEPT !.answered = clock]
             q == [p EXCEPT !.pc = "remember", !.at = clock, !.probe = probe]
  <1>1. p \in Page /\ p.probe \in Probe /\ p.pc = "receive" /\ clock \in Nat
    BY Around DEF Receive
  <1>2. probe \in Probe
    BY <1>1 DEF Probe
  <1>3. /\ probe.url = p.probe.url /\ probe.generation = p.probe.generation
        /\ probe.started = p.probe.started /\ probe.answer = p.probe.answer
        /\ probe.answered = clock
    BY <1>1 DEF Probe
  <1>4. Alone(t, q)
    BY DEF Receive, Alone
  <1> HIDE DEF probe
  <1>5. q \in Page
    BY <1>1, <1>2 DEF Page
  <1>6. PageOK(q, probe_cache[WorkerOf[t]], probe_generation[WorkerOf[t]],
               seen[WorkerOf[t]], clock)
    <2>1. /\ q.pc = "remember" /\ q.probe = probe /\ q.at = clock
          /\ q.url = p.url /\ q.generation = p.generation /\ q.floor = p.floor
          /\ q.floor_generation = p.floor_generation
      BY <1>1 DEF Page
    <2> HIDE DEF q
    <2> QED
      BY <1>1, <1>3, <2>1, Around DEF PageOK, Probing
  <1> HIDE DEF q
  <1> QED
    BY <1>4, <1>5, <1>6, AloneKeeps

LEMMA FaultKeeps ==
    ASSUME IInv, NEW t \in Threads, Fault(t)
    PROVE  IInv'
  <1>1. Alone(t, NoPage)
    BY DEF Fault, Alone
  <1>2. PageOK(NoPage, probe_cache[WorkerOf[t]], probe_generation[WorkerOf[t]],
               seen[WorkerOf[t]], clock)
    BY Around, IdleOK
  <1> QED
    BY <1>1, <1>2, NoPageTyped, AloneKeeps

LEMMA RememberKeeps ==
    ASSUME IInv, NEW t \in Threads, Remember(t)
    PROVE  IInv'
  <1> DEFINE w == WorkerOf[t]
             p == page[t]
             c == probe_cache[w]
             g == probe_generation[w]
             d == IF Remembers(p.probe, p.generation, g, c) THEN p.probe ELSE c
             q == [p EXCEPT !.pc = "done"]
  <1>1. /\ TypeOK /\ w \in Workers /\ p \in Page /\ p.pc = "remember"
        /\ p.probe \in Probe /\ p.probe.answer # "none" /\ p.probe # None
        /\ c \in Probe \cup {None} /\ g \in Nat
        /\ p.probe.generation = p.generation /\ p.probe.started <= clock
        /\ CacheOK(c, g, seen[w], clock) /\ seen[w] \in Nat /\ clock \in Nat
    BY Around, NoneAssumption DEF Remember, PageOK, Probing, IInv
  <1>2. p.probe.started \in Nat /\ (c # None => c.started \in Nat)
    BY <1>1 DEF Probe
  <1>3. /\ probe_cache' = [probe_cache EXCEPT ![w] = d]
        /\ page' = [page EXCEPT ![t] = q]
        /\ UNCHANGED <<server, saves, clock, probe_generation, pages, seen, told>>
    <2>1. probe_cache' = [probe_cache EXCEPT ![w] = d]
      BY <1>1 DEF Remember, TypeOK
    <2> QED
      BY <2>1 DEF Remember
  <1>4. Ttl > 0 /\ c # None => AsRecent(d, c.started)
    BY <1>1, <1>2 DEF AsRecent, Remembers
  <1>5. CacheOK(d, g, seen[w], clock)
    BY <1>1, <1>2, BoundsAssumption DEF CacheOK, Remembers
  <1>6. q \in Page
    BY <1>1 DEF Page
  <1>7. PageOK(q, d, g, seen[w], clock)
    <2>1. /\ q.pc = "done" /\ q.probe = p.probe /\ q.at = p.at
          /\ q.url = p.url /\ q.generation = p.generation /\ q.floor = p.floor
          /\ q.floor_generation = p.floor_generation
      BY <1>1 DEF Page
    <2>2. Ttl > 0 /\ p.generation = g => AsRecent(d, p.probe.started)
      BY <1>1, <1>2 DEF AsRecent, Remembers
    <2>3. PageOK(p, c, g, seen[w], clock)
      BY Around
    <2> HIDE DEF q, d
    <2> QED
      BY <1>1, <2>1, <2>2, <2>3 DEF PageOK, Probing
  <1>8. d \in {e \in Probe : e.answer # "none"} \cup {None} /\ d \in Probe \cup {None}
    BY <1>1 DEF TypeOK
  <1> HIDE DEF q, d
  <1>9. TypeOK'
    <2>1. page' \in [Threads -> Page]
      BY <1>1, <1>3, <1>6 DEF TypeOK
    <2>2. probe_cache' \in [Workers -> {e \in Probe : e.answer # "none"} \cup {None}]
      BY <1>1, <1>3, <1>8 DEF TypeOK
    <2> QED
      BY <1>1, <1>3, <2>1, <2>2 DEF TypeOK
  <1>10. ASSUME NEW v \in Workers
         PROVE  CacheOK(probe_cache'[v], probe_generation'[v], seen'[v], clock')
    <2>1. CASE v = w
      BY <1>1, <1>3, <1>5, <2>1 DEF TypeOK
    <2>2. CASE v # w
      BY <1>1, <1>3, <2>2 DEF TypeOK, IInv
    <2> QED
      BY <2>1, <2>2
  <1>11. ASSUME NEW r \in Threads
         PROVE  PageOK(page'[r], probe_cache'[WorkerOf[r]],
                       probe_generation'[WorkerOf[r]], seen'[WorkerOf[r]], clock')
    <2> DEFINE v == WorkerOf[r]
    <2>1. /\ v \in Workers /\ page[r] \in Page
          /\ PageOK(page[r], probe_cache[v], probe_generation[v], seen[v], clock)
      BY Around
    <2>2. CASE r = t
      BY <1>1, <1>3, <1>7, <2>2 DEF TypeOK
    <2>3. CASE r # t /\ v = w
      <3>1. /\ page'[r] = page[r] /\ probe_cache'[v] = d
            /\ probe_generation'[v] = g /\ seen'[v] = seen[w] /\ clock' = clock
        BY <1>1, <1>3, <2>3 DEF TypeOK
      <3>2. PageOK(page[r], c, g, seen[w], clock)
        BY <2>1, <2>3
      <3>3. seen[w] <= seen[w] /\ clock <= clock
        BY <1>1
      <3> HIDE DEF c, g, v, w
      <3>4. PageOK(page[r], d, g, seen[w], clock)
        BY <1>1, <1>4, <1>8, <2>1, <3>2, <3>3, Onwards, Zenon
      <3> QED
        BY <3>1, <3>4 DEF v
    <2>4. CASE r # t /\ v # w
      <3>1. /\ page'[r] = page[r] /\ probe_cache'[v] = probe_cache[v]
            /\ probe_generation'[v] = probe_generation[v] /\ seen'[v] = seen[v]
            /\ clock' = clock
        BY <1>1, <1>3, <2>1, <2>4 DEF TypeOK
      <3> QED
        BY <2>1, <3>1
    <2> QED
      BY <2>2, <2>3, <2>4
  <1> QED
    BY <1>9, <1>10, <1>11 DEF IInv

LEMMA EndKeeps ==
    ASSUME IInv, NEW t \in Threads, End(t)
    PROVE  IInv'
  <1> DEFINE w == WorkerOf[t]
             p == page[t]
             c == probe_cache[w]
             g == probe_generation[w]
             z == IF p.generation = g /\ p.probe.started > seen[w]
                  THEN p.probe.started ELSE seen[w]
  <1>1. /\ TypeOK /\ w \in Workers /\ p \in Page /\ p.pc = "done"
        /\ p.probe \in Probe /\ c \in Probe \cup {None} /\ g \in Nat
        /\ p.probe.started <= clock
        /\ Ttl > 0 /\ p.generation = g => AsRecent(c, p.probe.started)
        /\ CacheOK(c, g, seen[w], clock) /\ seen[w] \in Nat /\ clock \in Nat
    BY Around DEF End, PageOK, Probing, IInv
  <1>2. p.probe.started \in Nat /\ (c # None => c.started \in Nat)
    BY <1>1 DEF Probe
  <1>3. /\ seen' = [seen EXCEPT ![w] = z]
        /\ page' = [page EXCEPT ![t] = NoPage]
        /\ UNCHANGED <<server, saves, clock, probe_cache, probe_generation, pages, told>>
    BY <1>1 DEF End, TypeOK
  <1>4. z \in Nat /\ seen[w] <= z
    BY <1>1, <1>2
  <1>5. CacheOK(c, g, z, clock)
    BY <1>1, <1>2 DEF CacheOK, AsRecent
  <1> HIDE DEF z
  <1>6. TypeOK'
    BY <1>1, <1>3, <1>4, NoPageTyped DEF TypeOK
  <1>7. ASSUME NEW v \in Workers
        PROVE  CacheOK(probe_cache'[v], probe_generation'[v], seen'[v], clock')
    <2>1. CASE v = w
      BY <1>1, <1>3, <1>5, <2>1 DEF TypeOK
    <2>2. CASE v # w
      BY <1>1, <1>3, <2>2 DEF TypeOK, IInv
    <2> QED
      BY <2>1, <2>2
  <1>8. ASSUME NEW r \in Threads
        PROVE  PageOK(page'[r], probe_cache'[WorkerOf[r]],
                      probe_generation'[WorkerOf[r]], seen'[WorkerOf[r]], clock')
    <2> DEFINE v == WorkerOf[r]
    <2>1. /\ v \in Workers /\ page[r] \in Page /\ probe_generation'[v] \in Nat
          /\ seen'[v] \in Nat /\ clock' \in Nat
          /\ PageOK(page[r], probe_cache[v], probe_generation[v], seen[v], clock)
      BY <1>6, Around DEF TypeOK
    <2>2. CASE r = t
      <3>1. page'[r] = NoPage
        BY <1>1, <1>3, <2>2 DEF TypeOK
      <3> QED
        BY <2>1, <3>1, IdleOK
    <2>3. CASE r # t /\ v = w
      <3>1. /\ page'[r] = page[r] /\ probe_cache'[v] = c
            /\ probe_generation'[v] = g /\ seen'[v] = z /\ clock' = clock
        BY <1>1, <1>3, <2>3 DEF TypeOK
      <3>2. PageOK(page[r], c, g, seen[w], clock)
        BY <2>1, <2>3
      <3>3. clock <= clock /\ (Ttl > 0 /\ c # None => AsRecent(c, c.started))
        BY <1>1, <1>2 DEF AsRecent
      <3> HIDE DEF c, g, v, w
      <3>4. PageOK(page[r], c, g, z, clock)
        BY <1>1, <1>4, <2>1, <3>2, <3>3, Onwards, Zenon
      <3> QED
        BY <3>1, <3>4 DEF v
    <2>4. CASE r # t /\ v # w
      <3>1. /\ page'[r] = page[r] /\ probe_cache'[v] = probe_cache[v]
            /\ probe_generation'[v] = probe_generation[v] /\ seen'[v] = seen[v]
            /\ clock' = clock
        BY <1>1, <1>3, <2>1, <2>4 DEF TypeOK
      <3> QED
        BY <2>1, <3>1
    <2> QED
      BY <2>2, <2>3, <2>4
  <1> QED
    BY <1>6, <1>7, <1>8 DEF IInv

LEMMA NextKeeps ==
    ASSUME IInv, [Next]_vars
    PROVE  IInv'
  <1>1. CASE UNCHANGED vars
    BY <1>1 DEF vars, IInv, TypeOK
  <1>2. CASE Tick
    BY <1>2, TickKeeps
  <1>3. CASE Quiet
    BY <1>1, <1>3 DEF Quiet
  <1>4. ASSUME NEW t \in Threads, NEW pc \in {"lookup", "save", "forget"}, Arrive(t, pc)
        PROVE  IInv'
    BY <1>4, ArriveKeeps
  <1>5. ASSUME NEW t \in Threads, NEW s \in Settings, Save(t, s)
        PROVE  IInv'
    BY <1>5, SaveKeeps
  <1>6. ASSUME NEW t \in Threads,
               Forget(t) \/ Lookup(t) \/ Check(t) \/ Ask(t) \/ Receive(t) \/ Fault(t)
        PROVE  IInv'
    BY <1>6, ForgetKeeps, LookupKeeps, CheckKeeps, AskKeeps, ReceiveKeeps, FaultKeeps
  <1>7. ASSUME NEW t \in Threads, Remember(t) \/ End(t)
        PROVE  IInv'
    BY <1>7, RememberKeeps, EndKeeps
  <1> QED
    BY <1>1, <1>2, <1>3, <1>4, <1>5, <1>6, <1>7 DEF Next

--------------------------------------------------------------------------------

\* The inductive invariant behind the theorems that follow holds at every moment.
THEOREM ProbeInvariantHolds == Spec => []IInv
  <1>1. Init => IInv
    BY InitHolds
  <1>2. IInv /\ [Next]_vars => IInv'
    BY NextKeeps
  <1> QED
    BY <1>1, <1>2, PTL DEF Spec

\* A page is told of its own backend, by an answer that came back less than Ttl ago or by
\* its own probe (utility.probe_server).
THEOREM OwnAndFresh == Spec => []OwnBackendAndFresh
  <1>1. IInv => OwnBackendAndFresh
    BY DEF IInv, PageOK, Probing, OwnBackendAndFresh, Shown
  <1> QED
    BY <1>1, ProbeInvariantHolds, PTL

\* No page is told what a probe found that was looked up before a forget the page's own
\* lookup came after (utility.forget_server_probe, _remember).
THEOREM NothingFromBeforeForget == Spec => []NotFromBeforeForget
  <1>1. IInv => NotFromBeforeForget
    BY DEF IInv, PageOK, Probing, NotFromBeforeForget, Shown
  <1> QED
    BY <1>1, ProbeInvariantHolds, PTL

\* Pages of one worker do not go back in time between two forgets (utility._remember
\* keeps the answer whose probe started later).
THEOREM NeverGoesBack == Spec => []NoGoingBack
  <1>1. ASSUME IInv, NEW t \in Threads, Shown(t),
               page[t].generation = page[t].floor_generation
        PROVE  page[t].probe.started >= page[t].floor
    <2>1. /\ page[t].floor <= page[t].probe.started
          /\ page[t].floor \in Nat /\ page[t].probe.started \in Nat
      BY <1>1, Around DEF PageOK, Probing, Shown, Page, Probe
    <2> QED
      BY <2>1
  <1>2. IInv => NoGoingBack
    BY <1>1 DEF NoGoingBack
  <1> QED
    BY <1>2, ProbeInvariantHolds, PTL

\* What a worker remembers is an answer, never the failure of the application to ask for one
\* (utility._remember), and generations and clocks count (utility.probe_server).
THEOREM OnlyAnswersRemembered == Spec => []TypeOK
  <1>1. IInv => TypeOK
    BY DEF IInv
  <1> QED
    BY <1>1, ProbeInvariantHolds, PTL
================================================================================
