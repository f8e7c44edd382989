------------------------------- MODULE ServerProbe -------------------------------
(***************************************************************************)
(* The cached answer to "does the MCRIT backend respond": probe_server,    *)
(* _remember and forget_server_probe in views/utility.py, the decorator    *)
(* mcrit_server_required around them, and the two admin routes that make   *)
(* the answer stale (administration.change_server, reset_server).          *)
(*                                                                         *)
(* A page reads the server settings when its request begins, takes the     *)
(* cached answer under a lock, probes without the lock if it has to, and   *)
(* offers what it learned to the cache under the lock again.  The cache is *)
(* a module global, one per worker process; the settings are a row the     *)
(* workers share.                                                          *)
(***************************************************************************)
EXTENDS Integers

CONSTANTS
    Workers, Threads, WorkerOf,     \* WorkerOf[t]: the process thread t runs in
    Urls, Tokens,                   \* what the settings may say
    Accepted,                       \* the token the backend takes
    FirstSettings,                  \* the settings at the start
    Ttl,                            \* MCRIT_SERVER_PROBE_TTL, in ticks; 0: no cache
    MaxClock, MaxPages,             \* bounds of a behaviour
    None

Settings == [url : Urls, token : Tokens]

\* What a probe found, a _ProbeAnswer ("failed" stands for its error field), with two
\* ghosts: the version of the settings it was asked with and the generation it belongs to.
Probe == [url : Urls, started : Nat, answered : Nat, answer : {"none", "up", "denied", "failed"},
          version : Nat, generation : Nat]

ASSUME ThreadsAssumption == WorkerOf \in [Threads -> Workers]
ASSUME SettingsAssumption == FirstSettings \in Settings /\ Accepted \in Tokens
ASSUME BoundsAssumption == Ttl \in Nat /\ MaxClock \in Nat /\ MaxPages \in Nat
ASSUME NoneAssumption == None \notin Probe

VARIABLES
    server,             \* url and server_token of the server row
    saves,              \* how often they were changed: the version they are at
    clock,              \* time.monotonic()
    probe_cache,        \* per worker: None or a Probe
    probe_generation,   \* per worker: how often forget_server_probe ran
    page,               \* what each thread is doing
    pages,              \* how many requests there were
    seen,               \* ghost: the latest start of a probe a page of this generation showed
    told                \* ghost: the version of the settings at the worker's last forget

vars == <<server, saves, clock, probe_cache, probe_generation, page, pages, seen, told>>

NoAnswer == [url |-> FirstSettings.url, started |-> 0, answered |-> 0, answer |-> "none",
             version |-> 0, generation |-> 0]

\* A request.  url, token and version are g.server_info, read as the request began;
\* cached and generation are what the lock gave; probe is what the page is answered from,
\* at the time it says.  floor, floor_generation and told are seen, probe_generation and
\* told of its worker as it began.
NoPage == [pc |-> "idle", url |-> FirstSettings.url, token |-> FirstSettings.token,
           version |-> 0, generation |-> 0, cached |-> None, probe |-> NoAnswer, at |-> 0,
           floor |-> 0, floor_generation |-> 0, told |-> 0]

Init ==
    /\ server = FirstSettings /\ saves = 0
    /\ clock = 0
    /\ probe_cache = [w \in Workers |-> None]
    /\ probe_generation = [w \in Workers |-> 0]
    /\ page = [t \in Threads |-> NoPage]
    /\ pages = 0
    /\ seen = [w \in Workers |-> 0]
    /\ told = [w \in Workers |-> 0]

Tick ==
    /\ clock < MaxClock
    /\ clock' = clock + 1
    /\ UNCHANGED <<server, saves, probe_cache, probe_generation, page, pages, seen, told>>

\* set_operation_mode reads the server row of the request: get_server_info.
Arrive(t, pc) ==
    LET w == WorkerOf[t] IN
    /\ page[t].pc = "idle" /\ pages < MaxPages
    /\ pages' = pages + 1
    /\ page' = [page EXCEPT ![t] =
          [NoPage EXCEPT !.pc = pc, !.url = server.url, !.token = server.token,
                         !.version = saves, !.floor = seen[w],
                         !.floor_generation = probe_generation[w], !.told = told[w]]]
    /\ UNCHANGED <<server, saves, clock, probe_cache, probe_generation, seen, told>>

\* change_server compares with the row the request read, writes, and forgets afterwards.
Save(t, s) ==
    /\ page[t].pc = "save"
    /\ IF s = [url |-> page[t].url, token |-> page[t].token]
       THEN /\ page' = [page EXCEPT ![t] = NoPage]
            /\ UNCHANGED <<server, saves>>
       ELSE /\ page' = [page EXCEPT ![t] = [@ EXCEPT !.pc = "forget"]]
            /\ server' = s /\ saves' = saves + 1
    /\ UNCHANGED <<clock, probe_cache, probe_generation, pages, seen, told>>

\* forget_server_probe, in the worker that handles the request; reset_server calls it
\* with the settings as they are.
Forget(t) ==
    LET w == WorkerOf[t] IN
    /\ page[t].pc = "forget"
    /\ probe_cache' = [probe_cache EXCEPT ![w] = None]
    /\ probe_generation' = [probe_generation EXCEPT ![w] = @ + 1]
    /\ seen' = [seen EXCEPT ![w] = 0]
    /\ told' = [told EXCEPT ![w] = saves]
    /\ page' = [page EXCEPT ![t] = NoPage]
    /\ UNCHANGED <<server, saves, clock, pages>>

\* probe_server takes the entry and the generation under the lock ...
Lookup(t) ==
    LET w == WorkerOf[t] IN
    /\ page[t].pc = "lookup"
    /\ page' = [page EXCEPT ![t] = [@ EXCEPT !.pc = "check", !.cached = probe_cache[w],
                                             !.generation = probe_generation[w]]]
    /\ UNCHANGED <<server, saves, clock, probe_cache, probe_generation, pages, seen, told>>

\* Mutant: one entry answers for every backend.
UsableAnywhere(entry, url) ==
    /\ Ttl > 0
    /\ entry # None
    /\ clock - entry.answered < Ttl

\* The entry answers a page that wants this URL now.
Usable(entry, url) ==
    /\ Ttl > 0
    /\ entry # None
    /\ entry.url = url
    /\ clock - entry.answered < Ttl

\* ... and outside it replays the entry, or probes.
Check(t) ==
    LET p == page[t] IN
    /\ p.pc = "check"
    /\ page' = [page EXCEPT ![t] =
          IF Usable(p.cached, p.url)
          THEN [p EXCEPT !.pc = "done", !.at = clock, !.probe = p.cached, !.cached = None]
          ELSE [p EXCEPT !.pc = "ask", !.cached = None, !.probe =
                  [NoAnswer EXCEPT !.url = p.url, !.started = clock, !.version = p.version,
                                   !.generation = p.generation]]]
    /\ UNCHANGED <<server, saves, clock, probe_cache, probe_generation, pages, seen, told>>

\* The backend takes the token or refuses it, or there is a transport failure ...
Ask(t) ==
    LET p == page[t] IN
    /\ p.pc = "ask"
    /\ \E answer \in {IF p.token = Accepted THEN "up" ELSE "denied", "failed"} :
          page' = [page EXCEPT ![t] =
                     [p EXCEPT !.pc = "receive", !.probe = [@ EXCEPT !.answer = answer]]]
    /\ UNCHANGED <<server, saves, clock, probe_cache, probe_generation, pages, seen, told>>

\* ... and the answer is back.
Receive(t) ==
    LET p == page[t] IN
    /\ p.pc = "receive"
    /\ page' = [page EXCEPT ![t] =
          [p EXCEPT !.pc = "remember", !.at = clock, !.probe = [@ EXCEPT !.answered = clock]]]
    /\ UNCHANGED <<server, saves, clock, probe_cache, probe_generation, pages, seen, told>>

\* Mutant: whatever goes wrong in the probe is remembered.
FaultRemembered(t) ==
    /\ page[t].pc = "ask"
    /\ page' = [page EXCEPT ![t] = [@ EXCEPT !.pc = "remember"]]
    /\ UNCHANGED <<server, saves, clock, probe_cache, probe_generation, pages, seen, told>>

\* Anything but a RequestException: not an answer, and not remembered.
Fault(t) ==
    /\ page[t].pc = "ask"
    /\ page' = [page EXCEPT ![t] = NoPage]
    /\ UNCHANGED <<server, saves, clock, probe_cache, probe_generation, pages, seen, told>>

\* Mutant: without the comparison of generations.
RemembersAcrossForget(probe, generation, now, entry) ==
    /\ Ttl > 0
    /\ entry # None => entry.started <= probe.started

\* Mutant: without the comparison of start times, the last to come back wins.
RemembersLastBack(probe, generation, now, entry) ==
    /\ Ttl > 0
    /\ generation = now

\* _remember stores an answer unless something newer already knows better.
Remembers(probe, generation, now, entry) ==
    /\ Ttl > 0
    /\ generation = now
    /\ entry # None => entry.started <= probe.started

Remember(t) ==
    LET w == WorkerOf[t]
        p == page[t]
    IN /\ p.pc = "remember"
       /\ probe_cache' =
             IF Remembers(p.probe, p.generation, probe_generation[w], probe_cache[w])
             THEN [probe_cache EXCEPT ![w] = p.probe]
             ELSE probe_cache
       /\ page' = [page EXCEPT ![t] = [p EXCEPT !.pc = "done"]]
       /\ UNCHANGED <<server, saves, clock, probe_generation, pages, seen, told>>

\* mcrit_server_required shows the view or one of its two messages.
End(t) ==
    LET w == WorkerOf[t]
        p == page[t]
    IN /\ p.pc = "done"
       /\ seen' = [seen EXCEPT ![w] =
             IF p.generation = probe_generation[w] /\ p.probe.started > @
             THEN p.probe.started ELSE @]
       /\ page' = [page EXCEPT ![t] = NoPage]
       /\ UNCHANGED <<server, saves, clock, probe_cache, probe_generation, pages, told>>

\* The bounds are reached and every page is answered.
Quiet ==
    /\ pages = MaxPages /\ clock = MaxClock
    /\ \A t \in Threads : page[t].pc = "idle"
    /\ UNCHANGED vars

Next ==
    \/ Tick
    \/ \E t \in Threads :
         \/ \E pc \in {"lookup", "save", "forget"} : Arrive(t, pc)
         \/ \E s \in Settings : Save(t, s)
         \/ Forget(t) \/ Lookup(t) \/ Check(t) \/ Ask(t) \/ Receive(t) \/ Fault(t)
         \/ Remember(t) \/ End(t)
    \/ Quiet

Spec == Init /\ [][Next]_vars

-----------------------------------------------------------------------------

Page == [pc : {"idle", "save", "forget", "lookup", "check", "ask", "receive", "remember", "done"},
         url : Urls, token : Tokens, version : Nat, generation : Nat,
         cached : Probe \cup {None}, probe : Probe, at : Nat,
         floor : Nat, floor_generation : Nat, told : Nat]

\* Every variable has its type, and what is cached is an answer (exactly one of was_up and
\* error is ever set): a fault of the application is never remembered as one.
TypeOK ==
    /\ server \in Settings
    /\ saves \in Nat /\ clock \in Nat /\ pages \in Nat
    /\ probe_generation \in [Workers -> Nat]
    /\ seen \in [Workers -> Nat]
    /\ told \in [Workers -> Nat]
    /\ page \in [Threads -> Page]
    /\ probe_cache \in [Workers -> {p \in Probe : p.answer # "none"} \cup {None}]

Shown(t) == page[t].pc = "done"

\* A page is told of its own backend, by an answer that came back less than Ttl ago, or
\* by its own probe: never of the URL the instance pointed to before (probe_server keys
\* the entry by URL and measures its age from answered_at).
OwnBackendAndFresh ==
    \A t \in Threads : Shown(t) =>
        /\ page[t].probe.url = page[t].url
        /\ \/ page[t].probe.answered = page[t].at
           \/ page[t].at - page[t].probe.answered < Ttl

\* What a page is told was looked up in the generation in which the page looks it up: a
\* probe that was in flight when the settings were changed, or the backend was reset, is
\* never replayed after the forget, however late it comes back.
NotFromBeforeForget ==
    \A t \in Threads : Shown(t) => page[t].probe.generation = page[t].generation

\* Pages of one worker do not go back in time: a page that begins after another one was
\* answered is told of a probe that started no earlier, as long as nothing was forgotten in
\* between.  Of two concurrent answers the one that started later is kept.
NoGoingBack ==
    \A t \in Threads : Shown(t) /\ page[t].generation = page[t].floor_generation =>
        page[t].probe.started >= page[t].floor

\* What utility.py:196 promises of forget_server_probe: a page that begins in this worker
\* after it is answered with the settings that were saved before it.
AfterForgetSettingsCount ==
    \A t \in Threads : Shown(t) => page[t].probe.version >= page[t].told
=============================================================================
