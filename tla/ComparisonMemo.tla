------------------------------ MODULE ComparisonMemo ------------------------------
(***************************************************************************)
(* The comparisons of two functions that a server process memoizes         *)
(* (functiondiff.get_function_diff, get_combined_dot_graph), in the least- *)
(* recently-used store memo.BoundedMemo, and the reset that clears it      *)
(* (administration.reset_server, memo.clear_app_memos).                    *)
(*                                                                         *)
(* Threads of one process share the store.  Every method of it holds its   *)
(* lock throughout and is one action; what a thread does between two       *)
(* methods - fetching functions, comparing, drawing - is not locked.  The  *)
(* backend changes meanwhile, for everybody.  The other two memos, of link *)
(* hunts and of block covers, are keyed by a job and left out; a failed    *)
(* request of the backend is answered like one for what is not there.      *)
(***************************************************************************)
EXTENDS Integers, Sequences, FiniteSets

CONSTANTS
    Threads,
    Pairs,          \* a backend's URL and two function ids of it
    Contents,       \* what the backend may hold of a function: xcfg and PicBlockHashes
    Gone,           \* a function whose disassembly was dropped
    Weigh,          \* _estimated_size of a comparison, [a, b, drawn] -> bytes
    MaxWeight,      \* FUNCTION_DIFF_MEMO_BYTES
    MaxRequests, MaxChanges, Resets,    \* bounds of a behaviour
    None

ASSUME GoneAssumption == Gone \notin Contents /\ None \notin Contents /\ None # Gone
ASSUME WeighAssumption == Weigh \in [Contents \X Contents \X BOOLEAN -> Nat]
ASSUME BoundsAssumption ==
    MaxWeight \in Nat /\ MaxRequests \in Nat /\ MaxChanges \in Nat /\ Resets \in Nat

VARIABLES
    backend,        \* the two functions of each pair, and the sample they belong to
    epoch,          \* how often the backend was reset; names the samples, too
    entries,        \* BoundedMemo._entries
    order,          \* its keys, least recently used first
    weight,         \* BoundedMemo._weight
    thread,         \* the request each thread serves
    requests, changes,
    cleared         \* ghost: the last epoch this process finished a reset to

memo == <<entries, order, weight>>
vars == <<backend, epoch, memo, thread, requests, changes, cleared>>

Key   == Pairs \X Contents \X Contents
\* A comparison: of which contents, with which sample's base address, whether its graph is
\* drawn.  Ghost: since is what `cleared` was when the request that computed it began.
Value == [a : Contents, b : Contents, base : Nat, drawn : BOOLEAN, since : Nat]
Entry == [key : Key, value : Value, weight : Nat, stored : Nat]

\* What the backend answers of one function of a pair.
Held == Contents \cup {Gone}
Pair == [a : Held, b : Held, base : Nat]

Idle == [pc |-> "idle", kind |-> "page", pair |-> None, a |-> None, b |-> None,
         value |-> None, answer |-> "none", since |-> 0]

Init ==
    /\ backend \in [Pairs -> [a : Held, b : Held, base : {0}]]
    /\ epoch = 0 /\ cleared = 0
    /\ entries = {} /\ order = <<>> /\ weight = 0
    /\ thread = [t \in Threads |-> Idle]
    /\ requests = 0 /\ changes = 0

Move(t, q) == thread' = [thread EXCEPT ![t] = q]
Answer(t, answer) == Move(t, [thread[t] EXCEPT !.pc = "done", !.answer = answer])

world == <<backend, epoch, requests, changes, cleared>>

-----------------------------------------------------------------------------
(* BoundedMemo.  Each operator is what a method does to the store.          *)

\* _entries.pop: the key leaves the order, if it is there.
Without(keys, key) ==
    IF \E i \in DOMAIN keys : keys[i] = key
    THEN LET at == CHOOSE i \in DOMAIN keys : keys[i] = key
         IN [i \in 1..Len(keys) - 1 |-> keys[IF i < at THEN i ELSE i + 1]]
    ELSE keys
Touch(keys, key) == Append(Without(keys, key), key)

EntryOf(key) == {e \in entries : e.key = key}

\* The weight of a set of entries, counted unit by unit.
Sum(set) == Cardinality(UNION {{e} \X (1..e.weight) : e \in set})

\* lookup, of a key that is there.
Found(key) == order' = Touch(order, key) /\ UNCHANGED <<entries, weight>>

\* The entries of the n oldest keys, and the fewest without which what weighs w fits.
Oldest(set, keys, n) == {e \in set : \E i \in 1..n : keys[i] = e.key}
Evicted(set, keys, w) ==
    LET fits == {n \in 0..Len(keys) : w - Sum(Oldest(set, keys, n)) <= MaxWeight}
    IN CHOOSE n \in fits : \A m \in fits : n <= m

\* Mutant: a store over an old entry keeps the old entry's weight.
StoreOnTop(entry) ==
    LET key  == entry.key
        rest == entries \ EntryOf(key)
        set  == rest \cup {entry}
        keys == Touch(order, key)
        n    == Evicted(set, keys, weight + entry.weight)
        out  == Oldest(set, keys, n)
    IN IF entry.weight > MaxWeight
       THEN entries' = rest /\ order' = Without(order, key) /\ UNCHANGED weight
       ELSE /\ entries' = set \ out
            /\ order' = SubSeq(keys, n + 1, Len(keys))
            /\ weight' = weight + entry.weight - Sum(out)

\* store: the old entry of the key goes, the new one is the last, and the oldest go until
\* the weights are within the bound; one heavier than that is not kept at all.
Store(entry) ==
    LET key  == entry.key
        rest == entries \ EntryOf(key)
        set  == rest \cup {entry}
        keys == Touch(order, key)
        now  == weight - Sum(EntryOf(key))
        n    == Evicted(set, keys, now + entry.weight)
        out  == Oldest(set, keys, n)
    IN IF entry.weight > MaxWeight
       THEN entries' = rest /\ order' = Without(order, key) /\ weight' = now
       ELSE /\ entries' = set \ out
            /\ order' = SubSeq(keys, n + 1, Len(keys))
            /\ weight' = now + entry.weight - Sum(out)

-----------------------------------------------------------------------------
(* The backend.                                                             *)

\* recalculateAllPicHashes, or a sample whose disassembly is dropped: in place.
Change(p, side, c) ==
    /\ backend[p] # None /\ changes < MaxChanges
    /\ backend' = [backend EXCEPT ![p][side] = c]
    /\ changes' = changes + 1
    /\ UNCHANGED <<epoch, memo, thread, requests, cleared>>

\* After a reset, functions of another sample get the ids again.
Submit(p, a, b) ==
    /\ backend[p] = None
    /\ backend' = [backend EXCEPT ![p] = [a |-> a, b |-> b, base |-> epoch]]
    /\ UNCHANGED <<epoch, memo, thread, requests, changes, cleared>>

\* The backend forgets everything and restarts its id counters.
Restart == epoch' = epoch + 1 /\ backend' = [p \in Pairs |-> None]

\* A reset by another process, or by mcrit's own client: nobody tells this one.
RestartElsewhere ==
    /\ epoch < Resets
    /\ Restart
    /\ UNCHANGED <<memo, thread, requests, changes, cleared>>

\* reset_server: client.respawn ...
Respawn(t) ==
    /\ thread[t].pc = "idle" /\ epoch < Resets
    /\ Restart
    /\ Move(t, [Idle EXCEPT !.pc = "forget", !.kind = "reset", !.since = epoch + 1])
    /\ UNCHANGED <<memo, requests, changes, cleared>>

\* Mutant: the memo is not among those that are cleared.
ForgetOthers(t) ==
    /\ thread[t].pc = "forget"
    /\ cleared' = IF thread[t].since > cleared THEN thread[t].since ELSE cleared
    /\ Answer(t, "reset")
    /\ UNCHANGED <<backend, epoch, memo, requests, changes>>

\* ... and clear_app_memos, at its end.
Forget(t) ==
    /\ thread[t].pc = "forget"
    /\ entries' = {} /\ order' = <<>> /\ weight' = 0
    /\ cleared' = IF thread[t].since > cleared THEN thread[t].since ELSE cleared
    /\ Answer(t, "reset")
    /\ UNCHANGED <<backend, epoch, requests, changes>>

-----------------------------------------------------------------------------
(* A comparison page ("page") and its combined graph ("graph").             *)

\* _entries_with_xcfg: an entry that is not there, or has no xcfg, is fetched (again), the
\* first, then the second.
Fetched(p, side) == IF backend[p] = None THEN None ELSE backend[p][side]

After(q) ==
    IF q.a \notin Contents THEN "first" ELSE IF q.b \notin Contents THEN "second" ELSE "lookup"

\* match_functions gets both entries in one answer; fetchCombinedDotGraph has none yet.
Begin(t, kind, p) ==
    LET q == [Idle EXCEPT !.pc = "first", !.kind = kind, !.pair = p, !.since = cleared]
        both == [q EXCEPT !.a = backend[p].a, !.b = backend[p].b]
    IN /\ thread[t].pc = "idle" /\ requests < MaxRequests
       /\ requests' = requests + 1
       /\ Move(t, IF backend[p] = None THEN [q EXCEPT !.pc = "done", !.answer = "invalid"]
                  ELSE IF kind = "page" THEN [both EXCEPT !.pc = After(both)]
                  ELSE q)
       /\ UNCHANGED <<backend, epoch, memo, changes, cleared>>

First(t) ==
    LET q == thread[t] IN
    /\ q.pc = "first"
    /\ Move(t, [q EXCEPT !.a = Fetched(q.pair, "a"),
                          !.pc = IF q.b \in Contents THEN "lookup" ELSE "second"])
    /\ UNCHANGED <<world, memo>>

Second(t) ==
    LET q == thread[t] IN
    /\ q.pc = "second"
    /\ Move(t, [q EXCEPT !.pc = "lookup", !.b = Fetched(q.pair, "b")])
    /\ UNCHANGED <<world, memo>>

\* Mutant: the ids alone.
KeyOfIds(q) == LET c == CHOOSE c \in Contents : TRUE IN <<q.pair, c, c>>

\* _memo_key
MemoKey(q) == <<q.pair, q.a, q.b>>

\* Mutant: entries are enough.
HasEntries(q) == q.a # None /\ q.b # None

\* _has_xcfg
HasXcfg(q) == q.a \in Contents /\ q.b \in Contents

\* Without both xcfgs there is nothing to compare.  A hit is shown, but a graph that is not
\* drawn yet is drawn first.
Lookup(t) ==
    LET q == thread[t]
        hit == {e \in entries : e.key = MemoKey(q)}
    IN /\ q.pc = "lookup"
       /\ \/ /\ ~HasXcfg(q)
             /\ Answer(t, "empty")
             /\ UNCHANGED memo
          \/ /\ HasXcfg(q) /\ hit = {}
             /\ Move(t, [q EXCEPT !.pc = "compute"])
             /\ UNCHANGED memo
          \/ \E e \in hit :
                /\ HasXcfg(q)
                /\ Found(e.key)
                /\ IF q.kind = "graph" /\ ~e.value.drawn
                   THEN Move(t, [q EXCEPT !.pc = "store",
                                          !.value = [e.value EXCEPT !.drawn = TRUE]])
                   ELSE Move(t, [q EXCEPT !.pc = "done", !.value = e.value,
                                          !.answer = "shown"])
       /\ UNCHANGED world

\* _compute_function_diff works on the entries in hand, and fetches their sample; if that
\* is gone the page fails.
Compute(t) ==
    LET q == thread[t] IN
    /\ q.pc = "compute"
    /\ IF backend[q.pair] = None
       THEN Answer(t, "error")
       ELSE Move(t, [q EXCEPT !.pc = "store", !.value =
               [a |-> q.a, b |-> q.b, base |-> backend[q.pair].base,
                drawn |-> q.kind = "graph", since |-> q.since]])
    /\ UNCHANGED <<world, memo>>

Keep(t) ==
    LET q == thread[t]
        key == MemoKey(q)
    IN /\ q.pc = "store"
       /\ Store([key |-> key, value |-> q.value, stored |-> cleared,
                 weight |-> Weigh[q.value.a, q.value.b, q.value.drawn]])
       /\ Answer(t, "shown")
       /\ UNCHANGED world

End(t) ==
    /\ thread[t].pc = "done"
    /\ Move(t, Idle)
    /\ UNCHANGED <<world, memo>>

\* The bounds are reached and nothing is left to do.
Quiet ==
    /\ \A t \in Threads : thread[t].pc = "idle"
    /\ requests = MaxRequests
    /\ UNCHANGED vars

Step(t) ==
    \/ Forget(t) \/ First(t) \/ Second(t) \/ Lookup(t) \/ Compute(t) \/ Keep(t) \/ End(t)

Next ==
    \/ \E p \in Pairs :
         \/ \E side \in {"a", "b"}, c \in Held : Change(p, side, c)
         \/ \E a, b \in Held : Submit(p, a, b)
    \/ RestartElsewhere
    \/ \E t \in Threads :
         \/ \E kind \in {"page", "graph"}, p \in Pairs : Begin(t, kind, p)
         \/ Respawn(t) \/ Step(t)
    \/ Quiet

Spec == Init /\ [][Next]_vars

-----------------------------------------------------------------------------

TypeOK ==
    /\ backend \in [Pairs -> Pair \cup {None}]
    /\ epoch \in Nat /\ cleared \in Nat /\ requests \in Nat /\ changes \in Nat
    /\ entries \subseteq Entry
    /\ thread \in [Threads ->
         [pc : {"idle", "first", "second", "lookup", "compute", "store", "forget", "done"},
          kind : {"page", "graph", "reset"}, pair : Pairs \cup {None},
          a : Held \cup {None}, b : Held \cup {None}, value : Value \cup {None},
          answer : {"none", "invalid", "empty", "error", "shown", "reset"}, since : Nat]]

\* BoundedMemo's books: one entry of a key, the order holds exactly the keys of the entries,
\* the counter is the sum of their weights, and it is within the bound whenever the lock is
\* free - whichever stores, hits, evictions and clears came before.
WithinBound ==
    /\ \A e, f \in entries : e.key = f.key => e = f
    /\ Len(order) = Cardinality(entries)
    /\ {order[i] : i \in 1..Len(order)} = {e.key : e \in entries}
    /\ weight = Sum(entries) /\ weight <= MaxWeight

\* A page shows the comparison of the very functions it fetched, whatever was memoized under
\* the same ids before they were recalculated or reused; and a graph is a drawn one.
OwnComparison ==
    \A t \in Threads :
        LET q == thread[t] IN
        q.pc = "done" /\ q.answer = "shown" =>
            /\ q.value.a = q.a /\ q.value.b = q.b
            /\ q.kind = "graph" => q.value.drawn

\* After this process finished a reset, an entry can be older than the reset only if it was
\* computed by a request that was under way at the time, and stored when it was over.
ResetForgets ==
    \A e \in entries :
        e.value.base < cleared => e.value.since < cleared /\ e.stored >= cleared
=============================================================================
