--------------------------- MODULE ComparisonMemoProofs ---------------------------
(***************************************************************************)
(* What a comparison page shows belongs to what it fetched, for any number *)
(* of threads, functions and resets.                                       *)
(*                                                                         *)
(* Dated orders what the memo holds by the resets it was computed, stored  *)
(* and cleared between.  Books are those of the store itself: its order    *)
(* and its weight counter agree with its entries, and each of the two is   *)
(* needed for what an eviction does to the other.                          *)
(***************************************************************************)
EXTENDS ComparisonMemo, FiniteSetTheorems, SequenceTheorems, WellFoundedInduction, TLAPS

\* An entry is filed under the contents it was computed of.
EntriesOwn == \A e \in entries : e.value.a = e.key[2] /\ e.value.b = e.key[3]

\* q.value is what a request for q's own functions may show.
Own(q) ==
    /\ q.value \in Value
    /\ q.value.a = q.a /\ q.value.b = q.b
    /\ q.kind = "graph" => q.value.drawn

RequestOwn(q) ==
    /\ q.pc \in {"first", "second", "lookup", "compute", "store"} => q.pair \in Pairs
    /\ q.pc \in {"compute", "store"} => HasXcfg(q)
    /\ q.pc = "store" => Own(q)
    /\ q.pc = "done" /\ q.answer = "shown" => Own(q)

IInv == TypeOK /\ EntriesOwn /\ \A t \in Threads : RequestOwn(thread[t])

Request ==
    [pc : {"idle", "first", "second", "lookup", "compute", "store", "forget", "done"},
     kind : {"page", "graph", "reset"}, pair : Pairs \cup {None},
     a : Held \cup {None}, b : Held \cup {None}, value : Value \cup {None},
     answer : {"none", "invalid", "empty", "error", "shown", "reset"}, since : Nat]

\* A step that moves one request leaves the others as they were.
LEMMA OneMoves ==
    ASSUME NEW t \in Threads, NEW q \in Request, Move(t, q), RequestOwn(q),
           thread \in [Threads -> Request], \A s \in Threads : RequestOwn(thread[s])
    PROVE  thread' \in [Threads -> Request] /\ \A s \in Threads : RequestOwn(thread'[s])
<1>1. thread' \in [Threads -> Request]
  BY DEF Move
<1>2. ASSUME NEW s \in Threads PROVE RequestOwn(thread'[s])
  <2>1. CASE s = t
    <3>1. thread'[s] = q BY <2>1 DEF Move
    <3> QED BY <3>1
  <2>2. CASE s # t
    <3>1. thread'[s] = thread[s] BY <2>2 DEF Move
    <3> QED BY <3>1
  <2> QED BY <2>1, <2>2
<1> QED BY <1>1, <1>2

\* A store keeps every entry typed, and filed under its own contents.
LEMMA StoreKeeps ==
    ASSUME NEW entry \in Entry, entries \subseteq Entry, EntriesOwn, Store(entry),
           entry.value.a = entry.key[2] /\ entry.value.b = entry.key[3]
    PROVE  entries' \subseteq Entry /\ EntriesOwn'
<1>1. entries' \subseteq entries \cup {entry}
  BY DEF Store
<1> QED BY <1>1 DEF EntriesOwn

LEMMA InitOwn == Init => IInv
<1> SUFFICES ASSUME Init PROVE IInv
  OBVIOUS
<1>1. Idle \in Request
  BY DEF Idle, Request
<1>2. thread \in [Threads -> Request]
  BY <1>1 DEF Init
<1>3. ASSUME NEW t \in Threads PROVE RequestOwn(thread[t])
  BY DEF Init, Idle, RequestOwn
<1>4. backend \in [Pairs -> Pair \cup {None}]
  BY DEF Init, Pair
<1>5. TypeOK
  BY <1>2, <1>4 DEF Init, TypeOK, Request
<1>6. EntriesOwn
  BY DEF Init, EntriesOwn
<1> QED BY <1>3, <1>5, <1>6 DEF IInv

-----------------------------------------------------------------------------
(* The backend's steps.                                                     *)

LEMMA ChangeOwn ==
    ASSUME IInv, NEW p \in Pairs, NEW side \in {"a", "b"}, NEW c \in Held, Change(p, side, c)
    PROVE  IInv'
<1>1. backend[p] \in Pair
  BY DEF IInv, TypeOK, Change
<1>2. [backend[p] EXCEPT ![side] = c] \in Pair
  <2>1. CASE side = "a" BY <1>1, <2>1 DEF Pair
  <2>2. CASE side = "b" BY <1>1, <2>2 DEF Pair
  <2> QED BY <2>1, <2>2
<1>3. backend' \in [Pairs -> Pair \cup {None}]
  <2>1. backend' = [backend EXCEPT ![p] = [backend[p] EXCEPT ![side] = c]]
    BY DEF Change
  <2> HIDE DEF Pair
  <2> QED BY <1>2, <2>1 DEF IInv, TypeOK
<1>4. TypeOK'
  BY <1>3 DEF IInv, TypeOK, Change, memo
<1> QED BY <1>4 DEF IInv, EntriesOwn, Change, memo

LEMMA SubmitOwn ==
    ASSUME IInv, NEW p \in Pairs, NEW a \in Held, NEW b \in Held, Submit(p, a, b)
    PROVE  IInv'
<1>1. [a |-> a, b |-> b, base |-> epoch] \in Pair
  BY DEF IInv, TypeOK, Pair
<1>2. backend' \in [Pairs -> Pair \cup {None}]
  <2> HIDE DEF Pair
  <2> QED BY <1>1 DEF IInv, TypeOK, Submit
<1>3. TypeOK'
  BY <1>2 DEF IInv, TypeOK, Submit, memo
<1> QED BY <1>3 DEF IInv, EntriesOwn, Submit, memo

LEMMA RestartOwn == ASSUME IInv, RestartElsewhere PROVE IInv'
<1>1. TypeOK'
  BY DEF IInv, TypeOK, RestartElsewhere, Restart, memo
<1> QED BY <1>1 DEF IInv, EntriesOwn, RestartElsewhere, memo

-----------------------------------------------------------------------------
(* The requests' steps: each moves one request to an owned state.           *)

\* What all of them need: the rest of TypeOK, and the entries.
LEMMA Moved ==
    ASSUME IInv, NEW t \in Threads, NEW q \in Request, Move(t, q), RequestOwn(q),
           backend' \in [Pairs -> Pair \cup {None}], epoch' \in Nat, cleared' \in Nat,
           requests' \in Nat, changes' \in Nat, entries' \subseteq Entry, EntriesOwn'
    PROVE  IInv'
<1>1. thread \in [Threads -> Request]
  BY DEF IInv, TypeOK, Request
<1>2. \A s \in Threads : RequestOwn(thread[s])
  BY DEF IInv
<1>3. thread' \in [Threads -> Request] /\ \A s \in Threads : RequestOwn(thread'[s])
  BY <1>1, <1>2, OneMoves
<1>4. TypeOK'
  BY <1>3 DEF TypeOK, Request
<1>5. \A s \in Threads : RequestOwn(thread[s])'
  BY <1>3
<1> QED BY <1>4, <1>5 DEF IInv

LEMMA IdleOwn == Idle \in Request /\ RequestOwn(Idle)
BY DEF Idle, Request, RequestOwn

LEMMA RespawnOwn == ASSUME IInv, NEW t \in Threads, Respawn(t) PROVE IInv'
<1> DEFINE q == [Idle EXCEPT !.pc = "forget", !.kind = "reset", !.since = epoch + 1]
<1>1. q \in Request /\ RequestOwn(q)
  <2>1. epoch + 1 \in Nat
    BY DEF IInv, TypeOK
  <2>2. q \in Request
    BY <2>1, IdleOwn, ZenonT(60) DEF Request
  <2>3. q.pc = "forget"
    BY DEF Idle
  <2> QED BY <2>2, <2>3 DEF RequestOwn
<1>2. Move(t, q)
  BY DEF Respawn
<1>3. UNCHANGED <<entries, requests, changes, cleared>>
  BY DEF Respawn, memo
<1>4. backend' \in [Pairs -> Pair \cup {None}] /\ epoch' \in Nat
  BY DEF IInv, TypeOK, Respawn, Restart
<1>5. entries' \subseteq Entry /\ EntriesOwn' /\ requests' \in Nat /\ changes' \in Nat
      /\ cleared' \in Nat
  BY <1>3 DEF IInv, TypeOK, EntriesOwn
<1> HIDE DEF q
<1> QED BY <1>1, <1>2, <1>4, <1>5, Moved

LEMMA AnswerOwn ==
    ASSUME IInv, NEW t \in Threads,
           NEW answer \in {"none", "invalid", "empty", "error", "reset"}
    PROVE  LET q == [thread[t] EXCEPT !.pc = "done", !.answer = answer]
           IN q \in Request /\ RequestOwn(q)
<1>1. thread[t] \in Request
  BY DEF IInv, TypeOK, Request
<1>2. [thread[t] EXCEPT !.pc = "done", !.answer = answer] \in Request
  BY <1>1 DEF Request
<1> QED BY <1>1, <1>2 DEF Request, RequestOwn

LEMMA ForgetOwn == ASSUME IInv, NEW t \in Threads, Forget(t) PROVE IInv'
<1> DEFINE q == [thread[t] EXCEPT !.pc = "done", !.answer = "reset"]
<1>1. q \in Request /\ RequestOwn(q)
  BY AnswerOwn
<1>2. Move(t, q)
  BY DEF Forget, Answer
<1>3. cleared' \in Nat
  BY DEF IInv, TypeOK, Forget
<1>4. backend' \in [Pairs -> Pair \cup {None}] /\ epoch' \in Nat /\ requests' \in Nat
      /\ changes' \in Nat
  BY DEF IInv, TypeOK, Forget
<1>5. entries' \subseteq Entry /\ EntriesOwn'
  BY DEF Forget, EntriesOwn
<1> HIDE DEF q
<1> QED BY <1>1, <1>2, <1>3, <1>4, <1>5, Moved

\* A request that is not a reset leaves everything but itself and the store.
LEMMA Quietly ==
    ASSUME IInv, NEW t \in Threads, NEW q \in Request, Move(t, q), RequestOwn(q),
           UNCHANGED world, entries' \subseteq Entry, EntriesOwn'
    PROVE  IInv'
<1>1. backend' \in [Pairs -> Pair \cup {None}] /\ epoch' \in Nat /\ cleared' \in Nat
      /\ requests' \in Nat /\ changes' \in Nat
  BY DEF IInv, TypeOK, world
<1> QED BY <1>1, Moved

LEMMA BeginOwn ==
    ASSUME IInv, NEW t \in Threads, NEW kind \in {"page", "graph"}, NEW p \in Pairs,
           Begin(t, kind, p)
    PROVE  IInv'
<1> DEFINE fresh == [Idle EXCEPT !.pc = "first", !.kind = kind, !.pair = p,
                                 !.since = cleared]
           both  == [fresh EXCEPT !.a = backend[p].a, !.b = backend[p].b]
<1>1. fresh \in Request
  <2>1. cleared \in Nat
    BY DEF IInv, TypeOK
  <2> QED BY <2>1, IdleOwn, ZenonT(60) DEF Request
<1>2. fresh.pc = "first" /\ fresh.pair = p
  BY DEF Idle
<1>3. PICK q \in Request : Move(t, q) /\ RequestOwn(q)
  <2>1. CASE backend[p] = None
    <3> DEFINE q == [fresh EXCEPT !.pc = "done", !.answer = "invalid"]
    <3>1. q \in Request /\ q.pc = "done" /\ q.answer = "invalid"
      <4> HIDE DEF fresh
      <4> QED BY <1>1 DEF Request
    <3>2. RequestOwn(q)
      BY <3>1 DEF RequestOwn
    <3>3. Move(t, q)
      BY <2>1 DEF Begin
    <3> HIDE DEF q
    <3> QED BY <3>1, <3>2, <3>3
  <2>2. CASE backend[p] # None /\ kind = "page"
    <3> DEFINE q == [both EXCEPT !.pc = After(both)]
    <3>1. backend[p].a \in Held /\ backend[p].b \in Held
      BY <2>2 DEF IInv, TypeOK, Pair
    <3>2. both \in Request /\ both.pair = p
      <4> HIDE DEF fresh
      <4> QED BY <1>1, <1>2, <3>1 DEF Request
    <3>3. After(both) \in {"first", "second", "lookup"}
      BY DEF After
    <3>4. q \in Request /\ q.pc = After(both) /\ q.pair = p
      <4> HIDE DEF both
      <4> QED BY <3>2, <3>3 DEF Request
    <3>5. RequestOwn(q)
      <4> HIDE DEF q
      <4> QED BY <3>3, <3>4 DEF RequestOwn
    <3>6. Move(t, q)
      BY <2>2 DEF Begin
    <3> HIDE DEF q
    <3> QED BY <3>4, <3>5, <3>6
  <2>3. CASE backend[p] # None /\ kind # "page"
    <3>1. RequestOwn(fresh)
      <4> HIDE DEF fresh
      <4> QED BY <1>2 DEF RequestOwn
    <3>2. Move(t, fresh)
      BY <2>3 DEF Begin
    <3> HIDE DEF fresh
    <3> QED BY <1>1, <3>1, <3>2
  <2> QED BY <2>1, <2>2, <2>3
<1>4. backend' \in [Pairs -> Pair \cup {None}] /\ epoch' \in Nat /\ cleared' \in Nat
      /\ requests' \in Nat /\ changes' \in Nat
  BY DEF IInv, TypeOK, Begin
<1>5. entries' \subseteq Entry /\ EntriesOwn'
  BY DEF IInv, TypeOK, EntriesOwn, Begin, memo
<1> QED BY <1>3, <1>4, <1>5, Moved

\* What is fetched is something a request can hold.
LEMMA FetchedHeld ==
    ASSUME IInv, NEW p \in Pairs, NEW side \in {"a", "b"}
    PROVE  Fetched(p, side) \in Held \cup {None}
<1>1. CASE backend[p] = None
  BY <1>1 DEF Fetched
<1>2. CASE backend[p] # None
  <2>1. backend[p] \in Pair
    BY <1>2 DEF IInv, TypeOK
  <2>2. CASE side = "a"
    BY <1>2, <2>1, <2>2 DEF Fetched, Pair
  <2>3. CASE side = "b"
    BY <1>2, <2>1, <2>3 DEF Fetched, Pair
  <2> QED BY <2>2, <2>3
<1> QED BY <1>1, <1>2

LEMMA FirstOwn == ASSUME IInv, NEW t \in Threads, First(t) PROVE IInv'
<1> DEFINE next == IF thread[t].b \in Contents THEN "lookup" ELSE "second"
           q == [thread[t] EXCEPT !.a = Fetched(thread[t].pair, "a"), !.pc = next]
<1>1. thread[t] \in Request /\ thread[t].pair \in Pairs
  BY DEF IInv, TypeOK, Request, RequestOwn, First
<1>2. Fetched(thread[t].pair, "a") \in Held \cup {None}
  BY <1>1, FetchedHeld
<1>3. next \in {"lookup", "second"}
  OBVIOUS
<1>4. q \in Request /\ q.pc = next /\ q.pair \in Pairs
  <2> HIDE DEF next
  <2> QED BY <1>1, <1>2, <1>3 DEF Request
<1>5. RequestOwn(q)
  <2> HIDE DEF q, next
  <2> QED BY <1>3, <1>4 DEF RequestOwn
<1>6. Move(t, q) /\ UNCHANGED <<world, entries>>
  BY DEF First, memo
<1>7. entries' \subseteq Entry /\ EntriesOwn'
  BY <1>6 DEF IInv, TypeOK, EntriesOwn
<1> HIDE DEF q
<1> QED BY <1>4, <1>5, <1>6, <1>7, Quietly

LEMMA SecondOwn == ASSUME IInv, NEW t \in Threads, Second(t) PROVE IInv'
<1> DEFINE q == [thread[t] EXCEPT !.pc = "lookup", !.b = Fetched(thread[t].pair, "b")]
<1>1. thread[t] \in Request /\ thread[t].pair \in Pairs
  BY DEF IInv, TypeOK, Request, RequestOwn, Second
<1>2. Fetched(thread[t].pair, "b") \in Held \cup {None}
  BY <1>1, FetchedHeld
<1>3. q \in Request /\ q.pc = "lookup" /\ q.pair \in Pairs
  BY <1>1, <1>2 DEF Request
<1>4. RequestOwn(q)
  <2> HIDE DEF q
  <2> QED BY <1>3 DEF RequestOwn
<1>5. Move(t, q) /\ UNCHANGED <<world, entries>>
  BY DEF Second, memo
<1>6. entries' \subseteq Entry /\ EntriesOwn'
  BY <1>5 DEF IInv, TypeOK, EntriesOwn
<1> HIDE DEF q
<1> QED BY <1>3, <1>4, <1>5, <1>6, Quietly

\* A hit is filed under the contents the request has in hand, and computed of them.
LEMMA LookupOwn == ASSUME IInv, NEW t \in Threads, Lookup(t) PROVE IInv'
<1>1. thread[t] \in Request /\ thread[t].pair \in Pairs
  BY DEF IInv, TypeOK, Request, RequestOwn, Lookup
<1>2. UNCHANGED <<world, entries>>
  BY DEF Lookup, memo, Found
<1>3. entries' \subseteq Entry /\ EntriesOwn'
  BY <1>2 DEF IInv, TypeOK, EntriesOwn
<1>4. PICK q \in Request : Move(t, q) /\ RequestOwn(q)
  <2>1. CASE Answer(t, "empty")
    <3> DEFINE q == [thread[t] EXCEPT !.pc = "done", !.answer = "empty"]
    <3>1. q \in Request /\ RequestOwn(q)
      BY AnswerOwn
    <3>2. Move(t, q)
      BY <2>1 DEF Answer
    <3> HIDE DEF q
    <3> QED BY <3>1, <3>2
  <2>2. CASE HasXcfg(thread[t]) /\ Move(t, [thread[t] EXCEPT !.pc = "compute"])
    <3> DEFINE q == [thread[t] EXCEPT !.pc = "compute"]
    <3>1. q \in Request /\ q.pc = "compute" /\ q.pair \in Pairs /\ HasXcfg(q)
      BY <1>1, <2>2 DEF Request, HasXcfg
    <3>2. RequestOwn(q)
      <4> HIDE DEF q
      <4> QED BY <3>1 DEF RequestOwn
    <3> HIDE DEF q
    <3> QED BY <2>2, <3>1, <3>2 DEF q
  <2>3. ASSUME NEW e \in entries, e.key = MemoKey(thread[t]), HasXcfg(thread[t]),
               IF thread[t].kind = "graph" /\ ~e.value.drawn
               THEN Move(t, [thread[t] EXCEPT !.pc = "store",
                                              !.value = [e.value EXCEPT !.drawn = TRUE]])
               ELSE Move(t, [thread[t] EXCEPT !.pc = "done", !.value = e.value,
                                              !.answer = "shown"])
        PROVE  \E q \in Request : Move(t, q) /\ RequestOwn(q)
    <3>1. e.value \in Value
      BY DEF IInv, TypeOK, Entry
    <3>2. e.value.a = thread[t].a /\ e.value.b = thread[t].b
      BY <2>3 DEF IInv, EntriesOwn, MemoKey
    <3>3. CASE thread[t].kind = "graph" /\ ~e.value.drawn
      <4> DEFINE v == [e.value EXCEPT !.drawn = TRUE]
                 q == [thread[t] EXCEPT !.pc = "store", !.value = v]
      <4>1. v \in Value /\ v.a = thread[t].a /\ v.b = thread[t].b /\ v.drawn
        BY <3>1, <3>2 DEF Value
      <4>2. /\ q \in Request /\ q.pc = "store" /\ q.value = v /\ q.pair \in Pairs
            /\ q.a = thread[t].a /\ q.b = thread[t].b
        <5> HIDE DEF v
        <5> QED BY <1>1, <4>1 DEF Request
      <4>3. RequestOwn(q)
        <5> HIDE DEF q, v
        <5> QED BY <2>3, <4>1, <4>2 DEF RequestOwn, Own, HasXcfg
      <4>4. Move(t, q)
        BY <2>3, <3>3
      <4> HIDE DEF q
      <4> QED BY <4>2, <4>3, <4>4
    <3>4. CASE ~(thread[t].kind = "graph" /\ ~e.value.drawn)
      <4> DEFINE q == [thread[t] EXCEPT !.pc = "done", !.value = e.value,
                                        !.answer = "shown"]
      <4>1. /\ q \in Request /\ q.pc = "done" /\ q.value = e.value
            /\ q.a = thread[t].a /\ q.b = thread[t].b /\ q.kind = thread[t].kind
        BY <1>1, <3>1 DEF Request
      <4>2. RequestOwn(q)
        <5> HIDE DEF q
        <5> QED BY <3>1, <3>2, <3>4, <4>1 DEF RequestOwn, Own
      <4>3. Move(t, q)
        BY <2>3, <3>4
      <4> HIDE DEF q
      <4> QED BY <4>1, <4>2, <4>3
    <3> QED BY <3>3, <3>4
  <2> QED BY <2>1, <2>2, <2>3 DEF Lookup
<1> QED BY <1>2, <1>3, <1>4, Quietly

LEMMA ComputeOwn == ASSUME IInv, NEW t \in Threads, Compute(t) PROVE IInv'
<1>1. /\ thread[t] \in Request /\ thread[t].pair \in Pairs
      /\ thread[t].a \in Contents /\ thread[t].b \in Contents
  BY DEF IInv, TypeOK, Request, RequestOwn, Compute, HasXcfg
<1>2. UNCHANGED <<world, entries>>
  BY DEF Compute, memo
<1>3. entries' \subseteq Entry /\ EntriesOwn'
  BY <1>2 DEF IInv, TypeOK, EntriesOwn
<1>4. PICK q \in Request : Move(t, q) /\ RequestOwn(q)
  <2>1. CASE backend[thread[t].pair] = None
    <3> DEFINE q == [thread[t] EXCEPT !.pc = "done", !.answer = "error"]
    <3>1. q \in Request /\ RequestOwn(q)
      BY AnswerOwn
    <3>2. Move(t, q)
      BY <2>1 DEF Compute, Answer
    <3> HIDE DEF q
    <3> QED BY <3>1, <3>2
  <2>2. CASE backend[thread[t].pair] # None
    <3> DEFINE v == [a |-> thread[t].a, b |-> thread[t].b,
                     base |-> backend[thread[t].pair].base,
                     drawn |-> thread[t].kind = "graph", since |-> thread[t].since]
               q == [thread[t] EXCEPT !.pc = "store", !.value = v]
    <3>1. backend[thread[t].pair].base \in Nat
      BY <1>1, <2>2 DEF IInv, TypeOK, Pair
    <3>2. thread[t].since \in Nat /\ (thread[t].kind = "graph") \in BOOLEAN
      BY <1>1 DEF Request
    <3>3. /\ v \in Value /\ v.a = thread[t].a /\ v.b = thread[t].b
          /\ v.drawn = (thread[t].kind = "graph")
      BY <1>1, <3>1, <3>2, Zenon DEF Value
    <3>4. /\ q \in Request /\ q.pc = "store" /\ q.value = v /\ q.pair \in Pairs
          /\ q.a = thread[t].a /\ q.b = thread[t].b /\ q.kind = thread[t].kind
      <4> HIDE DEF v
      <4> QED BY <1>1, <3>3 DEF Request
    <3>5. Own(q)
      <4>1. q.value \in Value /\ q.value.a = q.a /\ q.value.b = q.b
        <5> HIDE DEF q, v
        <5> QED BY <3>3, <3>4
      <4>2. q.kind = "graph" => q.value.drawn
        <5> HIDE DEF q, v
        <5> QED BY <3>3, <3>4
      <4> HIDE DEF q, v
      <4> QED BY <4>1, <4>2 DEF Own
    <3>6. RequestOwn(q)
      <4> HIDE DEF q, v
      <4> QED BY <1>1, <3>4, <3>5 DEF RequestOwn, HasXcfg
    <3>7. Move(t, q)
      BY <2>2 DEF Compute
    <3> HIDE DEF q
    <3> QED BY <3>4, <3>6, <3>7
  <2> QED BY <2>1, <2>2
<1> QED BY <1>2, <1>3, <1>4, Quietly

LEMMA KeepOwn == ASSUME IInv, NEW t \in Threads, Keep(t) PROVE IInv'
<1> DEFINE v == thread[t].value
           entry == [key |-> MemoKey(thread[t]), value |-> v, stored |-> cleared,
                     weight |-> Weigh[v.a, v.b, v.drawn]]
           q == [thread[t] EXCEPT !.pc = "done", !.answer = "shown"]
<1>1. /\ thread[t] \in Request /\ thread[t].pair \in Pairs /\ Own(thread[t])
      /\ thread[t].a \in Contents /\ thread[t].b \in Contents
  BY DEF IInv, TypeOK, Request, RequestOwn, Keep, HasXcfg
<1>2. v \in Value /\ v.a = thread[t].a /\ v.b = thread[t].b
  BY <1>1 DEF Own
<1>3. MemoKey(thread[t]) \in Key
  BY <1>1 DEF MemoKey, Key
<1>4. Weigh[v.a, v.b, v.drawn] \in Nat
  BY <1>2, WeighAssumption DEF Value
<1>5. cleared \in Nat
  BY DEF IInv, TypeOK
<1>6. entry \in Entry /\ entry.value = v /\ entry.key = MemoKey(thread[t])
  <2> HIDE DEF v
  <2> QED BY <1>2, <1>3, <1>4, <1>5 DEF Entry
<1>7. entry.value.a = entry.key[2] /\ entry.value.b = entry.key[3]
  <2> HIDE DEF entry, v
  <2> QED BY <1>2, <1>6 DEF MemoKey
<1>8. Store(entry) /\ Move(t, q) /\ UNCHANGED world
  BY DEF Keep, Answer
<1>9. entries' \subseteq Entry /\ EntriesOwn'
  <2>1. entries \subseteq Entry /\ EntriesOwn
    BY DEF IInv, TypeOK
  <2> HIDE DEF entry
  <2> QED BY <1>6, <1>7, <1>8, <2>1, StoreKeeps
<1>10. /\ q \in Request /\ q.pc = "done" /\ q.value = v /\ q.a = thread[t].a
       /\ q.b = thread[t].b /\ q.kind = thread[t].kind
  BY <1>1 DEF Request
<1>11. RequestOwn(q)
  <2> HIDE DEF q
  <2> QED BY <1>1, <1>10 DEF RequestOwn, Own
<1> HIDE DEF q
<1> QED BY <1>8, <1>9, <1>10, <1>11, Quietly

LEMMA EndOwn == ASSUME IInv, NEW t \in Threads, End(t) PROVE IInv'
<1>1. Move(t, Idle) /\ UNCHANGED <<world, entries>>
  BY DEF End, memo
<1>2. entries' \subseteq Entry /\ EntriesOwn'
  BY <1>1 DEF IInv, TypeOK, EntriesOwn
<1> QED BY <1>1, <1>2, IdleOwn, Quietly

-----------------------------------------------------------------------------

LEMMA NextOwn == IInv /\ [Next]_vars => IInv'
<1> SUFFICES ASSUME IInv, [Next]_vars PROVE IInv'
  OBVIOUS
<1>1. CASE UNCHANGED vars
  BY <1>1 DEF IInv, TypeOK, EntriesOwn, vars, memo
<1>2. ASSUME NEW p \in Pairs, NEW side \in {"a", "b"}, NEW c \in Held, Change(p, side, c)
      PROVE  IInv'
  BY <1>2, ChangeOwn
<1>3. ASSUME NEW p \in Pairs, NEW a \in Held, NEW b \in Held, Submit(p, a, b)
      PROVE  IInv'
  BY <1>3, SubmitOwn
<1>4. CASE RestartElsewhere
  BY <1>4, RestartOwn
<1>5. ASSUME NEW t \in Threads, NEW kind \in {"page", "graph"}, NEW p \in Pairs,
             Begin(t, kind, p)
      PROVE  IInv'
  BY <1>5, BeginOwn
<1>6. ASSUME NEW t \in Threads, Respawn(t) PROVE IInv'
  BY <1>6, RespawnOwn
<1>7. ASSUME NEW t \in Threads, Step(t) PROVE IInv'
  BY <1>7, ForgetOwn, FirstOwn, SecondOwn, LookupOwn, ComputeOwn, KeepOwn, EndOwn DEF Step
<1>8. CASE Quiet
  BY <1>1, <1>8 DEF Quiet
<1> QED BY <1>1, <1>2, <1>3, <1>4, <1>5, <1>6, <1>7, <1>8 DEF Next

\* The memo and every request in flight stay typed, whatever the backend does meanwhile, and
\* every entry stays filed under the contents it was computed of.
THEOREM MemoInvariantHolds == Spec => []IInv
BY InitOwn, NextOwn, PTL DEF Spec

\* Only comparisons of two disassembled functions are ever memoized or shown
\* (functiondiff._has_xcfg).
THEOREM MemoTyped == Spec => []TypeOK
<1>1. IInv => TypeOK
  BY DEF IInv
<1> QED BY <1>1, MemoInvariantHolds, PTL

\* A page never shows a comparison of other contents than it fetched: ids that a reset gave to
\* other functions, or that were recalculated, cannot mislead it (functiondiff._memo_key).
THEOREM ShowsOwnComparison == Spec => []OwnComparison
<1>1. IInv => OwnComparison
  BY DEF IInv, RequestOwn, Own, OwnComparison
<1> QED BY <1>1, MemoInvariantHolds, PTL

-----------------------------------------------------------------------------
(* What a reset forgets.  Whatever the backend holds was submitted since its *)
(* last reset, so a comparison is of functions no older than the request     *)
(* that computed it; and an entry is never kept over a reset of this process. *)

RequestDated(q, now) ==
    /\ q.since <= now
    /\ q.pc = "store" => q.value.since <= q.value.base

EntryDated(e) == e.value.since <= e.value.base /\ e.stored = cleared

Dated ==
    /\ cleared <= epoch
    /\ \A p \in Pairs : backend[p] # None => backend[p].base = epoch
    /\ \A e \in entries : EntryDated(e)
    /\ \A t \in Threads : RequestDated(thread[t], epoch)

\* One request moves; the backend and this process' resets stay as they are.
LEMMA RequestMoves ==
    ASSUME IInv, Dated, NEW t \in Threads, NEW q, Move(t, q), RequestDated(q, epoch),
           UNCHANGED <<backend, epoch, cleared>>, \A e \in entries' : EntryDated(e)
    PROVE  Dated'
<1>1. thread \in [Threads -> Request]
  BY DEF IInv, TypeOK, Request
<1>2. \A s \in Threads : thread'[s] = IF s = t THEN q ELSE thread[s]
  BY <1>1 DEF Move
<1> QED BY <1>2 DEF Dated, EntryDated

LEMMA InitDated == Init => Dated
<1> SUFFICES ASSUME Init PROVE Dated
  OBVIOUS
<1>1. \A t \in Threads : thread[t].since = 0 /\ thread[t].pc = "idle"
  BY DEF Init, Idle
<1>2. \A p \in Pairs : backend[p].base = 0
  BY DEF Init
<1> QED BY <1>1, <1>2 DEF Init, Dated, RequestDated

\* What the backend holds of a pair is of its epoch before and after a change in place.
LEMMA ChangeDated ==
    ASSUME IInv, Dated, NEW p \in Pairs, NEW side \in {"a", "b"}, NEW c \in Held,
           Change(p, side, c)
    PROVE  Dated'
<1>1. backend[p] \in Pair /\ backend[p].base = epoch /\ backend \in [Pairs -> Pair \cup {None}]
  BY DEF IInv, TypeOK, Dated, Change
<1>2. [backend[p] EXCEPT ![side] = c].base = epoch
  <2>1. CASE side = "a"
    BY <1>1, <2>1 DEF Pair
  <2>2. CASE side = "b"
    BY <1>1, <2>2 DEF Pair
  <2> QED BY <2>1, <2>2
<1> DEFINE pair == [backend[p] EXCEPT ![side] = c]
<1>3. backend' = [backend EXCEPT ![p] = pair]
  BY DEF Change
<1> HIDE DEF pair
<1>4. \A r \in Pairs : backend'[r] = IF r = p THEN pair ELSE backend[r]
  BY <1>1, <1>3
<1>5. UNCHANGED <<epoch, cleared, entries, thread>>
  BY DEF Change, memo
<1> QED BY <1>2, <1>4, <1>5 DEF Dated, EntryDated, pair

LEMMA SubmitDated ==
    ASSUME IInv, Dated, NEW p \in Pairs, NEW a \in Held, NEW b \in Held, Submit(p, a, b)
    PROVE  Dated'
<1> DEFINE pair == [a |-> a, b |-> b, base |-> epoch]
<1>1. pair.base = epoch /\ backend' = [backend EXCEPT ![p] = pair]
      /\ backend \in [Pairs -> Pair \cup {None}]
  BY DEF Submit, IInv, TypeOK
<1> HIDE DEF pair
<1>2. \A r \in Pairs : backend'[r] = IF r = p THEN pair ELSE backend[r]
  BY <1>1
<1>3. UNCHANGED <<epoch, cleared, entries, thread>>
  BY DEF Submit, memo
<1> QED BY <1>1, <1>2, <1>3 DEF Dated, EntryDated

\* After a reset of the backend nothing is there whose epoch could be wrong.
LEMMA RestartDated ==
    ASSUME IInv, Dated, Restart, UNCHANGED <<entries, cleared>>,
           \A t \in Threads : RequestDated(thread'[t], epoch + 1)
    PROVE  Dated'
<1>1. epoch \in Nat /\ cleared \in Nat /\ epoch' = epoch + 1
  BY DEF IInv, TypeOK, Restart
<1>2. \A p \in Pairs : backend'[p] = None
  BY DEF Restart
<1> QED BY <1>1, <1>2 DEF Dated, EntryDated

LEMMA OthersLater ==
    ASSUME IInv, Dated, NEW t \in Threads
    PROVE  RequestDated(thread[t], epoch + 1)
<1>1. thread[t].since \in Nat /\ epoch \in Nat
  BY DEF IInv, TypeOK
<1> QED BY <1>1 DEF Dated, RequestDated

LEMMA RespawnDated ==
    ASSUME IInv, Dated, NEW t \in Threads, Respawn(t)
    PROVE  Dated'
<1> DEFINE q == [Idle EXCEPT !.pc = "forget", !.kind = "reset", !.since = epoch + 1]
<1>1. q.pc = "forget" /\ q.since = epoch + 1
  BY DEF Idle
<1>2. Move(t, q) /\ Restart /\ UNCHANGED <<entries, cleared>>
  BY DEF Respawn, memo
<1> HIDE DEF q
<1>3. RequestDated(q, epoch + 1)
  BY <1>1 DEF RequestDated, IInv, TypeOK
<1>4. thread \in [Threads -> Request]
  BY DEF IInv, TypeOK, Request
<1>5. \A s \in Threads : thread'[s] = IF s = t THEN q ELSE thread[s]
  BY <1>2, <1>4 DEF Move
<1>6. \A s \in Threads : RequestDated(thread'[s], epoch + 1)
  BY <1>3, <1>5, OthersLater
<1> QED BY <1>2, <1>6, RestartDated

\* A request that ends is as old as it was.
LEMMA AnswerDated ==
    ASSUME IInv, Dated, NEW t \in Threads, NEW answer, Answer(t, answer),
           UNCHANGED <<backend, epoch, cleared>>, \A e \in entries' : EntryDated(e)
    PROVE  Dated'
<1> DEFINE q == [thread[t] EXCEPT !.pc = "done", !.answer = answer]
<1>1. thread[t] \in Request /\ Move(t, q)
  BY DEF IInv, TypeOK, Request, Answer
<1>2. q.pc = "done" /\ q.since = thread[t].since
  BY <1>1 DEF Request
<1> HIDE DEF q
<1>3. RequestDated(q, epoch)
  BY <1>2 DEF Dated, RequestDated
<1> QED BY <1>1, <1>3, RequestMoves

LEMMA ForgetDated ==
    ASSUME IInv, Dated, NEW t \in Threads, Forget(t)
    PROVE  Dated'
<1> DEFINE q == [thread[t] EXCEPT !.pc = "done", !.answer = "reset"]
<1>1. thread[t] \in Request /\ Move(t, q) /\ thread \in [Threads -> Request]
  BY DEF IInv, TypeOK, Request, Forget, Answer
<1>2. q.pc = "done" /\ q.since = thread[t].since
  BY <1>1 DEF Request
<1> HIDE DEF q
<1>3. RequestDated(q, epoch)
  BY <1>2 DEF Dated, RequestDated
<1>4. \A s \in Threads : thread'[s] = IF s = t THEN q ELSE thread[s]
  BY <1>1 DEF Move
<1>5. entries' = {} /\ UNCHANGED <<backend, epoch>> /\ cleared' <= epoch
  BY DEF Forget, Dated, RequestDated
<1> QED BY <1>3, <1>4, <1>5 DEF Dated

LEMMA BeginDated ==
    ASSUME IInv, Dated, NEW t \in Threads, NEW kind \in {"page", "graph"}, NEW p \in Pairs,
           Begin(t, kind, p)
    PROVE  Dated'
<1> DEFINE fresh == [Idle EXCEPT !.pc = "first", !.kind = kind, !.pair = p,
                                 !.since = cleared]
           both  == [fresh EXCEPT !.a = backend[p].a, !.b = backend[p].b]
<1>1. fresh \in Request /\ fresh.since = cleared /\ fresh.pc = "first"
  <2>1. cleared \in Nat
    BY DEF IInv, TypeOK
  <2>2. fresh \in Request
    BY <2>1, IdleOwn, ZenonT(60) DEF Request
  <2> QED BY <2>2 DEF Idle
<1>2. PICK q : Move(t, q) /\ q.since = cleared /\ q.pc # "store"
  <2>1. CASE backend[p] = None
    <3> DEFINE q == [fresh EXCEPT !.pc = "done", !.answer = "invalid"]
    <3>1. Move(t, q)
      BY <2>1 DEF Begin
    <3>2. q.since = cleared /\ q.pc # "store"
      <4> HIDE DEF fresh
      <4> QED BY <1>1 DEF Request
    <3> QED BY <3>1, <3>2
  <2>2. CASE backend[p] # None /\ kind = "page"
    <3> DEFINE q == [both EXCEPT !.pc = After(both)]
    <3>1. Move(t, q)
      BY <2>2 DEF Begin
    <3>2. backend[p].a \in Held /\ backend[p].b \in Held
      BY <2>2 DEF IInv, TypeOK, Pair
    <3>3. both \in Request /\ both.since = cleared
      <4> HIDE DEF fresh
      <4> QED BY <1>1, <3>2 DEF Request
    <3>4. After(both) # "store"
      BY DEF After
    <3>5. q.since = cleared /\ q.pc # "store"
      <4> HIDE DEF both
      <4> QED BY <3>3, <3>4 DEF Request
    <3> HIDE DEF q
    <3> QED BY <3>1, <3>5
  <2>3. CASE backend[p] # None /\ kind # "page"
    <3>1. Move(t, fresh)
      BY <2>3 DEF Begin
    <3> HIDE DEF fresh
    <3> QED BY <1>1, <3>1
  <2> QED BY <2>1, <2>2, <2>3
<1>3. RequestDated(q, epoch)
  BY <1>2 DEF Dated, RequestDated
<1>4. UNCHANGED <<backend, epoch, cleared, entries>>
  BY DEF Begin, memo
<1>5. \A e \in entries' : EntryDated(e)
  BY <1>4 DEF Dated
<1> QED BY <1>2, <1>3, <1>4, <1>5, RequestMoves

\* A fetch changes nothing of when the request began.
LEMMA FetchDated ==
    ASSUME IInv, Dated, NEW t \in Threads, First(t) \/ Second(t)
    PROVE  Dated'
<1>1. thread[t] \in Request
  BY DEF IInv, TypeOK, Request
<1>2. UNCHANGED <<backend, epoch, cleared>> /\ \A e \in entries' : EntryDated(e)
  BY DEF First, Second, world, memo, Dated
<1>3. PICK q : Move(t, q) /\ q.since = thread[t].since /\ q.pc # "store"
  <2>1. CASE First(t)
    <3> DEFINE next == IF thread[t].b \in Contents THEN "lookup" ELSE "second"
               held == Fetched(thread[t].pair, "a")
               q == [thread[t] EXCEPT !.a = held, !.pc = next]
    <3>1. Move(t, q) /\ next # "store"
      BY <2>1 DEF First
    <3> HIDE DEF next, held
    <3>2. q.since = thread[t].since /\ q.pc # "store"
      BY <1>1, <3>1 DEF Request
    <3> HIDE DEF q
    <3> QED BY <3>1, <3>2
  <2>2. CASE Second(t)
    <3> DEFINE held == Fetched(thread[t].pair, "b")
               q == [thread[t] EXCEPT !.pc = "lookup", !.b = held]
    <3>1. Move(t, q)
      BY <2>2 DEF Second
    <3> HIDE DEF held
    <3>2. q.since = thread[t].since /\ q.pc # "store"
      BY <1>1 DEF Request
    <3> HIDE DEF q
    <3> QED BY <3>1, <3>2
  <2> QED BY <2>1, <2>2
<1>4. RequestDated(q, epoch)
  BY <1>3 DEF Dated, RequestDated
<1> QED BY <1>2, <1>3, <1>4, RequestMoves

\* A graph that is drawn of an entry is as old as the entry.
LEMMA LookupDated ==
    ASSUME IInv, Dated, NEW t \in Threads, Lookup(t)
    PROVE  Dated'
<1>1. thread[t] \in Request /\ RequestDated(thread[t], epoch) /\ thread[t].pc = "lookup"
  BY DEF IInv, TypeOK, Request, Lookup, Dated
<1>2. UNCHANGED <<backend, epoch, cleared>> /\ \A e \in entries' : EntryDated(e)
  BY DEF Lookup, Found, world, memo, Dated
<1>3. CASE Answer(t, "empty")
  BY <1>2, <1>3, AnswerDated
<1>4. CASE Move(t, [thread[t] EXCEPT !.pc = "compute"])
  <2> DEFINE q == [thread[t] EXCEPT !.pc = "compute"]
  <2>1. Move(t, q)
    BY <1>4
  <2>2. q.since = thread[t].since /\ q.pc # "store"
    BY <1>1 DEF Request
  <2> HIDE DEF q
  <2>3. RequestDated(q, epoch)
    BY <1>1, <2>2 DEF RequestDated
  <2> QED BY <1>2, <2>1, <2>3, RequestMoves
<1>5. ASSUME NEW e \in entries,
             IF thread[t].kind = "graph" /\ ~e.value.drawn
             THEN Move(t, [thread[t] EXCEPT !.pc = "store",
                                            !.value = [e.value EXCEPT !.drawn = TRUE]])
             ELSE Move(t, [thread[t] EXCEPT !.pc = "done", !.value = e.value,
                                            !.answer = "shown"])
      PROVE  Dated'
  <2>1. e.value \in Value /\ e.value.since <= e.value.base
    BY DEF IInv, TypeOK, Entry, Dated, EntryDated
  <2>2. CASE thread[t].kind = "graph" /\ ~e.value.drawn
    <3> DEFINE v == [e.value EXCEPT !.drawn = TRUE]
               q == [thread[t] EXCEPT !.pc = "store", !.value = v]
    <3>1. Move(t, q)
      BY <1>5, <2>2
    <3>2. v \in Value /\ v.since <= v.base
      BY <2>1 DEF Value
    <3> HIDE DEF v
    <3>3. q.since = thread[t].since /\ q.value = v
      BY <1>1 DEF Request
    <3> HIDE DEF q
    <3>4. RequestDated(q, epoch)
      BY <1>1, <3>2, <3>3 DEF RequestDated
    <3> QED BY <1>2, <3>1, <3>4, RequestMoves
  <2>3. CASE ~(thread[t].kind = "graph" /\ ~e.value.drawn)
    <3> DEFINE v == e.value
               q == [thread[t] EXCEPT !.pc = "done", !.value = v, !.answer = "shown"]
    <3>1. Move(t, q)
      BY <1>5, <2>3
    <3> HIDE DEF v
    <3>2. q.since = thread[t].since /\ q.pc # "store"
      BY <1>1 DEF Request
    <3> HIDE DEF q
    <3>3. RequestDated(q, epoch)
      BY <1>1, <3>2 DEF RequestDated
    <3> QED BY <1>2, <3>1, <3>3, RequestMoves
  <2> QED BY <2>2, <2>3
<1> QED BY <1>3, <1>4, <1>5 DEF Lookup

\* What is computed is of this epoch, and the request is no younger.
LEMMA ComputeDated ==
    ASSUME IInv, Dated, NEW t \in Threads, Compute(t)
    PROVE  Dated'
<1>1. thread[t] \in Request /\ RequestDated(thread[t], epoch) /\ thread[t].pair \in Pairs
  BY DEF IInv, TypeOK, Request, RequestOwn, Compute, Dated
<1>2. UNCHANGED <<backend, epoch, cleared>> /\ \A e \in entries' : EntryDated(e)
  BY DEF Compute, world, memo, Dated
<1>3. CASE backend[thread[t].pair] = None
  <2>1. Answer(t, "error")
    BY <1>3 DEF Compute
  <2> QED BY <1>2, <2>1, AnswerDated
<1>4. CASE backend[thread[t].pair] # None
  <2> DEFINE v == [a |-> thread[t].a, b |-> thread[t].b,
                   base |-> backend[thread[t].pair].base,
                   drawn |-> thread[t].kind = "graph", since |-> thread[t].since]
             q == [thread[t] EXCEPT !.pc = "store", !.value = v]
  <2>1. Move(t, q)
    BY <1>4 DEF Compute
  <2>2. v.base = epoch /\ v.since = thread[t].since
    BY <1>1, <1>4 DEF Dated
  <2> HIDE DEF v
  <2>3. q.since = thread[t].since /\ q.value = v
    BY <1>1 DEF Request
  <2> HIDE DEF q
  <2>4. RequestDated(q, epoch)
    BY <1>1, <2>2, <2>3 DEF RequestDated
  <2> QED BY <1>2, <2>1, <2>4, RequestMoves
<1> QED BY <1>3, <1>4

LEMMA KeepDated ==
    ASSUME IInv, Dated, NEW t \in Threads, Keep(t)
    PROVE  Dated'
<1> DEFINE v == thread[t].value
           weighed == Weigh[v.a, v.b, v.drawn]
           entry == [key |-> MemoKey(thread[t]), value |-> v, stored |-> cleared,
                     weight |-> weighed]
<1>1. /\ thread[t].pc = "store" /\ Store(entry) /\ Answer(t, "shown")
      /\ UNCHANGED <<backend, epoch, cleared>>
  BY DEF Keep, world
<1>2. entry.value = v /\ entry.stored = cleared /\ v.since <= v.base
  BY <1>1 DEF Dated, RequestDated
<1> HIDE DEF entry
<1>3. entries' \subseteq entries \cup {entry}
  BY <1>1 DEF Store
<1>4. \A e \in entries' : EntryDated(e)
  BY <1>2, <1>3 DEF Dated, EntryDated
<1> QED BY <1>1, <1>4, AnswerDated

LEMMA EndDated ==
    ASSUME IInv, Dated, NEW t \in Threads, End(t)
    PROVE  Dated'
<1>1. Move(t, Idle) /\ UNCHANGED <<backend, epoch, cleared, entries>>
  BY DEF End, world, memo
<1>2. Idle.since = 0 /\ Idle.pc = "idle" /\ epoch \in Nat
  BY DEF Idle, IInv, TypeOK
<1>3. RequestDated(Idle, epoch)
  BY <1>2 DEF RequestDated
<1>4. \A e \in entries' : EntryDated(e)
  BY <1>1 DEF Dated
<1> QED BY <1>1, <1>3, <1>4, RequestMoves

LEMMA NextDated == IInv /\ Dated /\ [Next]_vars => Dated'
<1> SUFFICES ASSUME IInv, Dated, [Next]_vars PROVE Dated'
  OBVIOUS
<1>1. CASE UNCHANGED vars
  BY <1>1 DEF Dated, EntryDated, vars, memo
<1>2. ASSUME NEW p \in Pairs, NEW side \in {"a", "b"}, NEW c \in Held, Change(p, side, c)
      PROVE  Dated'
  BY <1>2, ChangeDated
<1>3. ASSUME NEW p \in Pairs, NEW a \in Held, NEW b \in Held, Submit(p, a, b)
      PROVE  Dated'
  BY <1>3, SubmitDated
<1>4. CASE RestartElsewhere
  <2>1. Restart /\ UNCHANGED <<entries, cleared, thread>>
    BY <1>4 DEF RestartElsewhere, memo
  <2>2. \A t \in Threads : RequestDated(thread'[t], epoch + 1)
    BY <2>1, OthersLater
  <2> QED BY <2>1, <2>2, RestartDated
<1>5. ASSUME NEW t \in Threads, NEW kind \in {"page", "graph"}, NEW p \in Pairs,
             Begin(t, kind, p)
      PROVE  Dated'
  BY <1>5, BeginDated
<1>6. ASSUME NEW t \in Threads, Respawn(t) PROVE Dated'
  BY <1>6, RespawnDated
<1>7. ASSUME NEW t \in Threads, Step(t) PROVE Dated'
  BY <1>7, ForgetDated, FetchDated, LookupDated, ComputeDated, KeepDated, EndDated DEF Step
<1>8. CASE Quiet
  BY <1>1, <1>8 DEF Quiet
<1> QED BY <1>1, <1>2, <1>3, <1>4, <1>5, <1>6, <1>7, <1>8 DEF Next

\* Entries and what the backend holds are dated as they should be, in every reachable state.
THEOREM MemoDated == Spec => []Dated
BY InitOwn, NextOwn, InitDated, NextDated, PTL DEF Spec

\* After this process finished a reset, an entry that is older than the reset is one that a
\* request under way at the time stored when it was over (administration.reset_server,
\* memo.clear_app_memos).
THEOREM ForgetsAtReset == Spec => []ResetForgets
<1>1. ASSUME IInv, Dated, NEW e \in entries, e.value.base < cleared
      PROVE  e.value.since < cleared /\ e.stored >= cleared
  <2>1. /\ e.value.since \in Nat /\ e.value.base \in Nat /\ cleared \in Nat
        /\ e.value.since <= e.value.base /\ e.stored = cleared
    BY <1>1 DEF IInv, TypeOK, Entry, Value, Dated, EntryDated
  <2> QED BY <1>1, <2>1
<1>2. IInv /\ Dated => ResetForgets
  BY <1>1 DEF ResetForgets
<1> QED BY <1>2, MemoInvariantHolds, MemoDated, PTL

-----------------------------------------------------------------------------
(* Weights of sets of entries.                                               *)

Units(set) == UNION {{e} \X (1..e.weight) : e \in set}

LEMMA UnitsOf ==
    ASSUME NEW set
    PROVE  /\ Sum(set) = Cardinality(Units(set))
           /\ \A u : u \in Units(set) <=> \E e \in set : u \in {e} \X (1..e.weight)
  BY DEF Sum, Units

LEMMA UnitsFinite ==
    ASSUME NEW set, IsFiniteSet(set), \A e \in set : e.weight \in Nat
    PROVE  IsFiniteSet(Units(set)) /\ Sum(set) \in Nat
<1> DEFINE heap == [e \in set |-> {e} \X (1..e.weight)]
           heaps == {{e} \X (1..e.weight) : e \in set}
<1>1. heap \in Surjection(set, heaps)
  BY DEF Surjection
<1>2. \A e \in set : IsFiniteSet({e} \X (1..e.weight))
  <2> SUFFICES ASSUME NEW e \in set PROVE IsFiniteSet({e} \X (1..e.weight))
    OBVIOUS
  <2>1. IsFiniteSet(1..e.weight)
    BY FS_Interval
  <2>2. IsFiniteSet({e})
    BY FS_Singleton
  <2> QED BY <2>1, <2>2, FS_Product
<1>3. \A h \in heaps : IsFiniteSet(h)
  BY <1>2
<1> HIDE DEF heap, heaps
<1>4. IsFiniteSet(heaps)
  BY <1>1, FS_Surjection
<1>5. IsFiniteSet(UNION heaps)
  BY <1>3, <1>4, FS_UNION
<1>6. Units(set) = UNION heaps
  BY DEF Units, heaps
<1> QED BY <1>5, <1>6, UnitsOf, FS_CardinalityType

\* Of two sets apart, the weights add up.
LEMMA SumApart ==
    ASSUME NEW one, IsFiniteSet(one), \A e \in one : e.weight \in Nat,
           NEW other, IsFiniteSet(other), \A e \in other : e.weight \in Nat,
           one \cap other = {}
    PROVE  Sum(one \cup other) = Sum(one) + Sum(other)
<1> DEFINE U1 == Units(one)
           U2 == Units(other)
<1>1. Units(one \cup other) = U1 \cup U2 /\ U1 \cap U2 = {}
  BY UnitsOf
<1>2. /\ IsFiniteSet(U1) /\ Sum(one) \in Nat
      /\ IsFiniteSet(U2) /\ Sum(other) \in Nat
  BY UnitsFinite
<1>3. /\ Sum(one) = Cardinality(U1) /\ Sum(other) = Cardinality(U2)
      /\ Sum(one \cup other) = Cardinality(U1 \cup U2)
  BY <1>1, UnitsOf
<1> HIDE DEF U1, U2
<1>4. Cardinality(U1 \cup U2) = Cardinality(U1) + Cardinality(U2) - Cardinality(U1 \cap U2)
  BY <1>2, FS_Union
<1>5. Cardinality(U1 \cap U2) = 0
  BY <1>1, FS_EmptySet
<1> QED BY <1>2, <1>3, <1>4, <1>5

LEMMA SumOfOne ==
    ASSUME NEW e, e.weight \in Nat
    PROVE  Sum({e}) = e.weight
<1> DEFINE n == e.weight
<1>1. Units({e}) = {e} \X (1..n)
  BY UnitsOf
<1>2. IsFiniteSet({e}) /\ Cardinality({e}) = 1
  BY FS_Singleton
<1>3. n \in Nat
  OBVIOUS
<1> HIDE DEF n
<1>4. IsFiniteSet(1..n) /\ Cardinality(1..n) = n
  <2>1. IsFiniteSet(1..n) /\ Cardinality(1..n) = IF 1 > n THEN 0 ELSE n - 1 + 1
    BY <1>3, FS_Interval
  <2> QED BY <1>3, <2>1
<1>5. Cardinality({e} \X (1..n)) = Cardinality({e}) * Cardinality(1..n)
  BY <1>2, <1>4, FS_Product
<1>6. Cardinality({e} \X (1..n)) = n
  BY <1>2, <1>3, <1>4, <1>5
<1> QED BY <1>1, <1>6, UnitsOf DEF n

LEMMA SumOfNone == Sum({}) = 0
<1>1. Units({}) = {}
  BY UnitsOf
<1> QED BY <1>1, UnitsOf, FS_EmptySet

\* What is left of a set weighs what the set does without the rest.
LEMMA SumLess ==
    ASSUME NEW set, IsFiniteSet(set), \A e \in set : e.weight \in Nat,
           NEW less, less \subseteq set
    PROVE  /\ IsFiniteSet(less) /\ IsFiniteSet(set \ less)
           /\ Sum(set) \in Nat /\ Sum(less) \in Nat
           /\ Sum(set \ less) = Sum(set) - Sum(less)
<1>1. IsFiniteSet(less) /\ IsFiniteSet(set \ less)
  BY FS_Subset
<1>2. /\ (set \ less) \cap less = {} /\ (set \ less) \cup less = set
      /\ \A e \in less : e.weight \in Nat
      /\ \A e \in set \ less : e.weight \in Nat
  OBVIOUS
<1> DEFINE rest == set \ less
<1> HIDE DEF rest
<1>3. Sum(rest \cup less) = Sum(rest) + Sum(less)
  BY <1>1, <1>2, SumApart DEF rest
<1>4. Sum(rest) \in Nat /\ Sum(less) \in Nat
  BY <1>1, <1>2, UnitsFinite DEF rest
<1>5. Sum(set) = Sum(rest) + Sum(less)
  BY <1>2, <1>3 DEF rest
<1>6. Sum(rest) = Sum(set) - Sum(less) /\ Sum(set) \in Nat
  BY <1>4, <1>5
<1> QED BY <1>1, <1>4, <1>6 DEF rest
-----------------------------------------------------------------------------
(* The order of the keys.                                                    *)

Distinct(keys) == \A i, j \in DOMAIN keys : keys[i] = keys[j] => i = j
KeysOf(keys) == {keys[i] : i \in DOMAIN keys}

LEMMA WithoutKey ==
    ASSUME NEW keys \in Seq(Key), Distinct(keys), NEW key
    PROVE  /\ Without(keys, key) \in Seq(Key) /\ Distinct(Without(keys, key))
           /\ KeysOf(Without(keys, key)) = KeysOf(keys) \ {key}
<1>1. CASE ~ \E i \in DOMAIN keys : keys[i] = key
  BY <1>1 DEF Without, KeysOf
<1>2. CASE \E i \in DOMAIN keys : keys[i] = key
  <2> DEFINE at == CHOOSE i \in DOMAIN keys : keys[i] = key
             n == Len(keys)
             left == [i \in 1..n - 1 |-> keys[IF i < at THEN i ELSE i + 1]]
  <2>1. at \in DOMAIN keys /\ keys[at] = key
    BY <1>2
  <2>2. Without(keys, key) = left
    BY <1>2 DEF Without
  <2> HIDE DEF at
  <2>3. DOMAIN keys = 1..n /\ n \in Nat /\ n - 1 \in Nat /\ at \in 1..n
    BY <2>1
  <2>4. ASSUME NEW i \in 1..n - 1
        PROVE  /\ left[i] \in Key /\ left[i] # key
               /\ \E j \in 1..n : j # at /\ left[i] = keys[j]
    <3>1. CASE i < at
      <4>1. i \in 1..n /\ i # at /\ left[i] = keys[i]
        BY <2>3, <3>1
      <4> QED BY <2>1, <2>3, <4>1 DEF Distinct
    <3>2. CASE ~(i < at)
      <4>1. i + 1 \in 1..n /\ i + 1 # at /\ left[i] = keys[i + 1]
        BY <2>3, <3>2
      <4> QED BY <2>1, <2>3, <4>1 DEF Distinct
    <3> QED BY <3>1, <3>2
  <2>5. ASSUME NEW j \in 1..n, j # at PROVE \E i \in 1..n - 1 : left[i] = keys[j]
    <3>1. CASE j < at
      <4>1. j \in 1..n - 1 /\ left[j] = keys[j]
        BY <2>3, <3>1
      <4> QED BY <4>1
    <3>2. CASE ~(j < at)
      <4>1. j - 1 \in 1..n - 1 /\ ~(j - 1 < at) /\ (j - 1) + 1 = j
        BY <2>3, <2>5, <3>2
      <4>2. left[j - 1] = keys[j]
        BY <4>1
      <4> QED BY <4>1, <4>2
    <3> QED BY <3>1, <3>2
  <2>6. ASSUME NEW i \in 1..n - 1, NEW j \in 1..n - 1, left[i] = left[j] PROVE i = j
    <3> DEFINE k == IF i < at THEN i ELSE i + 1
               l == IF j < at THEN j ELSE j + 1
    <3>1. k \in 1..n /\ l \in 1..n /\ keys[k] = keys[l]
      BY <2>3, <2>6
    <3>2. k = l
      BY <2>3, <3>1 DEF Distinct
    <3> QED BY <2>3, <3>2
  <2>7. DOMAIN left = 1..n - 1 /\ left \in Seq(Key)
    BY <2>3, <2>4
  <2>8. \A k : k \in KeysOf(left) <=> k \in KeysOf(keys) \ {key}
    <3> HIDE DEF left
    <3>1. \A k \in KeysOf(left) : k \in KeysOf(keys) \ {key}
      BY <2>3, <2>4, <2>7 DEF KeysOf
    <3>2. ASSUME NEW k \in KeysOf(keys) \ {key} PROVE k \in KeysOf(left)
      <4>1. PICK j \in 1..n : k = keys[j]
        BY <2>3 DEF KeysOf
      <4>2. j # at
        BY <2>1, <4>1
      <4> QED BY <2>5, <2>7, <4>1, <4>2 DEF KeysOf
    <3> QED BY <3>1, <3>2
  <2> HIDE DEF left
  <2> QED BY <2>2, <2>6, <2>7, <2>8 DEF Distinct
<1> QED BY <1>1, <1>2

\* A key that is touched is the last.
LEMMA TouchKey ==
    ASSUME NEW keys \in Seq(Key), Distinct(keys), NEW key \in Key
    PROVE  /\ Touch(keys, key) \in Seq(Key) /\ Distinct(Touch(keys, key))
           /\ KeysOf(Touch(keys, key)) = KeysOf(keys) \cup {key}
<1> DEFINE rest == Without(keys, key)
           n == Len(rest)
           next == Append(rest, key)
<1>1. /\ rest \in Seq(Key) /\ Distinct(rest)
      /\ KeysOf(rest) = KeysOf(keys) \ {key}
  BY WithoutKey
<1>2. Touch(keys, key) = next
  BY DEF Touch
<1> HIDE DEF rest
<1>3. /\ next \in Seq(Key) /\ n \in Nat
      /\ DOMAIN rest = 1..n /\ DOMAIN next = 1..n + 1
      /\ \A i \in 1..n : next[i] = rest[i]
      /\ next[n + 1] = key
  BY <1>1
<1> HIDE DEF next
<1>4. \A i \in 1..n : next[i] # key
  BY <1>1, <1>3 DEF KeysOf
<1>5. Distinct(next)
  <2> SUFFICES ASSUME NEW i \in 1..n + 1, NEW j \in 1..n + 1, next[i] = next[j] PROVE i = j
    BY <1>3 DEF Distinct
  <2>1. CASE i \in 1..n /\ j \in 1..n
    BY <1>1, <1>3, <2>1 DEF Distinct
  <2>2. CASE i = n + 1 \/ j = n + 1
    BY <1>3, <1>4, <2>2
  <2> QED BY <1>3, <2>1, <2>2
<1>6. KeysOf(next) = KeysOf(rest) \cup {key}
  <2>1. \A k \in KeysOf(next) : k \in KeysOf(rest) \cup {key}
    BY <1>3 DEF KeysOf
  <2>2. \A k \in KeysOf(rest) : k \in KeysOf(next)
    BY <1>3 DEF KeysOf
  <2>3. n + 1 \in DOMAIN next
    BY <1>3
  <2>4. key \in KeysOf(next)
    BY <1>3, <2>3 DEF KeysOf
  <2> QED BY <2>1, <2>2, <2>4
<1> QED BY <1>1, <1>2, <1>3, <1>5, <1>6
-----------------------------------------------------------------------------
(* The books of the store.                                                   *)

Books ==
    /\ order \in Seq(Key) /\ Distinct(order)
    /\ KeysOf(order) = {e.key : e \in entries}
    /\ \A e, f \in entries : e.key = f.key => e = f
    /\ IsFiniteSet(entries)
    /\ weight = Sum(entries) /\ weight <= MaxWeight

\* A set of naturals that is not empty has a least.
LEMMA LeastOf ==
    ASSUME NEW S, S \subseteq Nat, S # {}
    PROVE  \E n \in S : \A m \in S : n <= m
<1>1. PICK n \in S : \A m \in S : <<m, n>> \notin OpToRel(<, Nat)
  BY WFMin, NatLessThanWellFounded, Zenon
<1>2. \A m \in S : ~ (m < n)
  BY <1>1, Zenon DEF OpToRel
<1> QED BY <1>2

\* Without all of the entries anything fits, so there is a least number to evict.
LEMMA EvictedFits ==
    ASSUME NEW set, IsFiniteSet(set), set \subseteq Entry,
           NEW keys \in Seq(Key), \A e \in set : e.key \in KeysOf(keys)
    PROVE  LET n == Evicted(set, keys, Sum(set))
           IN n \in 0..Len(keys) /\ Sum(set) - Sum(Oldest(set, keys, n)) <= MaxWeight
<1> DEFINE w == Sum(set)
           fits == {n \in 0..Len(keys) : w - Sum(Oldest(set, keys, n)) <= MaxWeight}
           all == Len(keys)
<1>1. all \in Nat /\ DOMAIN keys = 1..all
  OBVIOUS
<1>2. Oldest(set, keys, all) = set
  BY <1>1 DEF Oldest, KeysOf
<1>3. w \in Nat
  BY UnitsFinite DEF Entry
<1> HIDE DEF all
<1>4. w - Sum(Oldest(set, keys, all)) <= MaxWeight
  <2>1. w - Sum(Oldest(set, keys, all)) = w - w
    BY <1>2
  <2> HIDE DEF w
  <2> QED BY <1>3, <2>1, BoundsAssumption
<1>5. all \in 0..Len(keys)
  BY <1>1 DEF all
<1>6. fits # {} /\ fits \subseteq Nat
  BY <1>4, <1>5
<1> HIDE DEF fits
<1>7. \E n \in fits : \A m \in fits : n <= m
  BY <1>6, LeastOf
<1>8. Evicted(set, keys, w) \in fits
  BY <1>7, Zenon DEF Evicted, fits
<1> HIDE DEF w
<1>9. Evicted(set, keys, w) \in 0..Len(keys)
      /\ w - Sum(Oldest(set, keys, Evicted(set, keys, w))) <= MaxWeight
  BY <1>8, Zenon DEF fits
<1> QED BY <1>9 DEF w

\* What popitem(last=False) leaves of the order after n times.
LEMMA OrderLeft ==
    ASSUME NEW keys \in Seq(Key), Distinct(keys), NEW n \in 0..Len(keys)
    PROVE  LET left == SubSeq(keys, n + 1, Len(keys))
           IN /\ left \in Seq(Key) /\ Distinct(left)
              /\ KeysOf(left) = {k \in KeysOf(keys) : ~ \E i \in 1..n : keys[i] = k}
<1> DEFINE left == SubSeq(keys, n + 1, Len(keys))
           l == Len(keys)
<1>1. l \in Nat /\ DOMAIN keys = 1..l /\ n \in Nat /\ n <= l
  OBVIOUS
<1>2. /\ left \in Seq(Key)
      /\ Len(left) = l - n
      /\ \A i \in 1..l - n : left[i] = keys[n + i]
  <2>1. n + 1 \in Int /\ l \in Int
    BY <1>1
  <2>2. \A i \in n + 1 .. l : keys[i] \in Key
    BY <1>1
  <2>3. /\ SubSeq(keys, n + 1, l) \in Seq(Key)
        /\ Len(SubSeq(keys, n + 1, l)) = IF n + 1 <= l THEN l - (n + 1) + 1 ELSE 0
        /\ \A i \in 1 .. l - (n + 1) + 1 : SubSeq(keys, n + 1, l)[i] = keys[(n + 1) + i - 1]
    <3> HIDE DEF l
    <3> QED BY <2>1, <2>2, SubSeqProperties
  <2>4. left = SubSeq(keys, n + 1, l)
    OBVIOUS
  <2> HIDE DEF left, l
  <2>5. l - (n + 1) + 1 = l - n /\ \A i \in 1..l - n : (n + 1) + i - 1 = n + i
    BY <1>1
  <2>6. Len(left) = l - n
    BY <1>1, <2>3, <2>4
  <2> QED BY <2>3, <2>4, <2>5, <2>6
<1> HIDE DEF left
<1>3. DOMAIN left = 1..l - n
  BY <1>2
<1>4. Distinct(left)
  <2> SUFFICES ASSUME NEW i \in 1..l - n, NEW j \in 1..l - n, left[i] = left[j] PROVE i = j
    BY <1>3 DEF Distinct
  <2>1. n + i \in 1..l /\ n + j \in 1..l /\ keys[n + i] = keys[n + j]
    BY <1>1, <1>2
  <2>2. n + i = n + j
    BY <1>1, <2>1 DEF Distinct
  <2> QED BY <1>1, <2>2
<1>5. ASSUME NEW k \in KeysOf(left)
      PROVE  k \in KeysOf(keys) /\ ~ \E i \in 1..n : keys[i] = k
  <2>1. PICK i \in 1..l - n : left[i] = k
    BY <1>3, <1>5 DEF KeysOf
  <2>2. n + i \in 1..l /\ keys[n + i] = k
    BY <1>1, <1>2, <2>1
  <2>3. \A j \in 1..n : j \in 1..l /\ j # n + i
    BY <1>1, <2>2
  <2> QED BY <1>1, <2>2, <2>3 DEF KeysOf, Distinct
<1>6. ASSUME NEW k \in KeysOf(keys), ~ \E i \in 1..n : keys[i] = k
      PROVE  k \in KeysOf(left)
  <2>1. PICK j \in 1..l : keys[j] = k
    BY <1>1 DEF KeysOf
  <2>2. ~(j <= n)
    BY <1>1, <1>6, <2>1
  <2>3. j - n \in 1..l - n /\ n + (j - n) = j
    BY <1>1, <2>2
  <2>4. left[j - n] = k
    BY <1>2, <2>1, <2>3
  <2> QED BY <1>3, <2>3, <2>4 DEF KeysOf
<1>7. KeysOf(left) = {k \in KeysOf(keys) : ~ \E i \in 1..n : keys[i] = k}
  BY <1>5, <1>6
<1> QED BY <1>2, <1>4, <1>7 DEF left

LEMMA StillBooks ==
    ASSUME order' \in Seq(Key), Distinct(order'), KeysOf(order') = {e.key : e \in entries'},
           \A e, f \in entries' : e.key = f.key => e = f,
           IsFiniteSet(entries'), weight' = Sum(entries'), weight' <= MaxWeight
    PROVE  Books'
  BY DEF Books

LEMMA StoreBooks ==
    ASSUME IInv, Books, NEW entry \in Entry, Store(entry)
    PROVE  Books'
<1> DEFINE key  == entry.key
           old  == EntryOf(key)
           rest == entries \ old
           set  == rest \cup {entry}
           keys == Touch(order, key)
           now  == weight - Sum(old)
           n    == Evicted(set, keys, now + entry.weight)
           out  == Oldest(set, keys, n)
<1>1. /\ entries \subseteq Entry /\ key \in Key /\ entry.weight \in Nat
      /\ \A e \in entries : e.weight \in Nat /\ e.key \in Key
  BY DEF IInv, TypeOK, Entry
<1>2. /\ IsFiniteSet(rest) /\ Sum(rest) \in Nat
      /\ now = Sum(rest) /\ Sum(rest) <= MaxWeight
  <2>1. old \subseteq entries
    BY DEF EntryOf
  <2> HIDE DEF old
  <2>2. /\ IsFiniteSet(old) /\ IsFiniteSet(rest)
        /\ Sum(entries) \in Nat /\ Sum(old) \in Nat
        /\ Sum(rest) = Sum(entries) - Sum(old)
    BY <1>1, <2>1, SumLess DEF Books
  <2>3. Sum(rest) \in Nat
    <3>1. \A e \in rest : e.weight \in Nat
      BY <1>1
    <3> HIDE DEF rest
    <3> QED BY <2>2, <3>1, UnitsFinite
  <2>4. weight = Sum(entries) /\ weight <= MaxWeight
    BY DEF Books
  <2> HIDE DEF rest
  <2> QED BY <2>2, <2>3, <2>4, BoundsAssumption
<1>3. /\ rest \subseteq Entry
      /\ \A e \in rest : e.key # key
      /\ \A e, f \in rest : e.key = f.key => e = f
      /\ {e.key : e \in rest} = {e.key : e \in entries} \ {key}
  BY <1>1 DEF EntryOf, Books
<1>4. order \in Seq(Key) /\ Distinct(order) /\ KeysOf(order) = {e.key : e \in entries}
  BY DEF Books
<1> HIDE DEF key, old
<1>5. CASE entry.weight > MaxWeight
  <2>1. entries' = rest /\ order' = Without(order, key) /\ weight' = now
    BY <1>5 DEF Store, key, old
  <2> HIDE DEF rest, now
  <2>2. order' \in Seq(Key) /\ Distinct(order') /\ KeysOf(order') = KeysOf(order) \ {key}
    BY <1>4, <2>1, WithoutKey
  <2>3. KeysOf(order') = {e.key : e \in entries'}
    BY <1>3, <1>4, <2>1, <2>2
  <2>4. \A e, f \in entries' : e.key = f.key => e = f
    BY <1>3, <2>1
  <2>5. IsFiniteSet(entries') /\ weight' = Sum(entries') /\ weight' <= MaxWeight
    BY <1>2, <2>1
  <2> QED BY <2>2, <2>3, <2>4, <2>5, StillBooks
<1>6. CASE ~(entry.weight > MaxWeight)
  <2>1. /\ entries' = set \ out /\ order' = SubSeq(keys, n + 1, Len(keys))
        /\ weight' = now + entry.weight - Sum(out)
    BY <1>6 DEF Store, key, old
  <2>2. /\ IsFiniteSet(set) /\ set \subseteq Entry
        /\ \A e, f \in set : e.key = f.key => e = f
        /\ {e.key : e \in set} = KeysOf(order) \cup {key}
    <3> HIDE DEF rest
    <3>1. IsFiniteSet(set)
      BY <1>2, FS_AddElement
    <3>2. {e.key : e \in set} = {e.key : e \in rest} \cup {key}
      BY DEF key
    <3> QED BY <1>3, <1>4, <3>1, <3>2 DEF key
  <2>3. Sum(set) = now + entry.weight
    <3>1. entry \notin rest
      BY <1>3 DEF key
    <3>2. \A e \in rest : e.weight \in Nat
      BY <1>1
    <3> HIDE DEF rest, now
    <3>3. IsFiniteSet({entry}) /\ rest \cap {entry} = {}
      BY <3>1, FS_Singleton
    <3>4. \A e \in {entry} : e.weight \in Nat
      BY <1>1
    <3>5. Sum(set) = Sum(rest) + Sum({entry})
      BY <1>2, <3>2, <3>3, <3>4, SumApart
    <3>6. Sum({entry}) = entry.weight
      BY <1>1, SumOfOne
    <3> QED BY <1>2, <3>5, <3>6
  <2>4. keys \in Seq(Key) /\ Distinct(keys) /\ KeysOf(keys) = KeysOf(order) \cup {key}
    BY <1>1, <1>4, TouchKey
  <2> HIDE DEF set, keys
  <2>5. n \in 0..Len(keys) /\ Sum(set) - Sum(out) <= MaxWeight
    <3>1. \A e \in set : e.key \in KeysOf(keys)
      BY <2>2, <2>4
    <3> QED BY <2>2, <2>3, <2>4, <3>1, EvictedFits
  <2> HIDE DEF n, now
  <2>6. /\ order' \in Seq(Key) /\ Distinct(order')
        /\ KeysOf(order') = {k \in KeysOf(keys) : ~ \E i \in 1..n : keys[i] = k}
    BY <2>1, <2>4, <2>5, OrderLeft
  <2>7. \A e \in set : e \in out <=> \E i \in 1..n : keys[i] = e.key
    BY DEF Oldest
  <2>8. out \subseteq set
    BY DEF Oldest
  <2> HIDE DEF out
  <2>9. KeysOf(order') = {e.key : e \in entries'}
    <3>1. \A k : k \in KeysOf(keys) <=> \E e \in set : e.key = k
      BY <2>2, <2>4
    <3> QED BY <2>1, <2>6, <2>7, <3>1
  <2>10. \A e, f \in entries' : e.key = f.key => e = f
    BY <2>1, <2>2
  <2>11. /\ IsFiniteSet(entries') /\ weight' = Sum(entries') /\ weight' <= MaxWeight
    <3>1. \A e \in set : e.weight \in Nat
      BY <2>2 DEF Entry
    <3>2. /\ IsFiniteSet(set \ out) /\ Sum(out) \in Nat
          /\ Sum(set \ out) = Sum(set) - Sum(out)
      BY <2>2, <2>8, <3>1, SumLess
    <3>3. weight' = Sum(set) - Sum(out)
      <4>1. now \in Nat /\ entry.weight \in Nat
        BY <1>1, <1>2
      <4> QED BY <2>1, <2>3, <3>2, <4>1
    <3>4. weight' = Sum(set \ out)
      BY <3>2, <3>3
    <3>5. weight' <= MaxWeight
      BY <2>5, <3>3
    <3> QED BY <2>1, <3>2, <3>4, <3>5
  <2> QED BY <2>6, <2>9, <2>10, <2>11, StillBooks
<1> QED BY <1>5, <1>6

\* A hit moves its key to the end.
LEMMA FoundBooks ==
    ASSUME Books, NEW e \in entries, e.key \in Key, Found(e.key)
    PROVE  Books'
<1>1. order' = Touch(order, e.key) /\ UNCHANGED <<entries, weight>>
  BY DEF Found
<1>2. e.key \in KeysOf(order)
  BY DEF Books
<1>3. order' \in Seq(Key) /\ Distinct(order') /\ KeysOf(order') = KeysOf(order)
  BY <1>1, <1>2, TouchKey DEF Books
<1>4. KeysOf(order') = {f.key : f \in entries'}
  BY <1>1, <1>3 DEF Books
<1>5. /\ \A f, g \in entries' : f.key = g.key => f = g
      /\ IsFiniteSet(entries') /\ weight' = Sum(entries') /\ weight' <= MaxWeight
  BY <1>1 DEF Books
<1> QED BY <1>3, <1>4, <1>5, StillBooks

LEMMA EmptyBooks ==
    ASSUME NEW keys, NEW set, keys = <<>>, set = {}
    PROVE  /\ keys \in Seq(Key) /\ Distinct(keys)
           /\ KeysOf(keys) = {e.key : e \in set}
           /\ \A e, f \in set : e.key = f.key => e = f
           /\ IsFiniteSet(set) /\ Sum(set) = 0 /\ 0 <= MaxWeight
<1>1. IsFiniteSet(set)
  BY FS_EmptySet
<1>2. Sum(set) = 0
  BY SumOfNone
<1> QED BY <1>1, <1>2, BoundsAssumption DEF Distinct, KeysOf

LEMMA InitBooks == Init => Books
<1> SUFFICES ASSUME Init PROVE Books
  OBVIOUS
<1>1. order = <<>> /\ entries = {} /\ weight = 0
  BY DEF Init
<1> QED BY <1>1, EmptyBooks DEF Books

LEMMA SameBooks == ASSUME Books, UNCHANGED memo PROVE Books'
  BY DEF Books, memo

LEMMA StepBooks == ASSUME IInv, Books, NEW t \in Threads, Step(t) PROVE Books'
<1>1. CASE Forget(t)
  <2>1. order' = <<>> /\ entries' = {} /\ weight' = 0
    BY <1>1 DEF Forget
  <2> QED BY <2>1, EmptyBooks, StillBooks
<1>2. CASE First(t) \/ Second(t) \/ Compute(t) \/ End(t)
  BY <1>2, SameBooks DEF First, Second, Compute, End
<1>3. CASE Lookup(t)
  <2>1. CASE UNCHANGED memo
    BY <2>1, SameBooks
  <2>2. ASSUME NEW e \in entries, Found(e.key) PROVE Books'
    <3>1. e.key \in Key
      BY DEF IInv, TypeOK, Entry
    <3> QED BY <2>2, <3>1, FoundBooks
  <2> QED BY <1>3, <2>1, <2>2 DEF Lookup
<1>4. CASE Keep(t)
  <2> DEFINE v == thread[t].value
             entry == [key |-> MemoKey(thread[t]), value |-> v, stored |-> cleared,
                       weight |-> Weigh[v.a, v.b, v.drawn]]
  <2>1. /\ thread[t] \in Request /\ thread[t].pair \in Pairs /\ Own(thread[t])
        /\ thread[t].a \in Contents /\ thread[t].b \in Contents
    BY <1>4 DEF IInv, TypeOK, Request, RequestOwn, Keep, HasXcfg
  <2>2. v \in Value /\ MemoKey(thread[t]) \in Key /\ cleared \in Nat
    BY <2>1 DEF Own, MemoKey, Key, IInv, TypeOK
  <2>3. Weigh[v.a, v.b, v.drawn] \in Nat
    BY <2>1, <2>2, WeighAssumption DEF Value, Own
  <2>4. entry \in Entry
    <3> HIDE DEF v
    <3> QED BY <2>2, <2>3 DEF Entry
  <2>5. Store(entry)
    BY <1>4 DEF Keep
  <2> HIDE DEF entry
  <2> QED BY <2>4, <2>5, StoreBooks
<1> QED BY <1>1, <1>2, <1>3, <1>4 DEF Step

LEMMA NextBooks == IInv /\ Books /\ [Next]_vars => Books'
<1> SUFFICES ASSUME IInv, Books, [Next]_vars PROVE Books'
  OBVIOUS
<1>1. CASE UNCHANGED vars
  BY <1>1, SameBooks DEF vars
<1>2. CASE \E p \in Pairs :
             \/ \E side \in {"a", "b"}, c \in Held : Change(p, side, c)
             \/ \E a, b \in Held : Submit(p, a, b)
  BY <1>2, SameBooks DEF Change, Submit
<1>3. CASE RestartElsewhere
  BY <1>3, SameBooks DEF RestartElsewhere
<1>4. ASSUME NEW t \in Threads,
             \/ \E kind \in {"page", "graph"}, p \in Pairs : Begin(t, kind, p)
             \/ Respawn(t)
      PROVE  Books'
  BY <1>4, SameBooks DEF Begin, Respawn
<1>5. ASSUME NEW t \in Threads, Step(t) PROVE Books'
  BY <1>5, StepBooks
<1>6. CASE Quiet
  BY <1>1, <1>6 DEF Quiet
<1> QED BY <1>1, <1>2, <1>3, <1>4, <1>5, <1>6 DEF Next

\* The books are kept: the order holds every key once, the counter weighs the entries.
THEOREM BooksKept == Spec => []Books
BY InitOwn, NextOwn, InitBooks, NextBooks, PTL DEF Spec

\* As many keys as entries.
LEMMA OneKeyEach == ASSUME Books PROVE Len(order) = Cardinality(entries)
<1> DEFINE n == Len(order)
           entry == [i \in 1..n |-> CHOOSE e \in entries : e.key = order[i]]
<1>1. n \in Nat /\ DOMAIN order = 1..n
  BY DEF Books
<1>2. \A i \in 1..n : \E e \in entries : e.key = order[i]
  BY <1>1 DEF Books, KeysOf
<1>3. \A i \in 1..n : entry[i] \in entries /\ entry[i].key = order[i]
  BY <1>2
<1>4. DOMAIN entry = 1..n
  OBVIOUS
<1>5. entry \in [1..n -> entries]
  BY <1>3
<1> HIDE DEF entry
<1>6. \A i, j \in 1..n : entry[i] = entry[j] => i = j
  BY <1>1, <1>3 DEF Books, Distinct
<1>7. \A e \in entries : \E i \in 1..n : entry[i] = e
  <2> SUFFICES ASSUME NEW e \in entries PROVE \E i \in 1..n : entry[i] = e
    OBVIOUS
  <2>1. PICK i \in 1..n : order[i] = e.key
    BY <1>1 DEF Books, KeysOf
  <2> QED BY <1>3, <2>1 DEF Books
<1>8. entry \in Bijection(1..n, entries)
  BY <1>5, <1>6, <1>7 DEF Bijection, Injection, Surjection, IsInjective
<1> HIDE DEF n
<1>9. ExistsBijection(1..n, entries)
  BY <1>8 DEF ExistsBijection
<1>10. Cardinality(entries) = n
  BY <1>1, <1>9, FS_CountingElements
<1> QED BY <1>10 DEF n

\* A store keeps one entry of a key, its order lists exactly these, and the weights it counts
\* are those of its entries and within the bound, however stores, hits and clears of the
\* threads interleave (memo.BoundedMemo).
THEOREM AlwaysWithinBound == Spec => []WithinBound
<1>1. ASSUME Books PROVE WithinBound
  <2>1. Len(order) = Cardinality(entries)
    BY <1>1, OneKeyEach
  <2>2. {order[i] : i \in 1..Len(order)} = {e.key : e \in entries}
    <3>1. DOMAIN order = 1..Len(order)
      BY <1>1 DEF Books
    <3> QED BY <1>1, <3>1 DEF Books, KeysOf
  <2> QED BY <1>1, <2>1, <2>2 DEF Books, WithinBound
<1>2. Books => WithinBound
  BY <1>1
<1> QED BY <1>2, BooksKept, PTL
================================================================================
