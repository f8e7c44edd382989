---------------------------- MODULE ImportPageProofs ----------------------------
(***************************************************************************)
(* Theorems about ImportPage, for every set of files and every number of   *)
(* parallel uploads.                                                       *)
(*                                                                         *)
(* The deferred events are bounded because each one stands for a file: a   *)
(* call of processQueue for a file that was listed, a queuecomplete for an *)
(* upload that ended.  InTurn is inductive beside the types: what          *)
(* processQueue picks is an initial part of the queue no larger than the   *)
(* room there is.  PatientReport is not; Patient says of a reader who      *)
(* waits that all there is on the page concerns the last file listed, and  *)
(* that the session keeps nothing of another import.                       *)
(***************************************************************************)
EXTENDS ImportPage, FiniteSetTheorems, WellFoundedInduction, TLAPS

Of(kinds) == {f \in Files : status[f] \in kinds}

Types ==
    /\ status \in [Files -> Status] /\ server \in [Files -> Outcome]
    /\ files \in Seq(Files)
    /\ cookie \in Files \cup {None} /\ shown \in Files \cup {None} /\ contributor \in BOOLEAN
    /\ page \in {"here", "leaving", "gone"} /\ fresh \in BOOLEAN /\ hasty \in BOOLEAN

\* Dropzone lists what was read, once.
Listed ==
    /\ \A i, j \in DOMAIN files : files[i] = files[j] => i = j
    /\ \A f \in Files :
        (\E i \in DOMAIN files : files[i] = f) <=> status[f] \notin {"none", "reading", "unreadable"}

\* Each deferred event is for a file of its own.
Deferred ==
    /\ processing \in Nat /\ processing <= Len(files)
    /\ completing \in Nat /\ completing <= Cardinality(Of({"success", "error", "removed"}))

Busy == {"reading", "queued", "uploading"}

\* The last file listed is one of some statuses.
LastIs(kinds) == files # <<>> /\ status[Last(files)] \in kinds

\* What the page takes the answer to an upload for.
Taken(f) == IF server[f] \in {"imported", "redirected"} THEN "success" ELSE "error"

\* Nobody dropped files together or before the page was quiet.
Patient ==
    /\ \A f, g \in Of(Busy) : f = g
    /\ Of(Busy) # {} => completing = 0 /\ page = "here"
    /\ \A f \in Of({"queued", "uploading", "error"}) : f = Last(files)
    /\ page = "here" /\ completing = 0 => ~LastIs({"success"})
    /\ page # "gone" /\ LastIs({"success"}) =>
        /\ server[Last(files)] \in {"imported", "redirected"}
        /\ server[Last(files)] = "imported" => cookie = Last(files)
    /\ page # "gone" /\ cookie # None =>
        /\ server[cookie] \in {"imported", "refused"}
        /\ server[cookie] = "imported" => LastIs({"success"}) /\ cookie = Last(files)
    /\ page # "gone" => shown = None
    /\ completing > 0 => LastIs({"success", "error"})
    /\ page = "leaving" => LastIs({"success"})
    /\ page = "gone" =>
        /\ files # <<>> /\ server[Last(files)] \in {"imported", "redirected"}
        /\ contributor /\ server[Last(files)] = "imported" => shown = Last(files)
        /\ shown # None /\ server[shown] = "imported" => shown = Last(files)

TypeInv == Types /\ Listed /\ Deferred
-----------------------------------------------------------------------------
(* The operators.                                                           *)

\* Some positions of a list have a last one.
LEMMA LastPosition ==
    ASSUME NEW n \in Nat, NEW S, S \subseteq 1..n, S # {}
    PROVE  \E m \in S : \A j \in S : j <= m
<1> DEFINE T == {n - i : i \in S}
<1>1. T \subseteq Nat /\ T # {}
  <2>1. \A i \in S : n - i \in Nat
    OBVIOUS
  <2> QED BY <2>1
<1>2. PICK x \in T : \A y \in T : <<y, x>> \notin OpToRel(<, Nat)
  <2> HIDE DEF T
  <2> QED BY <1>1, WFMin, NatLessThanWellFounded, Zenon
<1>3. PICK m \in S : x = n - m
  BY <1>2
<1>4. \A j \in S : ~ (n - j < n - m)
  <2> TAKE j \in S
  <2>1. n - j \in T /\ n - j \in Nat /\ n - m \in Nat
    BY <1>1
  <2>2. <<n - j, n - m>> \notin OpToRel(<, Nat)
    BY <2>1, <1>2, <1>3
  <2> QED BY <2>1, <2>2, Zenon DEF OpToRel
<1> QED BY <1>4

\* The positions that have no more than room of a list's at or before them are no more than room.
LEMMA FirstFew ==
    ASSUME NEW n \in Nat, NEW Q, Q \subseteq 1..n, NEW room \in Nat
    PROVE  LET few == {j \in Q : Cardinality(Q \cap 1..j) <= room}
           IN IsFiniteSet(few) /\ Cardinality(few) <= room
<1> DEFINE few == {j \in Q : Cardinality(Q \cap 1..j) <= room}
<1>1. IsFiniteSet(1..n)
  BY FS_Interval
<1>2. IsFiniteSet(few) /\ few \subseteq 1..n
  <2>1. few \in SUBSET (1..n)
    OBVIOUS
  <2> QED BY <1>1, <2>1, FS_Subset
<1>3. ASSUME few = {} PROVE Cardinality(few) <= room
  <2>1. IsFiniteSet({}) /\ Cardinality({}) = 0
    BY FS_EmptySet
  <2>2. Cardinality(few) = 0
    <3> HIDE DEF few
    <3> QED BY <1>3, <2>1
  <2> HIDE DEF few
  <2> QED BY <1>2, <2>2
<1>4. ASSUME few # {} PROVE Cardinality(few) <= room
  <2>1. PICK m \in few : \A j \in few : j <= m
    <3> HIDE DEF few
    <3> QED BY <1>2, <1>4, LastPosition
  <2>2. few \in SUBSET (Q \cap 1..m)
    <3> SUFFICES ASSUME NEW j \in few
                 PROVE  j \in Q \cap 1..m
      OBVIOUS
    <3>1. j \in Q /\ j \in 1..n /\ m \in 1..n
      BY <1>2
    <3>2. j <= m
      BY <2>1
    <3> QED BY <3>1, <3>2
  <2>3. IsFiniteSet(Q \cap 1..m)
    <3>1. Q \cap 1..m \in SUBSET (1..n)
      OBVIOUS
    <3> QED BY <1>1, <3>1, FS_Subset
  <2>4. Cardinality(few) <= Cardinality(Q \cap 1..m)
    <3> HIDE DEF few
    <3> QED BY <2>2, <2>3, FS_Subset
  <2>5. Cardinality(Q \cap 1..m) <= room
    BY <2>1
  <2>6. Cardinality(few) \in Nat /\ Cardinality(Q \cap 1..m) \in Nat
    <3> HIDE DEF few
    <3> QED BY <1>2, <2>3, FS_CardinalityType
  <2> HIDE DEF few
  <2> QED BY <1>2, <2>4, <2>5, <2>6
<1>5. IsFiniteSet(few) /\ Cardinality(few) <= room
  <2> HIDE DEF few
  <2> QED BY <1>2, <1>3, <1>4
<1> QED BY <1>5

\* What a list holds at some positions is no more than the positions.
LEMMA FilesAt ==
    ASSUME NEW list \in Seq(Files), NEW I, I \subseteq DOMAIN list, IsFiniteSet(I)
    PROVE  LET at == {list[i] : i \in I}
           IN IsFiniteSet(at) /\ Cardinality(at) <= Cardinality(I)
<1> DEFINE at  == {list[i] : i \in I}
           map == [i \in I |-> list[i]]
<1>1. map \in Surjection(I, at)
  BY DEF Surjection
<1> HIDE DEF at, map
<1>2. IsFiniteSet(at) /\ Cardinality(at) <= Cardinality(I)
  BY <1>1, FS_Surjection
<1> QED BY <1>2 DEF at

Under(list, st) == {f \in ToSet(list) : st[f] = "uploading"}

LEMMA SomeFiles ==
    ASSUME NEW S, S \subseteq Files
    PROVE  IsFiniteSet(S) /\ Cardinality(S) \in Nat
<1>1. S \in SUBSET Files
  OBVIOUS
<1>2. IsFiniteSet(Files)
  BY PageAssumption
<1>3. IsFiniteSet(S)
  BY <1>1, <1>2, FS_Subset
<1> QED BY <1>3, FS_CardinalityType

LEMMA ListedFiles ==
    ASSUME NEW list \in Seq(Files)
    PROVE  ToSet(list) \subseteq Files /\ \A i \in DOMAIN list : list[i] \in ToSet(list)
BY DEF ToSet

\* processQueue picks what is queued, and no more than there is room for.
LEMMA ProcessedFits ==
    ASSUME NEW list \in Seq(Files), NEW st \in [Files -> Status]
    PROVE  /\ Processed(list, st) \subseteq {f \in ToSet(list) : st[f] = "queued"}
           /\ Cardinality(Under(list, st)) <= ParallelUploads =>
                Cardinality(Under(list, st)) + Cardinality(Processed(list, st)) <= ParallelUploads
<1> DEFINE queued == {i \in DOMAIN list : st[list[i]] = "queued"}
           room   == ParallelUploads - Cardinality(Under(list, st))
           few    == {j \in queued : Cardinality(queued \cap 1..j) <= room}
<1>1. Processed(list, st) = {list[i] : i \in few}
  BY DEF Processed, Under
<1>2. Processed(list, st) \subseteq {f \in ToSet(list) : st[f] = "queued"}
  <2>1. \A i \in few : i \in DOMAIN list /\ st[list[i]] = "queued"
    OBVIOUS
  <2> HIDE DEF few
  <2> QED BY <1>1, <2>1, ListedFiles
<1>3. ASSUME Cardinality(Under(list, st)) <= ParallelUploads
      PROVE  Cardinality(Under(list, st)) + Cardinality(Processed(list, st)) <= ParallelUploads
  <2>1. Cardinality(Under(list, st)) \in Nat
    <3>1. Under(list, st) \subseteq Files
      BY ListedFiles DEF Under
    <3> QED BY <3>1, SomeFiles
  <2>2. room \in Nat
    BY <1>3, <2>1, PageAssumption
  <2>3. Len(list) \in Nat /\ DOMAIN list = 1..Len(list) /\ queued \subseteq 1..Len(list)
    OBVIOUS
  <2>4. IsFiniteSet(few) /\ Cardinality(few) <= room
    <3> HIDE DEF queued, room
    <3> QED BY <2>2, <2>3, FirstFew
  <2>5. few \subseteq DOMAIN list
    OBVIOUS
  <2>6. Cardinality({list[i] : i \in few}) <= Cardinality(few) /\ IsFiniteSet({list[i] : i \in few})
    <3> HIDE DEF few
    <3> QED BY <2>4, <2>5, FilesAt
  <2>7. Cardinality({list[i] : i \in few}) \in Nat /\ Cardinality(few) \in Nat
    <3> HIDE DEF few
    <3> QED BY <2>4, <2>6, FS_CardinalityType
  <2> HIDE DEF few
  <2>8. Cardinality(Processed(list, st)) <= room
    <3> HIDE DEF room
    <3> QED BY <1>1, <2>2, <2>4, <2>6, <2>7
  <2>9. Cardinality(Processed(list, st)) \in Nat
    BY <1>1, <2>7
  <2> QED BY <2>1, <2>8, <2>9, PageAssumption
<1> QED BY <1>2, <1>3

\* processQueue turns some of what is queued into uploads, and makes no more than there may be.
LEMMA ProcessQueueSends ==
    ASSUME NEW list \in Seq(Files), NEW st \in [Files -> Status]
    PROVE  /\ processQueue(list, st) \in [Files -> Status]
           /\ \A f \in Files :
                \/ processQueue(list, st)[f] = st[f]
                \/ st[f] = "queued" /\ processQueue(list, st)[f] = "uploading"
           /\ Cardinality(Under(list, st)) <= ParallelUploads =>
                Cardinality(Under(list, processQueue(list, st))) <= ParallelUploads
<1> DEFINE sent  == Processed(list, st)
           after == processQueue(list, st)
<1>1. sent \subseteq {f \in ToSet(list) : st[f] = "queued"} /\ sent \subseteq Files
  BY ProcessedFits, ListedFiles
<1>2. after = [f \in Files |-> IF f \in sent THEN "uploading" ELSE st[f]]
  BY DEF processQueue
<1> HIDE DEF sent, after
<1>3. after \in [Files -> Status]
  BY <1>2 DEF Status
<1>4. \A f \in Files :
        \/ after[f] = st[f]
        \/ st[f] = "queued" /\ after[f] = "uploading"
  BY <1>1, <1>2
<1>5. ASSUME Cardinality(Under(list, st)) <= ParallelUploads
      PROVE  Cardinality(Under(list, after)) <= ParallelUploads
  <2>1. Under(list, after) = Under(list, st) \cup sent
    BY <1>1, <1>2, ListedFiles DEF Under
  <2>2. Under(list, st) \subseteq Files
    BY ListedFiles DEF Under
  <2>3. /\ IsFiniteSet(Under(list, st)) /\ Cardinality(Under(list, st)) \in Nat
        /\ IsFiniteSet(sent) /\ Cardinality(sent) \in Nat
    BY <1>1, <2>2, SomeFiles
  <2>4. Under(list, st) \cap sent \subseteq Files
    BY <2>2
  <2>5. Cardinality(Under(list, st) \cap sent) \in Nat
    BY <2>4, SomeFiles
  <2>6. Cardinality(Under(list, st) \cup sent)
          = Cardinality(Under(list, st)) + Cardinality(sent) - Cardinality(Under(list, st) \cap sent)
    BY <2>3, FS_Union
  <2>7. Cardinality(Under(list, st)) + Cardinality(sent) <= ParallelUploads
    BY <1>5, ProcessedFits DEF sent
  <2> QED BY <2>1, <2>3, <2>5, <2>6, <2>7, PageAssumption
<1> QED BY <1>3, <1>4, <1>5 DEF after

\* What the answer to an upload makes of the files.
LEMMA AnsweredSays ==
    ASSUME TypeInv, NEW f \in Files, Answered(f)
    PROVE  /\ status' \in [Files -> Status]
           /\ status[f] = "uploading"
           /\ status'[f] = Taken(f)
           /\ \A g \in Files \ {f} :
                \/ status'[g] = status[g]
                \/ status[g] = "queued" /\ status'[g] = "uploading"
           /\ completing' \in {completing, completing + 1}
           /\ (\A g \in Files \ {f} : status[g] \notin {"queued", "uploading"}) =>
                completing' = completing + 1
<1> DEFINE st == [status EXCEPT ![f] = Taken(f)]
<1>1. st \in [Files -> Status] /\ files \in Seq(Files)
  BY DEF TypeInv, Types, Status, Taken
<1>2. status' = processQueue(files, st)
  BY DEF Answered, GoOn, Taken
<1>3. /\ completing' \in {completing, completing + 1}
      /\ NothingLeft(files, st) => completing' = completing + 1
  <2>1. completing' = completing + IF NothingLeft(files, st) THEN 1 ELSE 0
    BY DEF Answered, Taken
  <2> QED BY <2>1 DEF TypeInv, Deferred
<1>4. /\ st[f] = Taken(f)
      /\ \A g \in Files \ {f} : st[g] = status[g]
  BY DEF TypeInv, Types
<1>5. st[f] \notin {"queued", "uploading"}
  BY <1>4 DEF Taken
<1> HIDE DEF st
<1>6. /\ status' \in [Files -> Status]
      /\ \A g \in Files :
            \/ status'[g] = st[g]
            \/ st[g] = "queued" /\ status'[g] = "uploading"
  BY <1>1, <1>2, ProcessQueueSends
<1>7. status[f] = "uploading"
  BY DEF Answered
<1>8. ASSUME \A g \in Files \ {f} : status[g] \notin {"queued", "uploading"}
      PROVE  completing' = completing + 1
  <2>1. \A i \in DOMAIN files : files[i] \in Files
    BY <1>1
  <2>2. \A g \in Files : st[g] \notin {"queued", "uploading"}
    BY <1>4, <1>5, <1>8
  <2> QED BY <1>3, <2>1, <2>2 DEF NothingLeft
<1> QED BY <1>3, <1>4, <1>5, <1>6, <1>7, <1>8

\* What a file that was read makes of the files.
LEMMA AddedSays ==
    ASSUME TypeInv, NEW f \in Files, Added(f)
    PROVE  /\ status' \in [Files -> Status]
           /\ status[f] = "reading" /\ status'[f] = "queued"
           /\ \A g \in Files \ {f} :
                status'[g] = IF status[g] = "error" THEN "removed" ELSE status[g]
<1>1. status' = [g \in Files |-> CASE g = f -> "queued"
                                   [] g \in Leftovers -> "removed"
                                   [] OTHER -> status[g]]
  BY Zenon DEF Added
<1>2. status'[f] = "queued"
  <2>1. f \notin Leftovers
    BY DEF Added, Leftovers, getFilesWithStatus
  <2> QED BY <1>1, <2>1
<1>3. \A g \in Files \ {f} : g \in Leftovers <=> status[g] = "error"
  <2>1. \A g \in Files : status[g] = "error" => \E i \in DOMAIN files : files[i] = g
    BY DEF TypeInv, Listed
  <2>2. \A g \in Files : status[g] = "error" => g \in ToSet(files)
    BY <2>1 DEF ToSet
  <2> QED BY <2>2 DEF Leftovers, getFilesWithStatus
<1>4. \A g \in Files \ {f} : status'[g] = IF status[g] = "error" THEN "removed" ELSE status[g]
  <2> SUFFICES ASSUME NEW g \in Files \ {f}
               PROVE  status'[g] = IF status[g] = "error" THEN "removed" ELSE status[g]
    OBVIOUS
  <2>1. CASE g \in Leftovers
    BY <1>1, <1>3, <2>1
  <2>2. CASE g \notin Leftovers
    BY <1>1, <1>3, <2>2
  <2> QED BY <2>1, <2>2
<1>5. status' \in [Files -> Status]
  <2>1. \A g \in Files : status'[g] \in Status
    BY <1>2, <1>4 DEF TypeInv, Types, Status
  <2>2. status' = [g \in Files |-> status'[g]]
    BY <1>1
  <2> QED BY <2>1, <2>2
<1>6. status[f] = "reading"
  BY DEF Added
<1> QED BY <1>2, <1>4, <1>5, <1>6

LEMMA SentSays ==
    ASSUME TypeInv, ProcessLater
    PROVE  /\ status' \in [Files -> Status]
           /\ \A g \in Files :
                \/ status'[g] = status[g]
                \/ status[g] = "queued" /\ status'[g] = "uploading"
BY ProcessQueueSends DEF TypeInv, Types, ProcessLater

LEMMA DropSays ==
    ASSUME TypeInv, Drop
    PROVE  /\ status' \in [Files -> Status]
           /\ \A g \in Files :
                \/ status'[g] = status[g]
                \/ status[g] = "none" /\ status'[g] = "reading"
BY DEF TypeInv, Types, Drop, Status

LEMMA NotReadSays ==
    ASSUME TypeInv, NEW f \in Files, NotRead(f)
    PROVE  /\ status' \in [Files -> Status]
           /\ status[f] = "reading" /\ status'[f] = "unreadable"
           /\ \A g \in Files \ {f} : status'[g] = status[g]
BY DEF TypeInv, Types, NotRead, Status

-----------------------------------------------------------------------------
(* The types.                                                               *)

LEMMA InitTypes == Init => TypeInv
<1> SUFFICES ASSUME Init
             PROVE  TypeInv
  OBVIOUS
<1>1. Types
  <2>1. status \in [Files -> Status] /\ server \in [Files -> Outcome]
    BY DEF Init, Status, Outcome
  <2>2. files \in Seq(Files)
    BY DEF Init
  <2> QED BY <2>1, <2>2 DEF Init, Types
<1>2. Listed
  BY DEF Init, Listed
<1>3. Deferred
  <2>1. Of({"success", "error", "removed"}) \subseteq Files
    BY DEF Of
  <2>2. Cardinality(Of({"success", "error", "removed"})) \in Nat
    BY <2>1, SomeFiles
  <2>3. processing = 0 /\ completing = 0 /\ Len(files) = 0
    BY DEF Init
  <2> QED BY <2>2, <2>3 DEF Deferred
<1> QED BY <1>1, <1>2, <1>3 DEF TypeInv

LEMMA TypesStep ==
    ASSUME TypeInv, [Next]_vars
    PROVE  Types'
<1> USE DEF TypeInv, Types
<1>1. CASE Drop
  BY <1>1, DropSays DEF Drop
<1>2. CASE ProcessLater
  BY <1>2, SentSays DEF ProcessLater
<1>3. CASE QueueComplete
  BY <1>3 DEF QueueComplete
<1>4. CASE ImportComplete
  BY <1>4 DEF ImportComplete
<1>5. ASSUME NEW f \in Files, Added(f)
      PROVE  Types'
  BY <1>5, AddedSays DEF Added
<1>6. ASSUME NEW f \in Files, NotRead(f)
      PROVE  Types'
  BY <1>6, NotReadSays DEF NotRead
<1>7. ASSUME NEW f \in Files, Import(f)
      PROVE  Types'
  BY <1>7 DEF Import, Outcome
<1>8. ASSUME NEW f \in Files, Answered(f)
      PROVE  Types'
  <2>1. status' \in [Files -> Status]
    BY <1>8, AnsweredSays
  <2>2. cookie' \in Files \cup {None} /\ fresh' \in BOOLEAN
    BY <1>8 DEF Answered
  <2> QED BY <1>8, <2>1, <2>2 DEF Answered
<1>9. CASE UNCHANGED vars
  BY <1>9 DEF vars
<1>10. CASE Dismiss
  BY <1>10 DEF Dismiss
<1> QED BY <1>1, <1>2, <1>3, <1>4, <1>5, <1>6, <1>7, <1>8, <1>9, <1>10 DEF Next

Unlisted == {"none", "reading", "unreadable"}

\* The list stays right while no file enters or leaves it.
LEMMA SameList ==
    ASSUME Listed, UNCHANGED files,
           \A f \in Files : status'[f] \in Unlisted <=> status[f] \in Unlisted
    PROVE  Listed'
BY DEF Listed, Unlisted

LEMMA ListedStep ==
    ASSUME TypeInv, [Next]_vars
    PROVE  Listed'
<1>0. Listed
  BY DEF TypeInv
<1>1. CASE Drop
  BY <1>0, <1>1, DropSays, SameList DEF Drop, Unlisted
<1>2. CASE ProcessLater
  BY <1>0, <1>2, SentSays, SameList DEF ProcessLater, Unlisted
<1>3. CASE UNCHANGED <<status, files>>
  BY <1>0, <1>3, SameList
<1>5. ASSUME NEW f \in Files, Added(f)
      PROVE  Listed'
  <2>1. /\ status[f] = "reading" /\ status'[f] = "queued"
        /\ \A g \in Files \ {f} : status'[g] = IF status[g] = "error" THEN "removed" ELSE status[g]
    BY <1>5, AddedSays
  <2>2. /\ files \in Seq(Files) /\ files' = Append(files, f)
        /\ DOMAIN files' = 1..(Len(files) + 1) /\ DOMAIN files = 1..Len(files) /\ Len(files) \in Nat
        /\ files'[Len(files) + 1] = f
        /\ \A i \in DOMAIN files : files'[i] = files[i]
    BY <1>5 DEF TypeInv, Types, Added
  <2>3. \A i \in DOMAIN files : files[i] # f
    BY <1>0, <2>1 DEF Listed
  <2>4. \A i, j \in DOMAIN files' : files'[i] = files'[j] => i = j
    <3> SUFFICES ASSUME NEW i \in DOMAIN files', NEW j \in DOMAIN files', files'[i] = files'[j]
                 PROVE  i = j
      OBVIOUS
    <3>1. i \in DOMAIN files \/ i = Len(files) + 1
      BY <2>2
    <3>2. j \in DOMAIN files \/ j = Len(files) + 1
      BY <2>2
    <3> QED BY <1>0, <2>2, <2>3, <3>1, <3>2 DEF Listed
  <2>5. ASSUME NEW g \in Files
        PROVE  (\E i \in DOMAIN files' : files'[i] = g)
                 <=> status'[g] \notin {"none", "reading", "unreadable"}
    <3>1. CASE g = f
      <4>1. Len(files) + 1 \in DOMAIN files'
        BY <2>2
      <4> QED BY <2>1, <2>2, <3>1, <4>1
    <3>2. CASE g # f
      <4>1. (\E i \in DOMAIN files' : files'[i] = g) <=> (\E i \in DOMAIN files : files[i] = g)
        <5>1. \A i \in DOMAIN files' : i \in DOMAIN files \/ files'[i] = f
          BY <2>2
        <5>2. DOMAIN files \subseteq DOMAIN files'
          BY <2>2
        <5> QED BY <2>2, <3>2, <5>1, <5>2
      <4>2. (\E i \in DOMAIN files : files[i] = g) <=> status[g] \notin {"none", "reading", "unreadable"}
        BY <1>0 DEF Listed
      <4>3. status'[g] = IF status[g] = "error" THEN "removed" ELSE status[g]
        BY <2>1, <3>2
      <4> QED BY <4>1, <4>2, <4>3
    <3> QED BY <3>1, <3>2
  <2> QED BY <2>4, <2>5 DEF Listed
<1>6. ASSUME NEW f \in Files, NotRead(f)
      PROVE  Listed'
  BY <1>0, <1>6, NotReadSays, SameList DEF NotRead, Unlisted
<1>8. ASSUME NEW f \in Files, Answered(f)
      PROVE  Listed'
  <2>1. \A g \in Files : status'[g] \in Unlisted <=> status[g] \in Unlisted
    BY <1>8, AnsweredSays DEF Unlisted, Taken
  <2> QED BY <1>0, <1>8, <2>1, SameList DEF Answered
<1> QED
  BY <1>1, <1>2, <1>3, <1>5, <1>6, <1>8
  DEF Next, vars, QueueComplete, ImportComplete, Import, Dismiss

Ended == {"success", "error", "removed"}

\* What has ended stays ended.
LEMMA EndedStays ==
    ASSUME Deferred, UNCHANGED <<files, processing, completing>>,
           \A f \in Files : status'[f] \in Ended <=> status[f] \in Ended
    PROVE  Deferred'
<1>1. Of(Ended)' = Of(Ended)
  BY DEF Of, Ended
<1>2. Cardinality(Of(Ended))' = Cardinality(Of(Ended))
  BY <1>1
<1> QED BY <1>2 DEF Deferred, Ended

LEMMA DeferredStep ==
    ASSUME TypeInv, [Next]_vars
    PROVE  Deferred'
<1>0. Deferred /\ files \in Seq(Files) /\ status \in [Files -> Status]
  BY DEF TypeInv, Types
<1>e. Of(Ended) \subseteq Files /\ Cardinality(Of(Ended)) \in Nat /\ IsFiniteSet(Of(Ended))
  <2>1. Of(Ended) \subseteq Files
    BY DEF Of
  <2> QED BY <2>1, SomeFiles
<1>1. CASE Drop
  BY <1>0, <1>1, DropSays, EndedStays DEF Drop, Ended
<1>2. CASE ProcessLater
  <2>1. Of(Ended)' = Of(Ended)
    BY <1>2, SentSays DEF Of, Ended
  <2>2. Cardinality(Of(Ended))' = Cardinality(Of(Ended))
    BY <2>1
  <2>3. processing' = processing - 1 /\ processing > 0 /\ UNCHANGED <<files, completing>>
    BY <1>2 DEF ProcessLater
  <2> QED BY <1>0, <2>2, <2>3 DEF Deferred, Ended
<1>3. CASE QueueComplete
  <2>1. Of(Ended)' = Of(Ended)
    BY <1>3 DEF QueueComplete, Of
  <2>2. Cardinality(Of(Ended))' = Cardinality(Of(Ended))
    BY <2>1
  <2>3. completing' = completing - 1 /\ completing > 0 /\ UNCHANGED <<files, processing>>
    BY <1>3 DEF QueueComplete
  <2> QED BY <1>0, <1>e, <2>2, <2>3 DEF Deferred, Ended
<1>4. CASE UNCHANGED <<status, files, processing, completing>>
  BY <1>0, <1>4, EndedStays
<1>5. ASSUME NEW f \in Files, Added(f)
      PROVE  Deferred'
  <2>1. Of(Ended)' = Of(Ended)
    BY <1>5, AddedSays DEF Of, Ended
  <2>2. Cardinality(Of(Ended))' = Cardinality(Of(Ended))
    BY <2>1
  <2>3. processing' = processing + 1 /\ files' = Append(files, f) /\ completing' = completing
    BY <1>5 DEF Added
  <2>4. Len(files') = Len(files) + 1 /\ Len(files) \in Nat
    BY <1>0, <2>3
  <2> QED BY <1>0, <2>2, <2>3, <2>4 DEF Deferred, Ended
<1>6. ASSUME NEW f \in Files, NotRead(f)
      PROVE  Deferred'
  BY <1>0, <1>6, NotReadSays, EndedStays DEF NotRead, Ended
<1>8. ASSUME NEW f \in Files, Answered(f)
      PROVE  Deferred'
  <2>1. Of(Ended)' = Of(Ended) \cup {f} /\ f \notin Of(Ended)
    BY <1>8, AnsweredSays DEF Of, Ended, Taken
  <2>2. Cardinality(Of(Ended) \cup {f}) = Cardinality(Of(Ended)) + 1
    BY <1>e, <2>1, FS_AddElement
  <2>3. Cardinality(Of(Ended))' = Cardinality(Of(Ended)) + 1
    BY <2>1, <2>2
  <2>4. completing' \in {completing, completing + 1} /\ UNCHANGED <<files, processing>>
    BY <1>8, AnsweredSays DEF Answered
  <2> QED BY <1>0, <1>e, <2>3, <2>4 DEF Deferred, Ended
<1> QED
  BY <1>1, <1>2, <1>3, <1>4, <1>5, <1>6, <1>8
  DEF Next, vars, ImportComplete, Import, Dismiss

LEMMA TypeInvStep == TypeInv /\ [Next]_vars => TypeInv'
BY TypesStep, ListedStep, DeferredStep DEF TypeInv

THEOREM TypesInvariant == Spec => []TypeInv
<1>1. TypeInv /\ [Next]_vars => TypeInv'
  BY TypeInvStep
<1> QED BY <1>1, InitTypes, PTL DEF Spec

\* As many files are listed as there are at most.
LEMMA ListIsShort ==
    ASSUME TypeInv
    PROVE  Len(files) <= Cardinality(Files)
<1>1. files \in Injection(1..Len(files), Files) /\ Len(files) \in Nat
  BY DEF TypeInv, Types, Listed, Injection, IsInjective
<1>2. IsFiniteSet(Files)
  BY PageAssumption
<1>3. Cardinality(1..Len(files)) <= Cardinality(Files)
  BY <1>1, <1>2, FS_Injection
<1> DEFINE n == Len(files)
<1> HIDE DEF n
<1>4. Cardinality(1..n) = IF 1 > n THEN 0 ELSE n - 1 + 1
  <2>1. 1 \in Int /\ n \in Int
    BY <1>1 DEF n
  <2> QED BY <2>1, FS_Interval
<1> QED BY <1>1, <1>3, <1>4 DEF n

(* The list of the page holds each file that was read once, and no event is *)
(* deferred but for one of them (addFile and enqueueFile of dropzone.js).   *)
THEOREM PageTyped == Spec => []TypeOK
<1>1. TypeInv => TypeOK
  <2> SUFFICES ASSUME TypeInv
               PROVE  TypeOK
    OBVIOUS
  <2>1. IsInjective(files)
    BY DEF TypeInv, Listed, IsInjective
  <2>2. ToSet(files) = {f \in Files : status[f] \notin {"none", "reading", "unreadable"}}
    <3>1. \A i \in DOMAIN files : files[i] \in Files
      BY DEF TypeInv, Types
    <3> QED BY <3>1 DEF TypeInv, Listed, ToSet
  <2>3. {processing, completing} \subseteq 0..Cardinality(Files)
    <3>1. Cardinality(Files) \in Nat /\ IsFiniteSet(Files)
      BY SomeFiles
    <3>2. Of({"success", "error", "removed"}) \in SUBSET Files
      BY DEF Of
    <3>3. /\ Cardinality(Of({"success", "error", "removed"})) <= Cardinality(Files)
          /\ Cardinality(Of({"success", "error", "removed"})) \in Nat
      BY <3>1, <3>2, FS_Subset, SomeFiles
    <3>4. Len(files) \in Nat
      BY DEF TypeInv, Types
    <3>5. processing \in 0..Cardinality(Files)
      BY <3>1, <3>4, ListIsShort DEF TypeInv, Deferred
    <3>6. completing \in 0..Cardinality(Files)
      BY <3>1, <3>3 DEF TypeInv, Deferred
    <3> QED BY <3>5, <3>6
  <2> QED BY <2>1, <2>2, <2>3 DEF TypeInv, Types, TypeOK
<1> QED BY <1>1, TypesInvariant, PTL

-----------------------------------------------------------------------------
(* The uploads under way.                                                   *)

\* What is being uploaded is listed.
LEMMA UploadsListed ==
    ASSUME TypeInv, NEW st,
           \A f \in Files : st[f] = "uploading" => status[f] \in {"queued", "uploading"}
    PROVE  Under(files, st) = {f \in Files : st[f] = "uploading"}
<1>1. \A f \in Files : st[f] = "uploading" => \E i \in DOMAIN files : files[i] = f
  BY DEF TypeInv, Listed
<1>2. \A f \in Files : st[f] = "uploading" => f \in ToSet(files)
  BY <1>1 DEF ToSet
<1>3. ToSet(files) \subseteq Files
  BY ListedFiles DEF TypeInv, Types
<1> QED BY <1>2, <1>3 DEF Under

LEMMA SameUploads ==
    ASSUME InTurn, \A f \in Files : status'[f] = "uploading" <=> status[f] = "uploading"
    PROVE  InTurn'
<1>1. {f \in Files : status'[f] = "uploading"} = {f \in Files : status[f] = "uploading"}
  OBVIOUS
<1> QED BY <1>1 DEF InTurn

LEMMA InTurnStep ==
    ASSUME TypeInv, InTurn, [Next]_vars
    PROVE  InTurn'
<1>0. files \in Seq(Files) /\ status \in [Files -> Status]
  BY DEF TypeInv, Types, Status
<1>1. CASE Drop
  BY <1>1, DropSays, SameUploads DEF Drop
<1>2. CASE ProcessLater
  <2>1. status' = processQueue(files, status)
    BY <1>2 DEF ProcessLater
  <2>2. Under(files, status) = {f \in Files : status[f] = "uploading"}
    BY UploadsListed
  <2>3. Under(files, processQueue(files, status)) = {f \in Files : status'[f] = "uploading"}
    <3>1. \A f \in Files : status'[f] = "uploading" => status[f] \in {"queued", "uploading"}
      BY <1>2, SentSays
    <3>2. Under(files, status') = {f \in Files : status'[f] = "uploading"}
      BY <3>1, UploadsListed
    <3> QED BY <2>1, <3>2
  <2>4. Cardinality(Under(files, status)) <= ParallelUploads
    BY <2>2 DEF InTurn
  <2>5. Cardinality(Under(files, processQueue(files, status))) <= ParallelUploads
    BY <1>0, <2>4, ProcessQueueSends
  <2> QED BY <2>3, <2>5 DEF InTurn
<1>3. CASE UNCHANGED status
  BY <1>3, SameUploads
<1>5. ASSUME NEW f \in Files, Added(f)
      PROVE  InTurn'
  BY <1>5, AddedSays, SameUploads
<1>6. ASSUME NEW f \in Files, NotRead(f)
      PROVE  InTurn'
  BY <1>6, NotReadSays, SameUploads
<1>8. ASSUME NEW f \in Files, Answered(f)
      PROVE  InTurn'
  <2> DEFINE st == [status EXCEPT ![f] = Taken(f)]
  <2>1. status' = processQueue(files, st)
    BY <1>8 DEF Answered, GoOn, Taken
  <2>2. st \in [Files -> Status]
    BY <1>0 DEF Status, Taken
  <2>3. \A g \in Files : st[g] = "uploading" <=> (status[g] = "uploading" /\ g # f)
    BY <1>0 DEF Taken
  <2> HIDE DEF st
  <2>4. Under(files, st) = {g \in Files : st[g] = "uploading"}
    BY <2>3, UploadsListed
  <2>5. Cardinality({g \in Files : st[g] = "uploading"})
          <= Cardinality({g \in Files : status[g] = "uploading"})
    <3>1. {g \in Files : st[g] = "uploading"} \in SUBSET {g \in Files : status[g] = "uploading"}
      BY <2>3
    <3>2. IsFiniteSet({g \in Files : status[g] = "uploading"})
      BY SomeFiles
    <3> QED BY <3>1, <3>2, FS_Subset
  <2>6. /\ Cardinality({g \in Files : st[g] = "uploading"}) \in Nat
        /\ Cardinality({g \in Files : status[g] = "uploading"}) \in Nat
    BY SomeFiles
  <2>7. Cardinality(Under(files, st)) <= ParallelUploads
    BY <2>4, <2>5, <2>6, PageAssumption DEF InTurn
  <2>8. Cardinality(Under(files, processQueue(files, st))) <= ParallelUploads
    BY <1>0, <2>2, <2>7, ProcessQueueSends
  <2>9. Under(files, status') = {g \in Files : status'[g] = "uploading"}
    <3>1. \A g \in Files : status'[g] = "uploading" => status[g] \in {"queued", "uploading"}
      BY <1>8, AnsweredSays
    <3> QED BY <3>1, UploadsListed
  <2> QED BY <2>1, <2>8, <2>9 DEF InTurn
<1> QED
  BY <1>1, <1>2, <1>3, <1>5, <1>6, <1>8
  DEF Next, vars, QueueComplete, ImportComplete, Import, Dismiss

LEMMA InitTurn == Init => InTurn
<1> SUFFICES ASSUME Init
             PROVE  InTurn
  OBVIOUS
<1>1. {f \in Files : status[f] = "uploading"} = {}
  BY DEF Init
<1>2. Cardinality({f \in Files : status[f] = "uploading"}) = 0
  BY <1>1, FS_EmptySet
<1> QED BY <1>2, PageAssumption DEF InTurn

(* However many calls of processQueue the browser holds and in whatever     *)
(* order the answers come, no more uploads are under way than the page may  *)
(* have at a time (dropzone.processQueue).                                  *)
THEOREM AlwaysInTurn == Spec => []InTurn
<1>1. TypeInv /\ InTurn /\ [Next]_vars => InTurn'
  BY InTurnStep
<1> QED BY <1>1, InitTurn, TypesInvariant, PTL DEF Spec

-----------------------------------------------------------------------------
(* A reader who waits.                                                      *)

LEMMA LastListed ==
    ASSUME TypeInv, files # <<>>
    PROVE  Last(files) \in Files /\ status[Last(files)] \notin Unlisted
<1>1. Len(files) \in DOMAIN files /\ files[Len(files)] \in Files
  BY DEF TypeInv, Types
<1>2. Last(files) = files[Len(files)]
  BY DEF Last
<1> QED BY <1>1, <1>2 DEF TypeInv, Listed, Unlisted

\* What a patient reader drops is one file, on a quiet page.
LEMMA DropsOne ==
    ASSUME TypeInv, Drop, ~hasty'
    PROVE  /\ ~hasty /\ Quiet /\ page = "here"
           /\ UNCHANGED <<files, processing, completing, server, cookie, contributor, page, shown>>
           /\ \E f \in Files : /\ status[f] = "none" /\ status'[f] = "reading"
                               /\ \A g \in Files \ {f} : status'[g] = status[g]
<1>1. PICK dropped \in (SUBSET {f \in Files : status[f] = "none"}) \ {{}} :
        /\ status' = [f \in Files |-> IF f \in dropped THEN "reading" ELSE status[f]]
        /\ hasty' = (hasty \/ ~Quiet \/ Cardinality(dropped) > 1)
  BY DEF Drop
<1>2. ~hasty /\ Quiet /\ ~ (Cardinality(dropped) > 1)
  BY <1>1
<1>3. IsFiniteSet(dropped) /\ Cardinality(dropped) \in Nat
  <2>1. dropped \subseteq Files
    OBVIOUS
  <2> QED BY <2>1, SomeFiles
<1>4. Cardinality(dropped) # 0
  <2>1. dropped # {}
    OBVIOUS
  <2> QED BY <1>3, <2>1, FS_EmptySet
<1>5. Cardinality(dropped) = 1
  BY <1>2, <1>3, <1>4
<1>6. PICK f : dropped = {f}
  BY <1>3, <1>5, FS_Singleton
<1>7. f \in Files /\ status[f] = "none"
  BY <1>6
<1>8. status'[f] = "reading" /\ \A g \in Files \ {f} : status'[g] = status[g]
  BY <1>1, <1>6, <1>7
<1> QED BY <1>2, <1>7, <1>8 DEF Drop

LEMMA PatientDrop ==
    ASSUME TypeInv, Patient, Drop, ~hasty'
    PROVE  Patient'
<1>1. PICK f \in Files : /\ status[f] = "none" /\ status'[f] = "reading"
                         /\ \A g \in Files \ {f} : status'[g] = status[g]
  BY DropsOne
<1>2. /\ \A g \in Files : status[g] \notin Busy
      /\ completing = 0 /\ page = "here"
      /\ UNCHANGED <<files, completing, server, cookie, contributor, page, shown>>
  BY DropsOne DEF Quiet, Busy
<1>3. \A g \in Files \ {f} : status'[g] \notin Busy
  BY <1>1, <1>2
<1>4. files # <<>> => Last(files) \in Files \ {f}
  BY <1>1, LastListed DEF Unlisted
<1>5. files # <<>> => status'[Last(files)] = status[Last(files)]
  BY <1>1, <1>4
<1>6. (\A g, h \in Of(Busy) : g = h)'
  BY <1>3 DEF Of
<1>7. (\A g \in Of({"queued", "uploading", "error"}) : g = Last(files))'
  BY <1>1, <1>2 DEF Of, Patient
<1>8. LastIs({"success"})' => LastIs({"success"})
  BY <1>2, <1>5 DEF LastIs
<1> QED BY <1>2, <1>6, <1>7, <1>8 DEF Patient

LEMMA PatientSends ==
    ASSUME TypeInv, Patient, ProcessLater
    PROVE  Patient'
<1>1. /\ \A g \in Files :
            \/ status'[g] = status[g]
            \/ status[g] = "queued" /\ status'[g] = "uploading"
      /\ UNCHANGED <<files, completing, server, cookie, contributor, page, shown>>
  BY SentSays DEF ProcessLater
<1>2. /\ \A g \in Files : status'[g] \in Busy <=> status[g] \in Busy
      /\ \A g \in Files : status'[g] \notin Busy => status'[g] = status[g]
  BY <1>1 DEF Busy
<1>3. Of(Busy)' = Of(Busy)
  BY <1>2 DEF Of
<1>4. Of({"queued", "uploading", "error"})' = Of({"queued", "uploading", "error"})
  BY <1>1 DEF Of
<1>5. LastIs({"success"})' = LastIs({"success"})
  BY <1>1, LastListed DEF LastIs
<1>6. LastIs({"success", "error"})' = LastIs({"success", "error"})
  BY <1>1, LastListed DEF LastIs
<1> QED BY <1>1, <1>3, <1>4, <1>5, <1>6 DEF Patient

LEMMA PatientAdded ==
    ASSUME TypeInv, Patient, NEW f \in Files, Added(f)
    PROVE  Patient'
<1>1. /\ status[f] = "reading" /\ status'[f] = "queued"
      /\ \A g \in Files \ {f} : status'[g] = IF status[g] = "error" THEN "removed" ELSE status[g]
  BY AddedSays
<1>2. files' = Append(files, f) /\ UNCHANGED <<completing, server, cookie, contributor, page, shown>>
  BY DEF Added
<1>3. files' # <<>> /\ Last(files') = f
  BY <1>2 DEF Last, TypeInv, Types
<1>4. f \in Of(Busy)
  BY <1>1 DEF Of, Busy
<1>5. \A g \in Files \ {f} : status[g] \notin Busy
  BY <1>4 DEF Patient, Of
<1>6. \A g \in Files \ {f} : status'[g] \notin Busy /\ status'[g] # "error"
  BY <1>1, <1>5 DEF Busy
<1>7. completing' = 0 /\ page' = "here"
  BY <1>2, <1>4 DEF Patient
<1>8. (\A g, h \in Of(Busy) : g = h)'
  BY <1>6 DEF Of
<1>9. (\A g \in Of({"queued", "uploading", "error"}) : g = Last(files))'
  BY <1>3, <1>6 DEF Of, Busy
<1>10. ~LastIs({"success"})' /\ ~LastIs({"success"})
  BY <1>1, <1>2, <1>3, <1>7 DEF LastIs, Patient
<1> QED BY <1>2, <1>7, <1>8, <1>9, <1>10 DEF Patient

LEMMA PatientNotRead ==
    ASSUME TypeInv, Patient, NEW f \in Files, NotRead(f)
    PROVE  Patient'
<1>1. /\ status[f] = "reading" /\ status'[f] = "unreadable"
      /\ \A g \in Files \ {f} : status'[g] = status[g]
      /\ UNCHANGED <<files, completing, server, cookie, contributor, page, shown>>
  BY NotReadSays DEF NotRead
<1>2. Of(Busy)' \subseteq Of(Busy)
  BY <1>1 DEF Of, Busy
<1>3. Of({"queued", "uploading", "error"})' \subseteq Of({"queued", "uploading", "error"})
  BY <1>1 DEF Of
<1>4. files # <<>> => Last(files) \in Files \ {f}
  BY <1>1, LastListed DEF Unlisted
<1>5. LastIs({"success"})' = LastIs({"success"})
  BY <1>1, <1>4 DEF LastIs
<1>6. LastIs({"success", "error"})' = LastIs({"success", "error"})
  BY <1>1, <1>4 DEF LastIs
<1> QED BY <1>1, <1>2, <1>3, <1>5, <1>6 DEF Patient

LEMMA PatientImport ==
    ASSUME TypeInv, Patient, NEW f \in Files, Import(f)
    PROVE  Patient'
<1>1. /\ status[f] = "uploading" /\ server[f] = "none"
      /\ \A g \in Files \ {f} : server'[g] = server[g]
      /\ UNCHANGED <<status, files, completing, cookie, contributor, page, shown>>
  BY DEF Import, TypeInv, Types
<1>2. f \in Of(Busy) /\ f \in Of({"queued", "uploading", "error"})
  BY <1>1 DEF Of, Busy
<1>3. f = Last(files) /\ page = "here"
  BY <1>2 DEF Patient
<1>4. ~LastIs({"success"}) /\ ~LastIs({"success"})'
  BY <1>1, <1>3 DEF LastIs
<1>5. /\ Of(Busy)' = Of(Busy)
      /\ Of({"queued", "uploading", "error"})' = Of({"queued", "uploading", "error"})
      /\ LastIs({"success", "error"})' = LastIs({"success", "error"})
  BY <1>1 DEF Of, LastIs
<1>6. cookie # None => cookie \in Files \ {f}
  BY <1>1, <1>3 DEF Patient, TypeInv, Types
<1>7. cookie # None => server'[cookie] = server[cookie]
  BY <1>1, <1>6
<1> QED BY <1>1, <1>3, <1>4, <1>5, <1>7 DEF Patient

LEMMA PatientAnswered ==
    ASSUME TypeInv, Patient, NEW f \in Files, Answered(f)
    PROVE  Patient'
<1>1. /\ status[f] = "uploading"
      /\ status'[f] = Taken(f)
      /\ \A g \in Files \ {f} :
            \/ status'[g] = status[g]
            \/ status[g] = "queued" /\ status'[g] = "uploading"
  BY AnsweredSays
<1>2. /\ cookie' = IF server[f] \in {"imported", "refused"} THEN f ELSE cookie
      /\ UNCHANGED <<files, server, contributor, page, shown>>
  BY DEF Answered
<1>3. f \in Of(Busy) /\ f \in Of({"queued", "uploading", "error"})
  BY <1>1 DEF Of, Busy
<1>4. f = Last(files) /\ page = "here" /\ files # <<>> /\ completing = 0
  <2>1. \E i \in DOMAIN files : files[i] = f
    BY <1>1 DEF TypeInv, Listed
  <2> QED BY <1>3, <2>1 DEF Patient
<1>5. \A g \in Files \ {f} : status[g] \notin Busy
  BY <1>3 DEF Patient, Of
<1>6. \A g \in Files \ {f} : status'[g] = status[g]
  BY <1>1, <1>5 DEF Busy
<1>7. Of(Busy)' = {}
  BY <1>1, <1>5, <1>6 DEF Of, Busy, Taken
<1>8. (\A g \in Of({"queued", "uploading", "error"}) : g = Last(files))'
  BY <1>2, <1>4, <1>6 DEF Of, Patient
<1>9. LastIs({"success", "error"})'
  BY <1>1, <1>2, <1>4 DEF LastIs, Taken
<1>10. completing' = 1
  BY <1>4, <1>5, AnsweredSays DEF Busy
<1>11. /\ LastIs({"success"})' => server[f] \in {"imported", "redirected"}
       /\ server[f] = "imported" => LastIs({"success"})' /\ cookie' = f
  BY <1>1, <1>2, <1>4 DEF LastIs, Taken
<1>12. cookie # None => server[cookie] = "refused"
  <2>1. ~LastIs({"success"})
    BY <1>1, <1>4 DEF LastIs
  <2> QED BY <1>4, <2>1 DEF Patient
<1>13. cookie' # None =>
        /\ server[cookie'] \in {"imported", "refused"}
        /\ server[cookie'] = "imported" => LastIs({"success"})' /\ cookie' = f
  BY <1>2, <1>11, <1>12
<1> QED BY <1>2, <1>4, <1>7, <1>8, <1>9, <1>10, <1>11, <1>13 DEF Patient

LEMMA PatientComplete ==
    ASSUME TypeInv, Patient, QueueComplete
    PROVE  Patient'
<1>1. /\ completing > 0 /\ page' = IF ~importHasFailed THEN "leaving" ELSE page
      /\ page \in {"here", "leaving"}
      /\ UNCHANGED <<status, files, server, cookie, contributor, shown>>
  BY DEF QueueComplete, Succeeded, Running
<1>2. LastIs({"success", "error"})
  BY <1>1 DEF Patient
<1>3. ~importHasFailed => LastIs({"success"})
  <2> SUFFICES ASSUME ~importHasFailed
               PROVE  LastIs({"success"})
    OBVIOUS
  <2>1. Last(files) \in ToSet(files)
    BY <1>2 DEF TypeInv, Types, LastIs, Last, ToSet
  <2>2. status[Last(files)] # "error"
    BY <2>1 DEF importHasFailed, getFilesWithStatus
  <2> QED BY <1>2, <2>2 DEF LastIs
<1>4. /\ Of(Busy)' = Of(Busy)
      /\ Of({"queued", "uploading", "error"})' = Of({"queued", "uploading", "error"})
      /\ LastIs({"success", "error"})' = LastIs({"success", "error"})
      /\ LastIs({"success"})' = LastIs({"success"})
  BY <1>1 DEF Of, LastIs
<1>5. Of(Busy) = {}
  BY <1>1 DEF Patient
<1>6. page' = "leaving" => LastIs({"success"})
  BY <1>1, <1>3 DEF Patient
<1>7. importHasFailed => ~LastIs({"success"})
  <2> SUFFICES ASSUME importHasFailed
               PROVE  ~LastIs({"success"})
    OBVIOUS
  <2>1. PICK f \in Files : status[f] = "error"
    BY ListedFiles DEF importHasFailed, getFilesWithStatus, TypeInv, Types
  <2>2. f = Last(files)
    BY <2>1 DEF Patient, Of
  <2> QED BY <2>1, <2>2 DEF LastIs
<1>8. page' = "here" => ~LastIs({"success"})
  BY <1>1, <1>7
<1> QED BY <1>1, <1>2, <1>4, <1>5, <1>6, <1>8 DEF Patient

LEMMA PatientLeaves ==
    ASSUME TypeInv, Patient, ImportComplete
    PROVE  Patient'
<1>1. /\ page = "leaving" /\ page' = "gone"
      /\ shown' = IF contributor THEN cookie ELSE shown
      /\ UNCHANGED <<status, files, completing, server, contributor>>
  BY DEF ImportComplete
<1>2. LastIs({"success"}) /\ shown = None
  BY <1>1 DEF Patient
<1>3. /\ files # <<>> /\ server[Last(files)] \in {"imported", "redirected"}
      /\ server[Last(files)] = "imported" => cookie = Last(files)
      /\ cookie # None /\ server[cookie] = "imported" => cookie = Last(files)
  BY <1>1, <1>2 DEF Patient, LastIs
<1>4. /\ Of(Busy)' = Of(Busy)
      /\ Of({"queued", "uploading", "error"})' = Of({"queued", "uploading", "error"})
      /\ LastIs({"success", "error"})' = LastIs({"success", "error"})
  BY <1>1 DEF Of, LastIs
<1>5. Of(Busy) = {}
  BY <1>1 DEF Patient
<1> QED BY <1>1, <1>2, <1>3, <1>4, <1>5 DEF Patient

\* What becomes of the reader's account matters only to what he is shown.
LEMMA PatientDismissed ==
    ASSUME Patient, Dismiss
    PROVE  Patient'
<1>1. page # "gone" /\ UNCHANGED <<status, files, completing, server, cookie, page, shown>>
  BY DEF Dismiss, Running
<1>2. /\ Of(Busy)' = Of(Busy)
      /\ Of({"queued", "uploading", "error"})' = Of({"queued", "uploading", "error"})
      /\ LastIs({"success", "error"})' = LastIs({"success", "error"})
      /\ LastIs({"success"})' = LastIs({"success"})
  BY <1>1 DEF Of, LastIs
<1> QED BY <1>1, <1>2 DEF Patient

LEMMA PatientStep ==
    ASSUME TypeInv, ~hasty => Patient, [Next]_vars
    PROVE  ~hasty' => Patient'
<1> SUFFICES ASSUME ~hasty'
             PROVE  Patient'
  OBVIOUS
<1>1. CASE Drop
  BY <1>1, DropsOne, PatientDrop
<1>2. CASE UNCHANGED vars
  BY <1>2 DEF vars, Patient, Of, LastIs
<1>3. ASSUME ~hasty PROVE Patient
  BY <1>3
<1>4. CASE ProcessLater
  BY <1>3, <1>4, PatientSends DEF ProcessLater
<1>5. CASE QueueComplete
  BY <1>3, <1>5, PatientComplete DEF QueueComplete
<1>6. CASE ImportComplete
  BY <1>3, <1>6, PatientLeaves DEF ImportComplete
<1>7. ASSUME NEW f \in Files, Added(f)
      PROVE  Patient'
  BY <1>3, <1>7, PatientAdded DEF Added
<1>8. ASSUME NEW f \in Files, NotRead(f)
      PROVE  Patient'
  BY <1>3, <1>8, PatientNotRead DEF NotRead
<1>9. ASSUME NEW f \in Files, Import(f)
      PROVE  Patient'
  BY <1>3, <1>9, PatientImport DEF Import
<1>10. ASSUME NEW f \in Files, Answered(f)
      PROVE  Patient'
  BY <1>3, <1>10, PatientAnswered DEF Answered
<1>11. CASE Dismiss
  BY <1>3, <1>11, PatientDismissed DEF Dismiss
<1> QED BY <1>1, <1>2, <1>4, <1>5, <1>6, <1>7, <1>8, <1>9, <1>10, <1>11 DEF Next

LEMMA InitPatient == Init => Patient
BY DEF Init, Patient, Of, LastIs, Busy

(* A reader who waits for the outcome of a file before he drops another is  *)
(* never sent on after a failure, lands on the report of the file dropped   *)
(* last when that was imported and he is still let in, and on the report of *)
(* no other import, also after a redirect that the page took for a success: *)
(* what is on the page, in the session and on its way is about the last     *)
(* file listed, or an earlier refusal (the handlers of import.html,         *)
(* import_view, import_complete).                                           *)
THEOREM PatientAlwaysReported == Spec => []PatientReport
<1>1. Init => (~hasty => Patient)
  BY InitPatient
<1>2. TypeInv /\ (~hasty => Patient) /\ [Next]_vars => (~hasty => Patient)'
  BY PatientStep
<1>3. (~hasty => Patient) => PatientReport
  BY DEF Patient, PatientReport
<1> QED BY <1>1, <1>2, <1>3, TypesInvariant, PTL DEF Spec
================================================================================
