------------------------- MODULE Catalogue_proofs -------------------------
(***************************************************************************)
(* Proofs about the parts of MCCatalogue, for any sets, capacities and     *)
(* limits: the counts (CountCache), the collections and their list         *)
(* (Shelves), the tags (TagEdits), the references (CitedWorks), the titles *)
(* of notes (NoteTitles) and the duplicates of papers (Duplicates).        *)
(*                                                                         *)
(* The counts come first: the cache is exact at the library's own version, *)
(* every answer was right while its request was under way, and the cache   *)
(* stays bounded.  The argument is about pairs.  A request that read       *)
(* version v while v was current knows the total that any other request    *)
(* counted at v, since no write came between: so an entry stored late by   *)
(* one request can be given to another that read the same version.  The    *)
(* lists of collections and of tags are argued in the same way.            *)
(*                                                                         *)
(* Of the duplicates the argument is that folding lists together leaves    *)
(* groups that are apart, each held together by what was folded; when all  *)
(* that is found was folded, these are the chains of equal papers.         *)
(***************************************************************************)
EXTENDS MCCatalogue, FunctionTheorems, FiniteSetTheorems, WellFoundedInduction, TLAPS

Covered(r) == question[r] \notin Phrases

\* No version in the cache or in a request is ahead of the library.
NothingAhead ==
  /\ \A q \in DOMAIN entries : entries[q].version <= version
  /\ \A r \in Requests : seen[r] <= version

\* A total about to be stored at the current version is exact.
PendingIsExact ==
  \A r \in Requests :
    at[r] = "storing" /\ Covered(r) /\ seen[r] = version
      => total[r] = holds[question[r]]

\* What a request has, or may be given by the cache now or once another
\* request has stored its count, was right since it began.
KnownBy(r) ==
  /\ at[r] \in {"looking", "counting", "storing"} => holds[question[r]] \in true[r]
  /\ at[r] \in {"storing", "done"} /\ Covered(r) => total[r] \in true[r]
  /\ at[r] = "looking" /\ Covered(r) =>
       /\ question[r] \in DOMAIN entries /\ entries[question[r]].version = seen[r]
            => entries[question[r]].total \in true[r]
       /\ \A o \in Requests :
            at[o] = "storing" /\ question[o] = question[r] /\ seen[o] = seen[r]
              => total[o] \in true[r]

Known == \A r \in Requests : KnownBy(r)

CacheInv ==
  TypeOK /\ NothingAhead /\ CurrentEntryIsExact /\ PendingIsExact /\ Known

-----------------------------------------------------------------------------
\* Nothing is cached and nothing is under way at the start.
LEMMA InitInv == Init => CacheInv
<1> SUFFICES ASSUME Init PROVE CacheInv
  OBVIOUS
<1>1. TypeOK
  BY CountAssumption DEF Init, TypeOK
<1>2. NothingAhead /\ CurrentEntryIsExact
  <2>1. DOMAIN entries = {} /\ version = 0 /\ \A r \in Requests : seen[r] = 0
    BY DEF Init
  <2> QED BY <2>1 DEF NothingAhead, CurrentEntryIsExact
<1>3. \A r \in Requests : at[r] = "idle"
  BY DEF Init
<1>4. PendingIsExact /\ Known
  BY <1>3 DEF PendingIsExact, Known, KnownBy
<1> QED BY <1>1, <1>2, <1>4 DEF CacheInv

\* What was right stays witnessed, and what holds now is witnessed too, by
\* every request under way.
LEMMA WitnessResult ==
  ASSUME TypeOK, holds' \in [Questions -> Totals], Witness(holds')
  PROVE  /\ true' \in [Requests -> SUBSET Totals]
         /\ \A r \in Requests :
              /\ true[r] \subseteq true'[r]
              /\ at[r] \in {"looking", "counting", "storing"}
                   => holds'[question[r]] \in true'[r]
<1>1. true' = [r \in Requests |->
                IF r \in Active THEN true[r] \cup {holds'[question[r]]} ELSE true[r]]
  BY DEF Witness
<1>2. \A r \in Requests : question[r] \in Questions /\ true[r] \in SUBSET Totals
  BY DEF TypeOK
<1>3. \A r \in Requests : holds'[question[r]] \in Totals
  BY <1>2
<1>4. \A r \in Requests :
        at[r] \in {"looking", "counting", "storing"} => r \in Active
  BY DEF Active
<1>5. true' \in [Requests -> SUBSET Totals]
  BY <1>1, <1>2, <1>3
<1>6. \A r \in Requests :
         /\ true[r] \subseteq true'[r]
         /\ at[r] \in {"looking", "counting", "storing"}
              => holds'[question[r]] \in true'[r]
  BY <1>1, <1>4
<1> QED BY <1>5, <1>6

\* A write moves the library to a version nobody has read or stored.
LEMMA WriteInv == CacheInv /\ Write => CacheInv'
<1> SUFFICES ASSUME CacheInv, Write PROVE CacheInv'
  OBVIOUS
<1>1. /\ version' = version + 1 /\ version' \in 0 .. MaxVersion
      /\ version \in Nat /\ version < version'
  BY CountAssumption DEF Write, Bumped, CacheInv, TypeOK
<1>2. /\ holds' \in [Questions -> Totals] /\ Witness(holds')
      /\ UNCHANGED <<entries, at, question, seen, total>>
  BY DEF Write, request
<1>3. TypeOK'
  BY <1>1, <1>2, WitnessResult DEF CacheInv, TypeOK, Entry
<1>4. /\ \A q \in DOMAIN entries : entries[q].version < version'
      /\ \A r \in Requests : seen[r] < version'
  <2>1. /\ \A q \in DOMAIN entries : entries[q].version \in Nat
        /\ \A r \in Requests : seen[r] \in Nat
    BY CountAssumption DEF CacheInv, TypeOK, Entry
  <2> QED BY <1>1, <2>1 DEF CacheInv, NothingAhead
<1>5. NothingAhead' /\ CurrentEntryIsExact' /\ PendingIsExact'
  <2>1. /\ \A q \in DOMAIN entries : entries[q].version \in Nat
        /\ \A r \in Requests : seen[r] \in Nat
    BY CountAssumption DEF CacheInv, TypeOK, Entry
  <2> QED BY <1>1, <1>2, <1>4, <2>1
         DEF NothingAhead, CurrentEntryIsExact, PendingIsExact
<1>6. Known'
  <2>1. \A r \in Requests :
          /\ true[r] \subseteq true'[r]
          /\ at[r] \in {"looking", "counting", "storing"}
               => holds'[question[r]] \in true'[r]
    BY <1>2, WitnessResult DEF CacheInv
  <2> QED BY <1>2, <2>1 DEF CacheInv, Known, KnownBy, Covered
<1> QED BY <1>3, <1>5, <1>6 DEF CacheInv

\* A chunk of a rebuild changes the answers to phrases only.
LEMMA RebuildInv == CacheInv /\ RebuildChunk => CacheInv'
<1> SUFFICES ASSUME CacheInv, RebuildChunk PROVE CacheInv'
  OBVIOUS
<1>1. /\ holds' \in [Questions -> Totals] /\ Witness(holds')
      /\ \A q \in Questions \ Phrases : holds'[q] = holds[q]
      /\ UNCHANGED <<version, entries, at, question, seen, total>>
  BY DEF RebuildChunk, request
<1>2. TypeOK'
  BY <1>1, WitnessResult DEF CacheInv, TypeOK
<1>3. NothingAhead' /\ CurrentEntryIsExact'
  BY <1>1 DEF CacheInv, TypeOK, NothingAhead, CurrentEntryIsExact
<1>4. PendingIsExact'
  BY <1>1 DEF CacheInv, TypeOK, PendingIsExact, Covered
<1>5. Known'
  <2>1. \A r \in Requests :
          /\ true[r] \subseteq true'[r]
          /\ at[r] \in {"looking", "counting", "storing"}
               => holds'[question[r]] \in true'[r]
    BY <1>1, WitnessResult DEF CacheInv
  <2> QED BY <1>1, <2>1 DEF CacheInv, Known, KnownBy, Covered
<1> QED BY <1>2, <1>3, <1>4, <1>5 DEF CacheInv

-----------------------------------------------------------------------------
\* The request reads the current version: what the cache and the other
\* requests have at that version is exact.
LEMMA BeginInv ==
  ASSUME CacheInv, NEW r \in Requests, NEW q \in Questions, Begin(r, q)
  PROVE  CacheInv'
<1>1. /\ at' = [at EXCEPT ![r] = "looking"]
      /\ question' = [question EXCEPT ![r] = q]
      /\ seen' = [seen EXCEPT ![r] = version]
      /\ true' = [true EXCEPT ![r] = {holds[q]}]
      /\ UNCHANGED <<version, holds, entries, total>>
  BY DEF Begin
<1>2. /\ at \in [Requests -> {"idle", "looking", "counting", "storing", "done"}]
      /\ question \in [Requests -> Questions] /\ seen \in [Requests -> 0 .. MaxVersion]
      /\ true \in [Requests -> SUBSET Totals] /\ holds \in [Questions -> Totals]
      /\ version \in 0 .. MaxVersion
  BY DEF CacheInv, TypeOK
<1>3. TypeOK'
  BY <1>1, <1>2 DEF CacheInv, TypeOK
<1>4. NothingAhead'
  BY <1>1, <1>2, CountAssumption DEF CacheInv, NothingAhead
<1>5. CurrentEntryIsExact'
  BY <1>1 DEF CacheInv, CurrentEntryIsExact
<1>6. PendingIsExact'
  BY <1>1, <1>2 DEF CacheInv, PendingIsExact, Covered
<1>7. Known'
  <2> SUFFICES ASSUME NEW s \in Requests PROVE KnownBy(s)'
    BY DEF Known
  <2>1. KnownBy(s)
    BY DEF CacheInv, Known
  <2>2. CASE s = r
    <3>1. /\ at'[s] = "looking" /\ question'[s] = q /\ seen'[s] = version
          /\ true'[s] = {holds[q]}
      BY <1>1, <1>2, <2>2
    <3>2. q \in DOMAIN entries /\ q \notin Phrases /\ entries[q].version = version
            => entries[q].total = holds[q]
      BY DEF CacheInv, CurrentEntryIsExact
    <3>3. ASSUME NEW o \in Requests, at'[o] = "storing", question'[o] = q,
                 seen'[o] = version, q \notin Phrases
          PROVE  total[o] = holds[q]
      <4>1. o # r
        BY <1>1, <1>2, <3>3
      <4>2. at[o] = "storing" /\ question[o] = q /\ seen[o] = version
        BY <1>1, <1>2, <3>3, <4>1
      <4> QED BY <3>3, <4>2 DEF CacheInv, PendingIsExact, Covered
    <3> QED BY <1>1, <3>1, <3>2, <3>3 DEF KnownBy, Covered
  <2>3. CASE s # r
    <3>1. /\ at'[s] = at[s] /\ question'[s] = question[s] /\ seen'[s] = seen[s]
          /\ true'[s] = true[s]
      BY <1>1, <1>2, <2>3
    <3>2. ASSUME NEW o \in Requests, at'[o] = "storing"
          PROVE  at[o] = "storing" /\ question'[o] = question[o] /\ seen'[o] = seen[o]
      BY <1>1, <1>2, <3>2
    <3> QED BY <1>1, <2>1, <3>1, <3>2 DEF KnownBy, Covered
  <2> QED BY <2>2, <2>3
<1> QED BY <1>3, <1>4, <1>5, <1>6, <1>7 DEF CacheInv

\* A hit answers with what the request already knew to be right.
LEMMA LookUpInv ==
  ASSUME CacheInv, NEW r \in Requests, LookUp(r)
  PROVE  CacheInv'
<1>1. /\ at[r] = "looking"
      /\ UNCHANGED <<version, holds, entries, question, seen, true>>
  BY DEF LookUp
<1>2. \/ /\ question[r] \in DOMAIN entries /\ entries[question[r]].version = seen[r]
         /\ total' = [total EXCEPT ![r] = entries[question[r]].total]
         /\ at' = [at EXCEPT ![r] = "done"]
      \/ at' = [at EXCEPT ![r] = "counting"] /\ total' = total
  BY DEF LookUp, Hit
<1>3. /\ at \in [Requests -> {"idle", "looking", "counting", "storing", "done"}]
      /\ total \in [Requests -> Totals]
      /\ \A q \in DOMAIN entries : entries[q].total \in Totals
  BY DEF CacheInv, TypeOK, Entry
<1>4. TypeOK'
  BY <1>1, <1>2, <1>3 DEF CacheInv, TypeOK
<1>5. NothingAhead' /\ CurrentEntryIsExact'
  BY <1>1 DEF CacheInv, NothingAhead, CurrentEntryIsExact
<1>6. \A s \in Requests \ {r} : at'[s] = at[s] /\ total'[s] = total[s]
  BY <1>2, <1>3
<1>7. at'[r] \in {"done", "counting"}
  BY <1>2, <1>3
<1>8. PendingIsExact'
  BY <1>1, <1>6, <1>7 DEF CacheInv, PendingIsExact, Covered
<1>9. Known'
  <2> SUFFICES ASSUME NEW s \in Requests PROVE KnownBy(s)'
    BY DEF Known
  <2>1. KnownBy(s)
    BY DEF CacheInv, Known
  <2>2. CASE s = r
    BY <1>1, <1>2, <1>3, <2>1, <2>2 DEF KnownBy, Covered
  <2>3. CASE s # r
    <3>1. \A o \in Requests : at'[o] = "storing" => at[o] = "storing" /\ total'[o] = total[o]
      BY <1>6, <1>7
    <3> QED BY <1>1, <1>6, <2>1, <2>3, <3>1 DEF KnownBy, Covered
  <2> QED BY <2>2, <2>3
<1> QED BY <1>4, <1>5, <1>8, <1>9 DEF CacheInv

\* Counting finds what is right now, which every request under way with the
\* same question knows.
LEMMA CountInv ==
  ASSUME CacheInv, NEW r \in Requests, Count(r)
  PROVE  CacheInv'
<1>1. /\ at[r] = "counting"
      /\ total' = [total EXCEPT ![r] = holds[question[r]]]
      /\ at' = [at EXCEPT ![r] = "storing"]
      /\ UNCHANGED <<version, holds, entries, question, seen, true>>
  BY DEF Count
<1>2. /\ at \in [Requests -> {"idle", "looking", "counting", "storing", "done"}]
      /\ total \in [Requests -> Totals]
      /\ question[r] \in Questions /\ holds[question[r]] \in Totals
  BY DEF CacheInv, TypeOK
<1>3. TypeOK'
  BY <1>1, <1>2 DEF CacheInv, TypeOK
<1>4. NothingAhead' /\ CurrentEntryIsExact'
  BY <1>1 DEF CacheInv, NothingAhead, CurrentEntryIsExact
<1>5. \A s \in Requests \ {r} : at'[s] = at[s] /\ total'[s] = total[s]
  BY <1>1, <1>2
<1>6. at'[r] = "storing" /\ total'[r] = holds[question[r]]
  BY <1>1, <1>2
<1>7. PendingIsExact'
  BY <1>1, <1>5, <1>6 DEF CacheInv, PendingIsExact, Covered
<1>8. Known'
  <2> SUFFICES ASSUME NEW s \in Requests PROVE KnownBy(s)'
    BY DEF Known
  <2>1. KnownBy(s)
    BY DEF CacheInv, Known
  <2>2. CASE s = r
    BY <1>1, <1>6, <2>1, <2>2 DEF KnownBy, Covered
  <2>3. CASE s # r
    <3>1. \A o \in Requests : at'[o] = "storing" =>
             \/ at[o] = "storing" /\ total'[o] = total[o]
             \/ total'[o] = holds[question[o]]
      BY <1>5, <1>6
    <3> QED BY <1>1, <1>5, <2>1, <2>3, <3>1 DEF KnownBy, Covered
  <2> QED BY <2>2, <2>3
<1> QED BY <1>3, <1>4, <1>7, <1>8 DEF CacheInv

\* Storing puts under a version what the others that read it already know.
LEMMA StoreInv ==
  ASSUME CacheInv, NEW r \in Requests, Store(r)
  PROVE  CacheInv'
<1>1. /\ at[r] = "storing" /\ at' = [at EXCEPT ![r] = "done"]
      /\ UNCHANGED <<version, holds, question, seen, total, true>>
  BY DEF Store
<1>2. /\ DOMAIN entries' \subseteq DOMAIN entries \cup {question[r]}
      /\ question[r] \in DOMAIN entries'
      /\ entries'[question[r]] = [version |-> seen[r], total |-> total[r]]
      /\ \A q \in DOMAIN entries' \ {question[r]} :
           q \in DOMAIN entries /\ entries'[q] = entries[q]
      /\ entries' = [q \in DOMAIN entries' |-> entries'[q]]
  BY DEF Store, Stamp, RoomMade
<1>3. /\ at \in [Requests -> {"idle", "looking", "counting", "storing", "done"}]
      /\ question[r] \in Questions /\ total[r] \in Totals /\ seen[r] \in 0 .. MaxVersion
      /\ DOMAIN entries \subseteq Questions
      /\ \A q \in DOMAIN entries : entries[q] \in Entry
  BY DEF CacheInv, TypeOK
<1>4. \A q \in DOMAIN entries' : q \in Questions /\ entries'[q] \in Entry
  BY <1>2, <1>3 DEF Entry
<1>5. TypeOK'
  BY <1>1, <1>2, <1>3, <1>4 DEF CacheInv, TypeOK
<1>6. NothingAhead'
  BY <1>1, <1>2 DEF CacheInv, NothingAhead
<1>7. CurrentEntryIsExact'
  <2>1. ASSUME question[r] \notin Phrases, seen[r] = version
        PROVE  total[r] = holds[question[r]]
    BY <1>1, <2>1 DEF CacheInv, PendingIsExact, Covered
  <2> QED BY <1>1, <1>2, <2>1 DEF CacheInv, CurrentEntryIsExact
<1>8. \A s \in Requests \ {r} : at'[s] = at[s]
  BY <1>1, <1>3
<1>9. at'[r] = "done"
  BY <1>1, <1>3
<1>10. PendingIsExact'
  BY <1>1, <1>8, <1>9 DEF CacheInv, PendingIsExact, Covered
<1>11. Known'
  <2> SUFFICES ASSUME NEW s \in Requests PROVE KnownBy(s)'
    BY DEF Known
  <2>1. KnownBy(s)
    BY DEF CacheInv, Known
  <2>2. CASE s = r
    BY <1>1, <1>9, <2>1, <2>2 DEF KnownBy, Covered
  <2>3. CASE s # r
    <3>1. at'[s] = at[s] /\ \A o \in Requests : at'[o] = "storing" => at[o] = "storing"
      BY <1>8, <1>9, <2>3
    <3>2. ASSUME at[s] = "looking", Covered(s), question[s] \in DOMAIN entries',
                 entries'[question[s]].version = seen[s]
          PROVE  entries'[question[s]].total \in true[s]
      <4>1. CASE question[s] = question[r]
        BY <1>1, <1>2, <2>1, <3>2, <4>1 DEF KnownBy
      <4>2. CASE question[s] # question[r]
        BY <1>2, <2>1, <3>2, <4>2 DEF KnownBy
      <4> QED BY <4>1, <4>2
    <3> QED BY <1>1, <2>1, <3>1, <3>2 DEF KnownBy, Covered
  <2> QED BY <2>2, <2>3
<1> QED BY <1>5, <1>6, <1>7, <1>10, <1>11 DEF CacheInv

\* A stuttering step changes nothing.
LEMMA StutterInv == CacheInv /\ UNCHANGED vars => CacheInv'
BY DEF CacheInv, TypeOK, NothingAhead, CurrentEntryIsExact, PendingIsExact,
       Known, KnownBy, Covered, vars

\* The invariant holds in every behaviour: one step per statement of
\* cached_count, and one each for a write and a chunk of a rebuild.
LEMMA Invariance == Spec => []CacheInv
<1>1. CacheInv /\ [Next]_vars => CacheInv'
  <2> SUFFICES ASSUME CacheInv, [Next]_vars PROVE CacheInv'
    OBVIOUS
  <2>1. CASE Write
    BY <2>1, WriteInv
  <2>2. CASE RebuildChunk
    BY <2>2, RebuildInv
  <2>3. ASSUME NEW r \in Requests, NEW q \in Questions, Begin(r, q) PROVE CacheInv'
    BY <2>3, BeginInv
  <2>4. ASSUME NEW r \in Requests, LookUp(r) PROVE CacheInv'
    BY <2>4, LookUpInv
  <2>5. ASSUME NEW r \in Requests, Count(r) PROVE CacheInv'
    BY <2>5, CountInv
  <2>6. ASSUME NEW r \in Requests, Store(r) PROVE CacheInv'
    BY <2>6, StoreInv
  <2>7. CASE UNCHANGED vars
    BY <2>7, StutterInv
  <2> QED BY <2>1, <2>2, <2>3, <2>4, <2>5, <2>6, <2>7 DEF Next
<1> QED BY <1>1, InitInv, PTL DEF Spec

-----------------------------------------------------------------------------
\* cached_count: the cache is exact at the version the library has, though the
\* version and the total were read in separate statements.
THEOREM CacheExact == Spec => [](TypeOK /\ CurrentEntryIsExact)
<1>1. CacheInv => TypeOK /\ CurrentEntryIsExact
  BY DEF CacheInv
<1> QED BY <1>1, Invariance, PTL

\* cached_count: an answer was the right one at some moment of its request,
\* whether this request counted it or another one did.
THEOREM AnswersCorrect == Spec => []AnsweredInTime
<1>1. CacheInv => AnsweredInTime
  BY DEF CacheInv, Known, KnownBy, Covered, AnsweredInTime
<1> QED BY <1>1, Invariance, PTL

\* Versioned::put: clearing a full cache before an insertion bounds it, also
\* when the insertion replaces an entry.
THEOREM CacheStaysBounded == Spec => []CacheBounded
<1> DEFINE Bounded == IsFiniteSet(DOMAIN entries) /\ CacheBounded
<1>1. Init => Bounded
  BY FS_EmptySet, CountAssumption DEF Init, CacheBounded
<1>2. Bounded /\ [Next]_vars => Bounded'
  <2> SUFFICES ASSUME Bounded, [Next]_vars PROVE Bounded'
    OBVIOUS
  <2>1. ASSUME NEW r \in Requests, Store(r) PROVE Bounded'
    <3>1. DOMAIN entries' = DOMAIN RoomMade \cup {question[r]}
      BY <2>1 DEF Store
    <3>2. IsFiniteSet(DOMAIN RoomMade) /\ Cardinality(DOMAIN RoomMade) < Capacity
      <4>1. CASE Cardinality(DOMAIN entries) >= Capacity
        <5>1. DOMAIN RoomMade = {}
          BY <4>1 DEF RoomMade
        <5> QED BY <5>1, FS_EmptySet, CountAssumption
      <4>2. CASE ~(Cardinality(DOMAIN entries) >= Capacity)
        <5>1. RoomMade = entries
          BY <4>2 DEF RoomMade
        <5>2. Cardinality(DOMAIN entries) \in Nat
          BY FS_CardinalityType
        <5> QED BY <4>2, <5>1, <5>2, CountAssumption
      <4> QED BY <4>1, <4>2
    <3>3. Cardinality(DOMAIN RoomMade) \in Nat
      BY <3>2, FS_CardinalityType
    <3>4. /\ IsFiniteSet(DOMAIN entries')
          /\ Cardinality(DOMAIN entries') \in
               {Cardinality(DOMAIN RoomMade), Cardinality(DOMAIN RoomMade) + 1}
      BY <3>1, <3>2, FS_AddElement
    <3> QED BY <3>2, <3>3, <3>4, CountAssumption DEF CacheBounded
  <2>2. CASE UNCHANGED entries
    BY <2>2 DEF CacheBounded
  <2>3. Next => UNCHANGED entries \/ \E r \in Requests : Store(r)
    BY DEF Next, Write, RebuildChunk, Begin, LookUp, Count
  <2> QED BY <2>1, <2>2, <2>3 DEF vars
<1>3. Bounded => CacheBounded
  OBVIOUS
<1> QED BY <1>1, <1>2, <1>3, PTL DEF Spec
-----------------------------------------------------------------------------
(***************************************************************************)
(* Collections.  That each hangs from the top is not inductive as it       *)
(* stands: what a move asks about is the chain above the new parent.       *)
(* Rooted says it of sets: whatever set of collections one takes, some     *)
(* member hangs outside of it, so none is its own ancestor.                *)
(***************************************************************************)
Hangs == Shelves \cup {"top", "gone"}
Stations == {"idle", "asking", "reconciling", "counting", "storing", "releasing", "answered"}

TreeTypes ==
  /\ parent \in [Shelves -> Hangs]
  /\ filed \in [Shelves -> SUBSET Papers]

Rooted ==
  /\ \A k \in Shelves : Shelf!Live(k) => parent[k] \in Shelf!Places
  /\ \A S \in SUBSET {k \in Shelves : Shelf!Live(k)} : S # {} => \E d \in S : parent[d] \notin S

TreeInv == TreeTypes /\ Rooted

ShelfTypes ==
  /\ shelfVersion \in Nat /\ entry.stamp \in Int /\ claimed \in BOOLEAN
  /\ shelfAt \in [Shelf!Runners -> Stations]
  /\ asked \in [Shelf!Runners -> Nat]
  /\ held = [r \in Shelf!Runners |-> held[r]]
  /\ stale \in [Shelf!Runners -> BOOLEAN]
  /\ moments = [r \in Shelf!Runners |-> moments[r]]

\* What is stamped with the present version holds the present rows.
StampsAreExact ==
  /\ entry.stamp <= shelfVersion /\ \A q \in Shelf!Runners : asked[q] <= shelfVersion
  /\ entry.stamp = shelfVersion => entry.rows = Shelf!Rows
  /\ \A q \in Shelf!Runners :
       shelfAt[q] = "storing" /\ asked[q] = shelfVersion => held[q] = Shelf!Rows

\* A request has seen the rows as they are, and any that it may be given, unless
\* it was handed a superseded list.
SeenInTime ==
  \A r \in Callers : shelfAt[r] # "idle" =>
    /\ Shelf!Rows \in moments[r]
    /\ shelfAt[r] = "reconciling" => stale[r]
    /\ entry.stamp = asked[r] => entry.rows \in moments[r]
    /\ \A q \in Shelf!Runners :
         shelfAt[q] = "storing" /\ asked[q] = asked[r] => held[q] \in moments[r]

\* Above(k) has k and, with each of its members, the member's parent.
LEMMA AboveIsClosed ==
  ASSUME NEW k \in Shelves
  PROVE  k \in Shelf!Above(k) /\ Shelf!HasParents(Shelf!Above(k)) /\ Shelf!Above(k) \subseteq Shelves
BY DEF Shelf!Above, Shelf!HasParents

\* And nothing else.
LEMMA AboveIsLeast ==
  ASSUME NEW k \in Shelves, NEW S \in SUBSET Shelves, k \in S, Shelf!HasParents(S)
  PROVE  Shelf!Above(k) \subseteq S
BY DEF Shelf!Above

LEMMA CreateRoots ==
  ASSUME TreeInv, NEW k \in Shelves, NEW p \in Shelves \cup {"top"}, Shelf!Create(k, p)
  PROVE  TreeInv'
<1>1. /\ parent' = [parent EXCEPT ![k] = p] /\ filed' = filed
      /\ parent[k] = "gone" /\ p \in {"top"} \cup {d \in Shelves : parent[d] # "gone"}
  BY DEF Shelf!Create, Shelf!Live, Shelf!Places, Shelf!Gone, Shelf!Top
<1>2. TreeTypes'
  BY <1>1 DEF TreeInv, TreeTypes, Hangs
<1>3. \A d \in Shelves : Shelf!Live(d)' => parent'[d] \in Shelf!Places'
  BY <1>1, CatalogueAssumption DEF TreeInv, TreeTypes, Rooted, Hangs, Shelf!Live, Shelf!Places, Shelf!Gone, Shelf!Top
<1>4. ASSUME NEW S \in SUBSET {d \in Shelves : Shelf!Live(d)'}, S # {}
      PROVE  \E d \in S : parent'[d] \notin S
  <2>1. CASE S = {k}
    BY <1>1, <2>1, CatalogueAssumption DEF TreeInv, TreeTypes
  <2>2. CASE S # {k}
    <3>1. S \ {k} # {} /\ S \ {k} \in SUBSET {d \in Shelves : Shelf!Live(d)}
      BY <1>1, <1>4, <2>2 DEF TreeInv, TreeTypes, Shelf!Live, Shelf!Gone
    <3>2. PICK d \in S \ {k} : parent[d] \notin S \ {k}
      BY <3>1 DEF TreeInv, Rooted
    <3>3. parent[d] # k
      BY <1>1, <3>1, <3>2, CatalogueAssumption DEF TreeInv, Rooted, Shelf!Live, Shelf!Places, Shelf!Gone, Shelf!Top
    <3> QED
      BY <1>1, <3>2, <3>3 DEF TreeInv, TreeTypes
  <2> QED
    BY <2>1, <2>2
<1> QED
  BY <1>2, <1>3, <1>4 DEF TreeInv, Rooted

\* What moves is not above its new parent; so among those above it in any set,
\* one hangs outside of the set, and it has not moved.
LEMMA MoveRoots ==
  ASSUME TreeInv, NEW k \in Shelves, NEW p \in Shelves \cup {"top"}, Shelf!Update(k, p)
  PROVE  TreeInv'
<1>1. /\ parent' = [parent EXCEPT ![k] = p] /\ filed' = filed
      /\ parent[k] # "gone" /\ p \in {"top"} \cup {d \in Shelves : parent[d] # "gone"}
      /\ p \in Shelves => k \notin Shelf!Above(p)
  BY DEF Shelf!Update, Shelf!WouldCycle, Shelf!Live, Shelf!Places, Shelf!Gone, Shelf!Top
<1>2. TreeTypes'
  BY <1>1 DEF TreeInv, TreeTypes, Hangs
<1>3. \A d \in Shelves : Shelf!Live(d)' => Shelf!Live(d) /\ parent'[d] \in Shelf!Places'
  BY <1>1, CatalogueAssumption DEF TreeInv, TreeTypes, Rooted, Hangs, Shelf!Live, Shelf!Places, Shelf!Gone, Shelf!Top
<1>4. ASSUME NEW S \in SUBSET {d \in Shelves : Shelf!Live(d)'}, S # {}
      PROVE  \E d \in S : parent'[d] \notin S
  <2>1. S \in SUBSET {d \in Shelves : Shelf!Live(d)}
    BY <1>3
  <2>2. CASE k \in S /\ p \in S
    <3> DEFINE U == S \cap Shelf!Above(p)
    <3>1. p \in Shelves
      BY <2>1, <2>2
    <3>2. p \in U /\ U \in SUBSET {d \in Shelves : Shelf!Live(d)} /\ k \notin U
      BY <1>1, <2>1, <2>2, <3>1, AboveIsClosed
    <3>3. PICK d \in U : parent[d] \notin U
      BY <3>2 DEF TreeInv, Rooted
    <3>4. parent[d] \notin S
      BY <2>1, <3>1, <3>3, AboveIsClosed DEF Shelf!HasParents
    <3> QED
      BY <1>1, <3>2, <3>3, <3>4 DEF TreeInv, TreeTypes
  <2>3. CASE k \in S /\ p \notin S
    BY <1>1, <2>3 DEF TreeInv, TreeTypes
  <2>4. CASE k \notin S
    <3>1. PICK d \in S : parent[d] \notin S
      BY <1>4, <2>1 DEF TreeInv, Rooted
    <3> QED
      BY <1>1, <2>1, <2>4, <3>1 DEF TreeInv, TreeTypes
  <2> QED
    BY <2>2, <2>3, <2>4
<1> QED
  BY <1>2, <1>3, <1>4 DEF TreeInv, Rooted

LEMMA DeleteRoots ==
  ASSUME TreeInv, NEW k \in Shelves, NEW recursive \in BOOLEAN, Shelf!Delete(k, recursive)
  PROVE  TreeInv'
<1> DEFINE out == IF recursive THEN Shelf!Within(k) ELSE {k}
<1>1. /\ parent[k] # "gone"
      /\ parent' = [d \in Shelves |-> IF d \in out THEN "gone"
                                      ELSE IF parent[d] = k THEN parent[k] ELSE parent[d]]
      /\ filed' = [d \in Shelves |-> IF d \in out THEN {} ELSE filed[d]]
  BY DEF Shelf!Delete, Shelf!Live, Shelf!Gone
<1>2. TreeTypes'
  BY <1>1 DEF TreeInv, TreeTypes, Hangs
<1>3. k \in out
  BY <1>1, AboveIsClosed DEF Shelf!Within, Shelf!Live, Shelf!Gone
<1>4. ASSUME NEW d \in Shelves, Shelf!Live(d)'
      PROVE  /\ Shelf!Live(d) /\ d \notin out
             /\ parent[d] \in Shelf!Places
             /\ parent[d] \in out => parent[d] = k
  <2>1. d \notin out
    BY <1>1, <1>4 DEF Shelf!Live, Shelf!Gone
  <2>2. Shelf!Live(d) /\ parent[d] \in Shelf!Places
    BY <1>1, <1>4, <2>1, CatalogueAssumption DEF TreeInv, Rooted, Shelf!Live, Shelf!Gone
  <2>3. CASE recursive
    <3>1. ASSUME parent[d] \in out PROVE FALSE
      <4>1. parent[d] \in Shelves /\ k \in Shelf!Above(parent[d])
        BY <2>3, <3>1 DEF Shelf!Within
      <4>2. Shelf!Above(parent[d]) \subseteq Shelf!Above(d)
        BY <4>1, AboveIsClosed, AboveIsLeast DEF Shelf!HasParents
      <4> QED
        BY <2>1, <2>2, <2>3, <4>1, <4>2 DEF Shelf!Within
    <3> QED
      BY <2>1, <2>2, <3>1
  <2>4. CASE ~recursive
    BY <2>1, <2>2, <2>4
  <2> QED
    BY <2>3, <2>4
<1> HIDE DEF out
<1>5. parent[k] \in Shelf!Places /\ Shelf!Live(k) /\ k \notin {"top", "gone"}
  BY <1>1, CatalogueAssumption DEF TreeInv, Rooted, Shelf!Live, Shelf!Gone
<1>6. parent[k] # k
  <2>1. {k} \in SUBSET {d \in Shelves : Shelf!Live(d)}
    BY <1>5
  <2> QED
    BY <2>1 DEF TreeInv, Rooted
<1>7. ASSUME NEW S \in SUBSET {d \in Shelves : Shelf!Live(d)'}, S # {}
      PROVE  \E d \in S : parent'[d] \notin S
  <2>1. S \subseteq Shelves /\ k \notin S
        /\ \A d \in S : Shelf!Live(d) /\ d \notin out
    BY <1>3, <1>4
  <2>2. PICK d \in S : parent[d] \notin S
    BY <1>7, <2>1 DEF TreeInv, Rooted
  <2>3. CASE parent[d] # k
    BY <1>1, <2>1, <2>2, <2>3
  <2>4. CASE parent[d] = k /\ parent[k] \notin S
    BY <1>1, <2>1, <2>2, <2>4
  <2>5. CASE parent[d] = k /\ parent[k] \in S
    <3>1. S \cup {k} \in SUBSET {e \in Shelves : Shelf!Live(e)}
      BY <1>5, <2>1
    <3>2. PICK e \in S \cup {k} : parent[e] \notin S \cup {k}
      BY <3>1 DEF TreeInv, Rooted
    <3> QED
      BY <1>1, <2>1, <2>5, <3>2
  <2> QED
    BY <2>3, <2>4, <2>5
<1>8. ASSUME NEW d \in Shelves, Shelf!Live(d)' PROVE parent'[d] \in Shelf!Places'
  <2>1. Shelf!Live(d) /\ d \notin out /\ parent[d] \in Shelf!Places
        /\ (parent[d] \in out => parent[d] = k)
    BY <1>4, <1>8
  <2>2. CASE parent[d] # k
    <3>1. parent'[d] = parent[d] /\ parent[d] \notin out
      BY <1>1, <2>1, <2>2
    <3>2. ASSUME parent[d] \in Shelves PROVE parent'[parent[d]] # "gone"
      BY <1>1, <1>5, <2>1, <3>1, <3>2, CatalogueAssumption
         DEF Shelf!Places, Shelf!Live, Shelf!Top, Shelf!Gone
    <3> QED
      BY <2>1, <3>1, <3>2 DEF Shelf!Places, Shelf!Live, Shelf!Top, Shelf!Gone
  <2>3. CASE parent[d] = k
    <3>1. parent'[d] = parent[k] /\ parent[k] # "gone"
      BY <1>1, <1>8, <2>1, <2>3 DEF Shelf!Live, Shelf!Gone
    <3>2. CASE parent[k] = "top"
      BY <3>1, <3>2 DEF Shelf!Places, Shelf!Top
    <3>3. CASE parent[k] # "top"
      <4>1. parent[k] \in Shelves /\ parent[parent[k]] # "gone"
        BY <1>5, <3>3 DEF Shelf!Places, Shelf!Live, Shelf!Top, Shelf!Gone
      <4>2. parent[k] \notin out
        <5>1. CASE recursive
          <6>1. k \in Shelf!Within(k) /\ d \notin Shelf!Within(k)
            BY <1>3, <2>1, <5>1 DEF out
          <6>2. k \in Shelf!Above(d)
            BY <2>3, AboveIsClosed DEF Shelf!HasParents
          <6> QED
            BY <2>1, <6>1, <6>2 DEF Shelf!Within
        <5>2. CASE ~recursive
          BY <1>6, <5>2 DEF out
        <5> QED
          BY <5>1, <5>2
      <4>3. parent'[parent[k]] # "gone"
        BY <1>1, <1>5, <4>1, <4>2, CatalogueAssumption DEF Shelf!Places, Shelf!Top
      <4> QED
        BY <3>1, <4>1, <4>3 DEF Shelf!Places, Shelf!Live, Shelf!Gone
    <3> QED
      BY <3>2, <3>3
  <2> QED
    BY <2>2, <2>3
<1> QED
  BY <1>2, <1>7, <1>8 DEF TreeInv, Rooted

LEMMA TreeKeeps == ASSUME TreeInv, Shelf!Writes \/ UNCHANGED <<parent, filed>> PROVE TreeInv'
<1>1. CASE UNCHANGED <<parent, filed>>
  BY <1>1 DEF TreeInv, TreeTypes, Rooted, Shelf!Live, Shelf!Places
<1>2. ASSUME NEW k \in Shelves, NEW i \in Papers, Shelf!Refile(i, k) PROVE TreeInv'
  <2>1. TreeTypes' /\ parent' = parent
    BY <1>2 DEF Shelf!Refile, TreeInv, TreeTypes
  <2> QED
    BY <2>1 DEF TreeInv, Rooted, Shelf!Live, Shelf!Places
<1>3. ASSUME Shelf!DropSearch \/ (\E i \in Papers : Shelf!SetTrashed(i))
             \/ \E q \in {"query", "blank"} : Shelf!SaveSearch(q)
      PROVE  UNCHANGED <<parent, filed>>
  BY <1>3 DEF Shelf!DropSearch, Shelf!SetTrashed, Shelf!SaveSearch, Shelf!tree
<1> QED
  BY <1>1, <1>2, <1>3, CreateRoots, MoveRoots, DeleteRoots DEF Shelf!Writes, Shelf!Top

\* A row says that its collection is gone, or how many items there are.
LEMMA RowsAre ==
  ASSUME TreeTypes, NEW k \in Shelves PROVE Shelf!Rows[k] = -1 <=> ~Shelf!Live(k)
<1> DEFINE found == UNION {filed[d] : d \in Shelf!Within(k)} \ trash
<1>1. found \subseteq Papers
  BY DEF TreeTypes, Shelf!Within
<1>2. IsFiniteSet(found)
  BY <1>1, FS_Subset, CatalogueAssumption
<1>3. Cardinality(found) \in Nat
  BY <1>2, FS_CardinalityType
<1>4. Shelf!Cardinality(found) = Cardinality(found)
  BY DEF Shelf!Cardinality, Cardinality
<1>5. Shelf!Rows[k] = IF Shelf!Live(k) THEN Shelf!Cardinality(found) ELSE -1
  BY DEF Shelf!Rows, Shelf!Absent
<1> HIDE DEF found
<1> QED
  BY <1>3, <1>4, <1>5

LEMMA RowsStay == ASSUME UNCHANGED <<parent, filed, trash>> PROVE Shelf!Rows' = Shelf!Rows
BY DEF Shelf!Rows, Shelf!Live, Shelf!Within, Shelf!Above, Shelf!HasParents

ListInv ==
  ShelfTypes /\ StampsAreExact /\ SeenInTime /\ Shelf!ListedInTime /\ Shelf!ClaimIsHeld

\* A write moves the version, so that nothing is stamped with the new one, and
\* shows its rows to every request.
LEMMA WritesAreSeen == ASSUME ListInv, Shelf!Write PROVE ListInv'
<1>1. /\ shelfVersion' = shelfVersion + 1
      /\ UNCHANGED <<entry, slow, claimed, shelfAt, asked, held, stale>>
      /\ moments' = [r \in Shelf!Runners |-> IF shelfAt[r] = "idle" THEN {}
                                             ELSE moments[r] \cup {Shelf!Rows'}]
  BY DEF Shelf!Write, Shelf!Bump, Shelf!cache, Shelf!request
<1> USE DEF ListInv
<1>2. ShelfTypes' /\ Shelf!ClaimIsHeld'
  BY <1>1 DEF ShelfTypes, Shelf!ClaimIsHeld
<1>3. StampsAreExact'
  BY <1>1 DEF ShelfTypes, StampsAreExact
<1>4. SeenInTime'
  BY <1>1 DEF SeenInTime, Shelf!Runners
<1>5. Shelf!ListedInTime'
  BY <1>1 DEF Shelf!ListedInTime, Shelf!Runners
<1> QED
  BY <1>2, <1>3, <1>4, <1>5

\* A request that is answered was answered in time.
Timely(r) ==
  shelfAt[r] = "answered" =>
    \E m \in moments[r] :
      /\ \A k \in Shelves : m[k] = Shelf!Absent <=> held[r][k] = Shelf!Absent
      /\ stale[r] \/ held[r] = m

LEMMA OthersAreTimely ==
  ASSUME ListInv, NEW r \in Callers,
         shelfAt'[r] = shelfAt[r], moments'[r] = moments[r], held'[r] = held[r], stale'[r] <=> stale[r]
  PROVE  Timely(r)'
<1> SUFFICES ASSUME shelfAt[r] = "answered"
             PROVE  \E m \in moments'[r] :
                      /\ \A k \in Shelves : m[k] = Shelf!Absent <=> held'[r][k] = Shelf!Absent
                      /\ stale'[r] \/ held'[r] = m
  BY DEF Timely, Shelf!Absent
<1>1. PICK m \in moments[r] :
        /\ \A k \in Shelves : m[k] = Shelf!Absent <=> held[r][k] = Shelf!Absent
        /\ stale[r] \/ held[r] = m
  BY DEF ListInv, Shelf!ListedInTime
<1> QED
  BY <1>1

\* The version is read, and the rows as they are have been seen.
LEMMA ReadVersionKeeps ==
  ASSUME ListInv, NEW r \in Callers, Shelf!ReadVersion(r)
  PROVE  ListInv'
<1>1. /\ shelfAt[r] = "idle" /\ shelfAt' = [shelfAt EXCEPT ![r] = "asking"]
      /\ asked' = [asked EXCEPT ![r] = shelfVersion] /\ moments' = [moments EXCEPT ![r] = {Shelf!Rows}]
      /\ UNCHANGED <<shelfVersion, parent, filed, trash, search, entry, slow, claimed, held, stale>>
  BY DEF Shelf!ReadVersion, Shelf!Goes, Shelf!Holds, Shelf!Ends, Shelf!Library, Shelf!Task, Shelf!tree, Shelf!cache
<1>2. Shelf!Rows' = Shelf!Rows
  BY <1>1, RowsStay
<1>3. r \in Shelf!Runners /\ r # "refresh"
  BY CatalogueAssumption DEF Shelf!Runners, Shelf!Task
<1>4. ShelfTypes'
  BY <1>1, <1>3 DEF ListInv, ShelfTypes, Stations
<1>5. StampsAreExact'
  BY <1>1, <1>2, <1>3 DEF ListInv, ShelfTypes, StampsAreExact
<1>6. SeenInTime'
  BY <1>1, <1>2, <1>3 DEF ListInv, ShelfTypes, StampsAreExact, SeenInTime, Shelf!Runners
<1>7. Shelf!ListedInTime'
  <2>1. ASSUME NEW q \in Callers, q # r PROVE Timely(q)'
    BY <1>1, <1>3, <2>1, OthersAreTimely DEF ListInv, ShelfTypes, Shelf!Runners
  <2>2. ASSUME r \in Callers PROVE Timely(r)'
    BY <1>1, <1>3, <2>2 DEF ListInv, ShelfTypes, Timely
  <2> QED
    BY <2>1, <2>2 DEF Timely, Shelf!ListedInTime
<1>8. Shelf!ClaimIsHeld'
  BY <1>1, <1>3 DEF ListInv, ShelfTypes, Shelf!ClaimIsHeld, Shelf!Task
<1> QED
  BY <1>4, <1>5, <1>6, <1>7, <1>8 DEF ListInv

\* An entry of the version that was read has rows that were seen.
LEMMA AnsweredKeeps ==
  ASSUME ListInv, NEW r \in Callers, Shelf!Answered(r)
  PROVE  ListInv'
<1>1. /\ shelfAt[r] = "asking" /\ entry.stamp = asked[r]
      /\ shelfAt' = [shelfAt EXCEPT ![r] = "answered"] /\ held' = [held EXCEPT ![r] = entry.rows]
      /\ UNCHANGED <<shelfVersion, parent, filed, trash, search, entry, slow, claimed, asked, stale, moments>>
  BY DEF Shelf!Answered, Shelf!Goes, Shelf!Holds, Shelf!Ends, Shelf!Library, Shelf!Task, Shelf!tree, Shelf!cache
<1>2. Shelf!Rows' = Shelf!Rows
  BY <1>1, RowsStay
<1>3. r \in Shelf!Runners /\ r # "refresh"
  BY CatalogueAssumption DEF Shelf!Runners, Shelf!Task
<1>4. ShelfTypes'
  BY <1>1, <1>3 DEF ListInv, ShelfTypes, Stations
<1>5. StampsAreExact'
  BY <1>1, <1>2, <1>3 DEF ListInv, ShelfTypes, StampsAreExact
<1>6. SeenInTime'
  BY <1>1, <1>2, <1>3 DEF ListInv, ShelfTypes, StampsAreExact, SeenInTime, Shelf!Runners
<1>7. Shelf!ListedInTime'
  <2>1. ASSUME NEW q \in Callers, q # r PROVE Timely(q)'
    BY <1>1, <1>3, <2>1, OthersAreTimely DEF ListInv, ShelfTypes, Shelf!Runners
  <2>2. ASSUME r \in Callers PROVE Timely(r)'
    <3>1. entry.rows \in moments[r]
      BY <1>1, <2>2 DEF ListInv, SeenInTime
    <3> QED
      BY <1>1, <1>3, <3>1 DEF ListInv, ShelfTypes, Timely
  <2> QED
    BY <2>1, <2>2 DEF Timely, Shelf!ListedInTime
<1>8. Shelf!ClaimIsHeld'
  BY <1>1, <1>3 DEF ListInv, ShelfTypes, Shelf!ClaimIsHeld, Shelf!Task
<1> QED
  BY <1>4, <1>5, <1>6, <1>7, <1>8 DEF ListInv

\* It will count itself.
LEMMA StartCountKeeps ==
  ASSUME ListInv, NEW r \in Callers, Shelf!StartCount(r)
  PROVE  ListInv'
<1>1. /\ shelfAt[r] = "asking" /\ shelfAt' = [shelfAt EXCEPT ![r] = "counting"]
      /\ UNCHANGED <<shelfVersion, parent, filed, trash, search, entry, slow, claimed, asked, held, stale, moments>>
  BY DEF Shelf!StartCount, Shelf!Goes, Shelf!Holds, Shelf!Ends, Shelf!Library, Shelf!Task, Shelf!tree, Shelf!cache
<1>2. Shelf!Rows' = Shelf!Rows
  BY <1>1, RowsStay
<1>3. r \in Shelf!Runners /\ r # "refresh"
  BY CatalogueAssumption DEF Shelf!Runners, Shelf!Task
<1>4. ShelfTypes'
  BY <1>1, <1>3 DEF ListInv, ShelfTypes, Stations
<1>5. StampsAreExact'
  BY <1>1, <1>2, <1>3 DEF ListInv, ShelfTypes, StampsAreExact
<1>6. SeenInTime'
  BY <1>1, <1>2, <1>3 DEF ListInv, ShelfTypes, StampsAreExact, SeenInTime, Shelf!Runners
<1>7. Shelf!ListedInTime'
  <2>1. ASSUME NEW q \in Callers, q # r PROVE Timely(q)'
    BY <1>1, <1>3, <2>1, OthersAreTimely DEF ListInv, ShelfTypes, Shelf!Runners
  <2>2. ASSUME r \in Callers PROVE Timely(r)'
    BY <1>1, <1>3, <2>2 DEF ListInv, ShelfTypes, Timely
  <2> QED
    BY <2>1, <2>2 DEF Timely, Shelf!ListedInTime
<1>8. Shelf!ClaimIsHeld'
  BY <1>1, <1>3 DEF ListInv, ShelfTypes, Shelf!ClaimIsHeld, Shelf!Task
<1> QED
  BY <1>4, <1>5, <1>6, <1>7, <1>8 DEF ListInv

\* The collections of the answer are those that exist at the moment it is reconciled.
LEMMA ReconcileKeeps ==
  ASSUME TreeInv, ListInv, NEW r \in Callers, Shelf!Reconcile(r)
  PROVE  ListInv'
<1>1. /\ shelfAt[r] = "reconciling" /\ shelfAt' = [shelfAt EXCEPT ![r] = "answered"]
      /\ held' = [held EXCEPT ![r] = Shelf!Reconciled(held[r])]
      /\ UNCHANGED <<shelfVersion, parent, filed, trash, search, entry, slow, claimed, asked, stale, moments>>
  BY DEF Shelf!Reconcile, Shelf!Goes, Shelf!Holds, Shelf!Ends, Shelf!Library, Shelf!Task, Shelf!tree, Shelf!cache
<1>2. Shelf!Rows' = Shelf!Rows
  BY <1>1, RowsStay
<1>3. r \in Shelf!Runners /\ r # "refresh"
  BY CatalogueAssumption DEF Shelf!Runners, Shelf!Task
<1>4. ShelfTypes'
  BY <1>1, <1>3 DEF ListInv, ShelfTypes, Stations
<1>5. StampsAreExact'
  BY <1>1, <1>2, <1>3 DEF ListInv, ShelfTypes, StampsAreExact
<1>6. SeenInTime'
  BY <1>1, <1>2, <1>3 DEF ListInv, ShelfTypes, StampsAreExact, SeenInTime, Shelf!Runners
<1>7. Shelf!ListedInTime'
  <2>1. ASSUME NEW q \in Callers, q # r PROVE Timely(q)'
    BY <1>1, <1>3, <2>1, OthersAreTimely DEF ListInv, ShelfTypes, Shelf!Runners
  <2>2. ASSUME r \in Callers PROVE Timely(r)'
    <3>1. Shelf!Rows \in moments[r] /\ stale[r]
      BY <1>1, <2>2 DEF ListInv, SeenInTime
    <3>2. \A k \in Shelves : Shelf!Reconciled(held[r])[k] = Shelf!Absent <=> ~Shelf!Live(k)
      BY DEF Shelf!Reconciled, Shelf!Absent
    <3>3. \A k \in Shelves : Shelf!Rows[k] = Shelf!Absent <=> ~Shelf!Live(k)
      BY RowsAre DEF TreeInv, Shelf!Absent
    <3>4. held'[r] = Shelf!Reconciled(held[r]) /\ moments'[r] = moments[r] /\ stale'[r] = stale[r]
      BY <1>1, <1>3 DEF ListInv, ShelfTypes
    <3> QED
      BY <3>1, <3>2, <3>3, <3>4 DEF Timely
  <2> QED
    BY <2>1, <2>2 DEF Timely, Shelf!ListedInTime
<1>8. Shelf!ClaimIsHeld'
  BY <1>1, <1>3 DEF ListInv, ShelfTypes, Shelf!ClaimIsHeld, Shelf!Task
<1> QED
  BY <1>4, <1>5, <1>6, <1>7, <1>8 DEF ListInv

\* The answer is sent, and with it goes what the request had seen.
LEMMA DoneKeeps ==
  ASSUME ListInv, NEW r \in Callers, Shelf!Done(r)
  PROVE  ListInv'
<1>1. /\ shelfAt[r] = "answered" /\ shelfAt' = [shelfAt EXCEPT ![r] = "idle"]
      /\ held' = [held EXCEPT ![r] = Shelf!NoRows] /\ asked' = [asked EXCEPT ![r] = 0]
      /\ stale' = [stale EXCEPT ![r] = FALSE] /\ moments' = [moments EXCEPT ![r] = {}]
      /\ UNCHANGED <<shelfVersion, parent, filed, trash, search, entry, slow, claimed>>
  BY DEF Shelf!Done, Shelf!Goes, Shelf!Holds, Shelf!Ends, Shelf!Library, Shelf!Task, Shelf!tree, Shelf!cache
<1>2. Shelf!Rows' = Shelf!Rows
  BY <1>1, RowsStay
<1>3. r \in Shelf!Runners /\ r # "refresh"
  BY CatalogueAssumption DEF Shelf!Runners, Shelf!Task
<1>4. ShelfTypes'
  BY <1>1, <1>3 DEF ListInv, ShelfTypes, Stations
<1>5. StampsAreExact'
  BY <1>1, <1>2, <1>3 DEF ListInv, ShelfTypes, StampsAreExact
<1>6. SeenInTime'
  BY <1>1, <1>2, <1>3 DEF ListInv, ShelfTypes, StampsAreExact, SeenInTime, Shelf!Runners
<1>7. Shelf!ListedInTime'
  <2>1. ASSUME NEW q \in Callers, q # r PROVE Timely(q)'
    BY <1>1, <1>3, <2>1, OthersAreTimely DEF ListInv, ShelfTypes, Shelf!Runners
  <2>2. ASSUME r \in Callers PROVE Timely(r)'
    BY <1>1, <1>3, <2>2 DEF ListInv, ShelfTypes, Timely
  <2> QED
    BY <2>1, <2>2 DEF Timely, Shelf!ListedInTime
<1>8. Shelf!ClaimIsHeld'
  BY <1>1, <1>3 DEF ListInv, ShelfTypes, Shelf!ClaimIsHeld, Shelf!Task
<1> QED
  BY <1>4, <1>5, <1>6, <1>7, <1>8 DEF ListInv

\* The rows are counted, under a version read before.
LEMMA CountKeeps ==
  ASSUME ListInv, NEW r \in Shelf!Runners, Shelf!Count(r)
  PROVE  ListInv'
<1>1. /\ shelfAt[r] = "counting" /\ shelfAt' = [shelfAt EXCEPT ![r] = "storing"]
      /\ held' = [held EXCEPT ![r] = Shelf!Rows]
      /\ UNCHANGED <<shelfVersion, parent, filed, trash, search, entry, slow, claimed, asked, stale, moments>>
  BY DEF Shelf!Count, Shelf!Goes, Shelf!Holds, Shelf!Ends, Shelf!Library, Shelf!Task, Shelf!tree, Shelf!cache
<1>2. Shelf!Rows' = Shelf!Rows
  BY <1>1, RowsStay
<1>3. r \in Shelf!Runners
  BY CatalogueAssumption DEF Shelf!Runners, Shelf!Task
<1>4. ShelfTypes'
  BY <1>1, <1>3 DEF ListInv, ShelfTypes, Stations
<1>5. StampsAreExact'
  BY <1>1, <1>2, <1>3 DEF ListInv, ShelfTypes, StampsAreExact
<1>6. SeenInTime'
  BY <1>1, <1>2, <1>3 DEF ListInv, ShelfTypes, StampsAreExact, SeenInTime, Shelf!Runners
<1>7. Shelf!ListedInTime'
  <2>1. ASSUME NEW q \in Callers, q # r PROVE Timely(q)'
    BY <1>1, <1>3, <2>1, OthersAreTimely DEF ListInv, ShelfTypes, Shelf!Runners
  <2>2. ASSUME r \in Callers PROVE Timely(r)'
    BY <1>1, <1>3, <2>2 DEF ListInv, ShelfTypes, Timely
  <2> QED
    BY <2>1, <2>2 DEF Timely, Shelf!ListedInTime
<1>8. Shelf!ClaimIsHeld'
  BY <1>1, <1>3 DEF ListInv, ShelfTypes, Shelf!ClaimIsHeld, Shelf!Task
<1> QED
  BY <1>4, <1>5, <1>6, <1>7, <1>8 DEF ListInv

\* They become the entry.
LEMMA StoreKeeps ==
  ASSUME ListInv, NEW r \in Shelf!Runners, Shelf!Store(r)
  PROVE  ListInv'
<1>1. /\ shelfAt[r] = "storing"
      /\ shelfAt' = [shelfAt EXCEPT ![r] = IF r = "refresh" THEN "releasing" ELSE "answered"]
      /\ entry' = [stamp |-> asked[r], rows |-> held[r]]
      /\ UNCHANGED <<shelfVersion, parent, filed, trash, search, claimed, asked, held, stale, moments>>
  BY DEF Shelf!Store, Shelf!Goes, Shelf!Holds, Shelf!Ends, Shelf!Library, Shelf!Task, Shelf!tree, Shelf!cache
<1>2. Shelf!Rows' = Shelf!Rows
  BY <1>1, RowsStay
<1>3. r \in Shelf!Runners
  BY CatalogueAssumption DEF Shelf!Runners, Shelf!Task
<1>4. ShelfTypes'
  BY <1>1, <1>3 DEF ListInv, ShelfTypes, Stations
<1>5. StampsAreExact'
  BY <1>1, <1>2, <1>3 DEF ListInv, ShelfTypes, StampsAreExact
<1>6. SeenInTime'
  BY <1>1, <1>2, <1>3 DEF ListInv, ShelfTypes, StampsAreExact, SeenInTime, Shelf!Runners
<1>7. Shelf!ListedInTime'
  <2>1. ASSUME NEW q \in Callers, q # r PROVE Timely(q)'
    BY <1>1, <1>3, <2>1, OthersAreTimely DEF ListInv, ShelfTypes, Shelf!Runners
  <2>2. ASSUME r \in Callers PROVE Timely(r)'
    <3>1. held[r] \in moments[r]
      BY <1>1, <1>3, <2>2 DEF ListInv, SeenInTime
    <3> QED
      BY <1>1, <1>3, <3>1 DEF ListInv, ShelfTypes, Timely
  <2> QED
    BY <2>1, <2>2 DEF Timely, Shelf!ListedInTime
<1>8. Shelf!ClaimIsHeld'
  BY <1>1, <1>3 DEF ListInv, ShelfTypes, Shelf!ClaimIsHeld, Shelf!Task
<1> QED
  BY <1>4, <1>5, <1>6, <1>7, <1>8 DEF ListInv

\* The claim is given up with the refresh.
LEMMA ReleaseKeeps ==
  ASSUME ListInv, Shelf!Release
  PROVE  ListInv'
<1>1. /\ shelfAt["refresh"] = "releasing" /\ shelfAt' = [shelfAt EXCEPT !["refresh"] = "idle"]
      /\ ~claimed' /\ claimed' \in BOOLEAN
      /\ held' = [held EXCEPT !["refresh"] = Shelf!NoRows] /\ asked' = [asked EXCEPT !["refresh"] = 0]
      /\ stale' = [stale EXCEPT !["refresh"] = FALSE] /\ moments' = [moments EXCEPT !["refresh"] = {}]
      /\ UNCHANGED <<shelfVersion, parent, filed, trash, search, entry, slow>>
  BY DEF Shelf!Release, Shelf!Goes, Shelf!Holds, Shelf!Ends, Shelf!Library, Shelf!Task, Shelf!tree, Shelf!cache, Shelf!GivesUp
<1>2. Shelf!Rows' = Shelf!Rows
  BY <1>1, RowsStay
<1>3. "refresh" \in Shelf!Runners \ Callers /\ Callers \subseteq Shelf!Runners
  BY CatalogueAssumption DEF Shelf!Runners, Shelf!Task
<1>4. ShelfTypes'
  BY <1>1, <1>3 DEF ListInv, ShelfTypes, Stations
<1>5. StampsAreExact'
  BY <1>1, <1>2, <1>3 DEF ListInv, ShelfTypes, StampsAreExact
<1>6. /\ \A q \in Callers : /\ shelfAt'[q] = shelfAt[q] /\ moments'[q] = moments[q]
                            /\ held'[q] = held[q] /\ (stale'[q] <=> stale[q]) /\ asked'[q] = asked[q]
      /\ \A q \in Shelf!Runners : shelfAt'[q] = "storing" =>
           shelfAt[q] = "storing" /\ asked'[q] = asked[q] /\ held'[q] = held[q]
  BY <1>1, <1>3 DEF ListInv, ShelfTypes
<1>7. SeenInTime'
  BY <1>1, <1>2, <1>3, <1>6 DEF ListInv, SeenInTime
<1>8. Shelf!ListedInTime'
  <2>1. ASSUME NEW q \in Callers PROVE Timely(q)'
    BY <1>3, <1>6, OthersAreTimely DEF Timely
  <2> QED
    BY <2>1 DEF Timely, Shelf!ListedInTime
<1>9. Shelf!ClaimIsHeld'
  BY <1>1, <1>3 DEF ListInv, ShelfTypes, Shelf!ClaimIsHeld, Shelf!Task
<1> QED
  BY <1>4, <1>5, <1>7, <1>8, <1>9 DEF ListInv

\* A refresh that starts has asked for the version this request had read.
LEMMA DeferKeeps ==
  ASSUME ListInv, NEW r \in Callers, Shelf!Defer(r)
  PROVE  ListInv'
<1>1. /\ shelfAt[r] = "asking" /\ claimed' /\ claimed' \in BOOLEAN
      /\ held' = [held EXCEPT ![r] = entry.rows] /\ stale' = [stale EXCEPT ![r] = TRUE]
      /\ \/ /\ claimed /\ shelfAt' = [shelfAt EXCEPT ![r] = "reconciling"]
            /\ UNCHANGED <<asked, moments>>
         \/ /\ ~claimed
            /\ shelfAt' = [shelfAt EXCEPT ![r] = "reconciling", !["refresh"] = "counting"]
            /\ asked' = [asked EXCEPT !["refresh"] = asked[r]]
            /\ moments' = [moments EXCEPT !["refresh"] = {Shelf!Rows}]
      /\ UNCHANGED <<shelfVersion, parent, filed, trash, search, entry, slow>>
  BY DEF Shelf!Defer, Shelf!Goes, Shelf!Holds, Shelf!Ends, Shelf!Library, Shelf!Task, Shelf!tree, Shelf!cache
<1>2. Shelf!Rows' = Shelf!Rows
  BY <1>1, RowsStay
<1>3. "refresh" \in Shelf!Runners \ Callers /\ Callers \subseteq Shelf!Runners
  BY CatalogueAssumption DEF Shelf!Runners, Shelf!Task
<1>4. ShelfTypes'
  BY <1>1, <1>3 DEF ListInv, ShelfTypes, Stations
<1>5. StampsAreExact'
  BY <1>1, <1>2, <1>3 DEF ListInv, ShelfTypes, StampsAreExact
<1>6. /\ shelfAt'[r] = "reconciling" /\ stale'[r] /\ moments'[r] = moments[r] /\ asked'[r] = asked[r]
      /\ \A q \in Callers \ {r} : /\ shelfAt'[q] = shelfAt[q] /\ moments'[q] = moments[q]
                                  /\ held'[q] = held[q] /\ (stale'[q] <=> stale[q]) /\ asked'[q] = asked[q]
      /\ \A q \in Shelf!Runners : shelfAt'[q] = "storing" =>
           shelfAt[q] = "storing" /\ asked'[q] = asked[q] /\ held'[q] = held[q]
  BY <1>1, <1>3 DEF ListInv, ShelfTypes
<1>7. SeenInTime'
  BY <1>1, <1>2, <1>3, <1>6 DEF ListInv, SeenInTime
<1>8. Shelf!ListedInTime'
  <2>1. ASSUME NEW q \in Callers PROVE Timely(q)'
    BY <1>3, <1>6, OthersAreTimely DEF Timely
  <2> QED
    BY <2>1 DEF Timely, Shelf!ListedInTime
<1>9. Shelf!ClaimIsHeld'
  BY <1>1, <1>3 DEF ListInv, ShelfTypes, Shelf!ClaimIsHeld, Shelf!Task
<1> QED
  BY <1>4, <1>5, <1>7, <1>8, <1>9 DEF ListInv

\* The count of a request fails, and the request with it.
LEMMA RequestFails ==
  ASSUME ListInv, NEW r \in Callers, Shelf!CountFails(r)
  PROVE  ListInv'
<1>1. /\ shelfAt[r] = "counting" /\ shelfAt' = [shelfAt EXCEPT ![r] = "idle"]
      /\ held' = [held EXCEPT ![r] = Shelf!NoRows] /\ asked' = [asked EXCEPT ![r] = 0]
      /\ stale' = [stale EXCEPT ![r] = FALSE] /\ moments' = [moments EXCEPT ![r] = {}]
      /\ UNCHANGED <<shelfVersion, parent, filed, trash, search, entry, slow, claimed>>
  BY CatalogueAssumption DEF Shelf!CountFails, Shelf!Goes, Shelf!Holds, Shelf!Ends, Shelf!Library, Shelf!Task, Shelf!tree, Shelf!cache
<1>2. Shelf!Rows' = Shelf!Rows
  BY <1>1, RowsStay
<1>3. r \in Shelf!Runners /\ r # "refresh"
  BY CatalogueAssumption DEF Shelf!Runners, Shelf!Task
<1>4. ShelfTypes'
  BY <1>1, <1>3 DEF ListInv, ShelfTypes, Stations
<1>5. StampsAreExact'
  BY <1>1, <1>2, <1>3 DEF ListInv, ShelfTypes, StampsAreExact
<1>6. SeenInTime'
  BY <1>1, <1>2, <1>3 DEF ListInv, ShelfTypes, StampsAreExact, SeenInTime, Shelf!Runners
<1>7. Shelf!ListedInTime'
  <2>1. ASSUME NEW q \in Callers, q # r PROVE Timely(q)'
    BY <1>1, <1>3, <2>1, OthersAreTimely DEF ListInv, ShelfTypes, Shelf!Runners
  <2>2. Timely(r)'
    BY <1>1, <1>3 DEF ListInv, ShelfTypes, Timely
  <2> QED
    BY <2>1, <2>2 DEF Timely, Shelf!ListedInTime
<1>8. Shelf!ClaimIsHeld'
  BY <1>1, <1>3 DEF ListInv, ShelfTypes, Shelf!ClaimIsHeld, Shelf!Task
<1> QED
  BY <1>4, <1>5, <1>6, <1>7, <1>8 DEF ListInv

\* The refresh goes on to release its claim.
LEMMA RefreshFails ==
  ASSUME ListInv, Shelf!CountFails("refresh")
  PROVE  ListInv'
<1>1. /\ shelfAt["refresh"] = "counting" /\ shelfAt' = [shelfAt EXCEPT !["refresh"] = "releasing"]
      /\ UNCHANGED <<shelfVersion, parent, filed, trash, search, entry, slow, claimed, held, asked, stale, moments>>
  BY DEF Shelf!CountFails, Shelf!Goes, Shelf!Holds, Shelf!Ends, Shelf!Library, Shelf!Task, Shelf!tree, Shelf!cache
<1>2. Shelf!Rows' = Shelf!Rows
  BY <1>1, RowsStay
<1>3. "refresh" \in Shelf!Runners /\ "refresh" \notin Callers
  BY CatalogueAssumption DEF Shelf!Runners, Shelf!Task
<1>4. ShelfTypes'
  BY <1>1, <1>3 DEF ListInv, ShelfTypes, Stations
<1>5. StampsAreExact'
  BY <1>1, <1>2, <1>3 DEF ListInv, ShelfTypes, StampsAreExact
<1>6. SeenInTime'
  BY <1>1, <1>2, <1>3 DEF ListInv, ShelfTypes, StampsAreExact, SeenInTime, Shelf!Runners
<1>7. Shelf!ListedInTime'
  <2>1. ASSUME NEW q \in Callers PROVE Timely(q)'
    BY <1>1, <1>3, OthersAreTimely DEF ListInv, ShelfTypes, Shelf!Runners
  <2> QED
    BY <2>1 DEF Timely, Shelf!ListedInTime
<1>8. Shelf!ClaimIsHeld'
  BY <1>1, <1>3 DEF ListInv, ShelfTypes, Shelf!ClaimIsHeld, Shelf!Task
<1> QED
  BY <1>4, <1>5, <1>6, <1>7, <1>8 DEF ListInv

ShelfInv == TreeInv /\ ListInv

LEMMA ShelfInit == Shelf!Init => ShelfInv
<1> SUFFICES ASSUME Shelf!Init PROVE ShelfInv
  OBVIOUS
<1>1. /\ parent = [k \in Shelves |-> "gone"] /\ filed = [k \in Shelves |-> {}]
      /\ shelfVersion = 0 /\ entry = Shelf!NoEntry /\ ~claimed /\ claimed \in BOOLEAN
      /\ shelfAt = [r \in Shelf!Runners |-> "idle"] /\ asked = [r \in Shelf!Runners |-> 0]
      /\ held = [r \in Shelf!Runners |-> Shelf!NoRows] /\ stale = [r \in Shelf!Runners |-> FALSE]
      /\ moments = [r \in Shelf!Runners |-> {}]
  BY DEF Shelf!Init, Shelf!Gone
<1>2. TreeInv
  BY <1>1 DEF TreeInv, TreeTypes, Rooted, Hangs, Shelf!Live, Shelf!Gone
<1>3. entry.stamp = -1
  BY <1>1 DEF Shelf!NoEntry
<1>4. ShelfTypes /\ StampsAreExact
  BY <1>1, <1>3 DEF ShelfTypes, StampsAreExact, Stations
<1>5. SeenInTime /\ Shelf!ListedInTime /\ Shelf!ClaimIsHeld
  BY <1>1 DEF SeenInTime, Shelf!ListedInTime, Shelf!ClaimIsHeld, Shelf!Runners, Shelf!Task
<1> QED
  BY <1>2, <1>4, <1>5 DEF ShelfInv, ListInv

LEMMA ShelfStep == ShelfInv /\ [Shelf!Next]_shelfVars => ShelfInv'
<1> SUFFICES ASSUME ShelfInv, [Shelf!Next]_shelfVars PROVE ShelfInv'
  OBVIOUS
<1> USE DEF ShelfInv
<1>1. CASE Shelf!Writes
  <2>1. Shelf!Write
    BY <1>1 DEF Shelf!Writes, Shelf!Create, Shelf!Update, Shelf!Delete, Shelf!Refile,
                Shelf!SetTrashed, Shelf!SaveSearch, Shelf!DropSearch
  <2> QED
    BY <1>1, <2>1, TreeKeeps, WritesAreSeen
<1>2. ASSUME NEW r \in Callers,
             \/ Shelf!ReadVersion(r) \/ Shelf!Answered(r) \/ Shelf!StartCount(r) \/ Shelf!Defer(r)
             \/ Shelf!Reconcile(r) \/ Shelf!Count(r) \/ Shelf!Store(r) \/ Shelf!CountFails(r) \/ Shelf!Done(r)
      PROVE  ShelfInv'
  <2>1. UNCHANGED <<parent, filed>>
    BY <1>2 DEF Shelf!ReadVersion, Shelf!Answered, Shelf!StartCount, Shelf!Defer, Shelf!Reconcile,
                Shelf!Count, Shelf!Store, Shelf!CountFails, Shelf!Done, Shelf!Ends, Shelf!Library, Shelf!tree
  <2>2. TreeInv'
    BY <2>1, TreeKeeps
  <2>3. r \in Shelf!Runners
    BY DEF Shelf!Runners
  <2> QED
    BY <1>2, <2>2, <2>3, ReadVersionKeeps, AnsweredKeeps, StartCountKeeps, DeferKeeps, ReconcileKeeps,
       CountKeeps, StoreKeeps, RequestFails, DoneKeeps
<1>3. CASE Shelf!Refresh
  <2>1. UNCHANGED <<parent, filed>>
    BY <1>3 DEF Shelf!Refresh, Shelf!Count, Shelf!Store, Shelf!CountFails, Shelf!Release,
                Shelf!Ends, Shelf!Library, Shelf!tree
  <2>2. TreeInv' /\ "refresh" \in Shelf!Runners
    BY <2>1, TreeKeeps DEF Shelf!Runners, Shelf!Task
  <2> QED
    BY <1>3, <2>2, CountKeeps, StoreKeeps, RefreshFails, ReleaseKeeps DEF Shelf!Refresh, Shelf!Task
<1>4. CASE UNCHANGED shelfVars
  <2>1. TreeInv' /\ Shelf!Rows' = Shelf!Rows
    BY <1>4, TreeKeeps, RowsStay DEF shelfVars
  <2> QED
    BY <1>4, <2>1 DEF shelfVars, ListInv, ShelfTypes, StampsAreExact, SeenInTime,
                      Shelf!ListedInTime, Shelf!ClaimIsHeld, Shelf!Absent
<1> QED
  BY <1>1, <1>2, <1>3, <1>4 DEF Shelf!Next

\* What is above a collection is live, so that the one among it that hangs
\* outside of it hangs from the top.
LEMMA RootedHangs == TreeInv => Shelf!EveryShelfHangs
<1> SUFFICES ASSUME TreeInv, NEW k \in Shelves, Shelf!Live(k)
             PROVE  \E d \in Shelf!Above(k) : parent[d] = Shelf!Top
  BY DEF Shelf!EveryShelfHangs
<1>1. Shelf!Above(k) \in SUBSET {d \in Shelves : Shelf!Live(d)}
  <2> DEFINE live == {d \in Shelves : Shelf!Live(d)}
  <2>1. Shelf!HasParents(live) /\ live \in SUBSET Shelves /\ k \in live
    BY CatalogueAssumption DEF TreeInv, Rooted, Shelf!HasParents, Shelf!Places, Shelf!Live, Shelf!Top
  <2> QED
    BY <2>1, AboveIsLeast
<1>2. PICK d \in Shelf!Above(k) : parent[d] \notin Shelf!Above(k)
  BY <1>1, AboveIsClosed DEF TreeInv, Rooted
<1>3. parent[d] \in Shelf!Places /\ parent[d] \notin Shelves
  BY <1>1, <1>2, AboveIsClosed DEF TreeInv, Rooted, Shelf!HasParents
<1> QED
  BY <1>2, <1>3 DEF Shelf!Places

\* CollectionRepository: whatever is created, moved and deleted, and however
\* deep, every collection hangs from the top; and the claim of a refresh is
\* held exactly while it runs.
THEOREM ShelvesHang == CatalogueSpec => []EveryShelfHangs
<1>1. CatalogueInit => ShelfInv
  BY ShelfInit DEF CatalogueInit
<1>2. [CatalogueNext]_<<part, vars, shelfVars, tagVars, workVars, noteVars, twinVars>> => [Shelf!Next]_shelfVars
  BY DEF CatalogueNext
<1>3. ShelfInv => EveryShelfHangs
  BY RootedHangs DEF ShelfInv, ListInv, EveryShelfHangs
<1> QED
  BY <1>1, <1>2, <1>3, ShelfStep, PTL DEF CatalogueSpec

-----------------------------------------------------------------------------
(***************************************************************************)
(* Tags.                                                                   *)
(***************************************************************************)
TagTypes ==
  /\ tagVersion \in Nat /\ tagList.stamp \in Int
  /\ tagged \in [Tagged -> SUBSET Tags] /\ due \in [Tagged -> SUBSET Tags] /\ known \subseteq Tags
  /\ tagAt = [r \in Editors \cup Readers |-> tagAt[r]]
  /\ tagAsked \in [Readers -> Nat] /\ tagHeld = [r \in Readers |-> tagHeld[r]]
  /\ read \in [Editors -> SUBSET Tags] /\ change = [e \in Editors |-> change[e]]
  /\ \A e \in Editors : tagAt[e] = "read" => change[e].item \in Tagged /\ change[e].tag \in Tags

\* Counts that wait to be remembered, under the present version, are the present ones.
CountsAreExact ==
  /\ tagList.stamp <= tagVersion /\ \A r \in Readers : tagAsked[r] <= tagVersion
  /\ \A r \in Readers : tagAt[r] \in {"putting", "waiting"} /\ tagAsked[r] = tagVersion
                          => tagHeld[r] = Edits!Counts

TagInv == TagTypes /\ CountsAreExact /\ Edits!TagsExact /\ Edits!AddedTagsStay

LEMMA CountsStay == ASSUME UNCHANGED <<known, tagged>> PROVE Edits!Counts' = Edits!Counts
BY DEF Edits!Counts, Edits!Unknown, Edits!Cardinality

\* What moves the version leaves nothing stamped with the new one.
LEMMA NewVersion ==
  ASSUME TagInv, tagVersion' = tagVersion + 1, UNCHANGED <<tagList, tagAsked>>
  PROVE  CountsAreExact' /\ Edits!TagsExact'
BY DEF TagInv, TagTypes, CountsAreExact, Edits!TagsExact

\* An editor reads the tags of an item.
LEMMA ReadTagsKeeps == ASSUME TagInv, NEW e \in Editors, Edits!ReadTags(e) PROVE TagInv'
<1>1. PICK i \in Tagged, t \in Tags, removing \in BOOLEAN :
        /\ change' = [change EXCEPT ![e] = [item |-> i, tag |-> t, removing |-> removing]]
        /\ read' = [read EXCEPT ![e] = tagged[i]]
  BY DEF Edits!ReadTags
<1>2. /\ tagAt[e] = "idle" /\ tagAt' = [tagAt EXCEPT ![e] = "read"]
      /\ UNCHANGED <<tagVersion, known, tagged, tagList, refreshing, tagAsked, tagHeld, due>>
  BY DEF Edits!ReadTags, Edits!Goes, Edits!tables, Edits!cache
<1>3. change'[e].item = i /\ change'[e].tag = t
  BY <1>1 DEF TagInv, TagTypes
<1>4. ASSUME NEW d \in Editors, d # e PROVE change'[d] = change[d] /\ tagAt'[d] = tagAt[d]
  BY <1>1, <1>2, <1>4 DEF TagInv, TagTypes
<1>5. TagTypes'
  <2>1. read' \in [Editors -> SUBSET Tags] /\ change' = [d \in Editors |-> change'[d]]
        /\ tagAt' = [r \in Editors \cup Readers |-> tagAt'[r]]
    BY <1>1, <1>2 DEF TagInv, TagTypes
  <2>2. \A d \in Editors : tagAt'[d] = "read" => change'[d].item \in Tagged /\ change'[d].tag \in Tags
    BY <1>3, <1>4 DEF TagInv, TagTypes
  <2> QED
    BY <1>2, <2>1, <2>2 DEF TagInv, TagTypes
<1>6. CountsAreExact'
  BY <1>2, CountsStay DEF TagInv, TagTypes, CountsAreExact
<1>7. Edits!TagsExact' /\ Edits!AddedTagsStay'
  BY <1>2, CountsStay DEF TagInv, Edits!TagsExact, Edits!AddedTagsStay
<1> QED
  BY <1>5, <1>6, <1>7 DEF TagInv

\* And writes what it made of them: a tag that another editor added since is
\* gone, and is no longer due.
LEMMA WriteTagsKeeps == ASSUME TagInv, NEW e \in Editors, Edits!WriteTags(e) PROVE TagInv'
<1> DEFINE i == change[e].item
           t == change[e].tag
           next == Edits!Changed(e)
<1>1. /\ tagAt[e] = "read" /\ tagAt' = [tagAt EXCEPT ![e] = "idle"]
      /\ change' = [change EXCEPT ![e] = Edits!NoChange] /\ read' = [read EXCEPT ![e] = {}]
      /\ UNCHANGED <<tagList, refreshing, tagAsked, tagHeld>>
  BY DEF Edits!WriteTags, Edits!Goes, Edits!cache
<1>2. i \in Tagged /\ t \in Tags /\ read[e] \subseteq Tags
  BY <1>1 DEF TagInv, TagTypes
<1>3. \/ UNCHANGED <<tagVersion, known, tagged, due>>
      \/ /\ tagVersion' = tagVersion + 1
         /\ known' = known \cup next
         /\ tagged' = [tagged EXCEPT ![i] = next]
         /\ \/ next = read[e] \ {t} /\ due' = [due EXCEPT ![i] = (due[i] \cap read[e]) \ {t}]
            \/ next = read[e] \cup {t} /\ due' = [due EXCEPT ![i] = (due[i] \cap read[e]) \cup {t}]
  <2>1. CASE next = read[e]
    BY <2>1 DEF Edits!WriteTags, Edits!tables
  <2>2. CASE next # read[e]
    <3>1. /\ tagVersion' = tagVersion + 1 /\ known' = known \cup next
          /\ tagged' = [tagged EXCEPT ![i] = next]
          /\ due' = [due EXCEPT ![i] = IF change[e].removing THEN (@ \cap read[e]) \ {t}
                                       ELSE (@ \cap read[e]) \cup {t}]
      BY <2>2 DEF Edits!WriteTags
    <3>2. CASE change[e].removing
      BY <3>1, <3>2 DEF Edits!Changed
    <3>3. CASE ~change[e].removing
      BY <3>1, <3>3 DEF Edits!Changed
    <3> QED
      BY <3>2, <3>3
  <2> QED
    BY <2>1, <2>2
<1> HIDE DEF i, t, next
<1>4. ASSUME NEW d \in Editors, d # e PROVE change'[d] = change[d] /\ tagAt'[d] = tagAt[d]
  BY <1>1, <1>4 DEF TagInv, TagTypes
<1>5. TagTypes'
  <2>1. /\ read' \in [Editors -> SUBSET Tags] /\ change' = [d \in Editors |-> change'[d]]
        /\ tagAt' = [r \in Editors \cup Readers |-> tagAt'[r]] /\ tagAt'[e] = "idle"
    BY <1>1 DEF TagInv, TagTypes
  <2>2. \A d \in Editors : tagAt'[d] = "read" => change'[d].item \in Tagged /\ change'[d].tag \in Tags
    BY <1>4, <2>1 DEF TagInv, TagTypes
  <2>3. /\ tagVersion' \in Nat /\ known' \subseteq Tags
        /\ tagged' \in [Tagged -> SUBSET Tags] /\ due' \in [Tagged -> SUBSET Tags]
    BY <1>2, <1>3 DEF TagInv, TagTypes
  <2> QED
    BY <1>1, <2>1, <2>2, <2>3 DEF TagInv, TagTypes
<1>6. CountsAreExact' /\ Edits!TagsExact'
  <2>1. CASE UNCHANGED <<tagVersion, known, tagged, due>>
    <3>1. \A r \in Readers : tagAt'[r] \in {"putting", "waiting"} => tagAt'[r] = tagAt[r]
      BY <1>1 DEF TagInv, TagTypes
    <3> QED
      BY <1>1, <2>1, <3>1, CountsStay DEF TagInv, TagTypes, CountsAreExact, Edits!TagsExact
  <2>2. CASE tagVersion' = tagVersion + 1
    BY <1>1, <2>2, NewVersion
  <2> QED
    BY <1>3, <2>1, <2>2
<1>7. Edits!AddedTagsStay'
  BY <1>2, <1>3 DEF TagInv, TagTypes, Edits!AddedTagsStay
<1> QED
  BY <1>5, <1>6, <1>7 DEF TagInv

\* A tag is renamed, deleted or coloured.
LEMMA TagsThemselves ==
  ASSUME TagInv, NEW t \in Tags,
         Edits!Delete(t) \/ Edits!SetColor(t) \/ \E to \in Tags : Edits!Rename(t, to)
  PROVE  TagInv'
<1>1. /\ tagVersion' = tagVersion + 1
      /\ UNCHANGED <<tagList, refreshing, tagAt, tagAsked, tagHeld, change, read>>
  BY DEF Edits!Delete, Edits!SetColor, Edits!Rename, Edits!Write, Edits!cache, Edits!local
<1>2. /\ known' \subseteq Tags /\ tagged' \in [Tagged -> SUBSET Tags] /\ due' \in [Tagged -> SUBSET Tags]
      /\ Edits!AddedTagsStay'
  <2>1. CASE Edits!Delete(t)
    BY <2>1 DEF TagInv, TagTypes, Edits!AddedTagsStay, Edits!Delete
  <2>2. CASE Edits!SetColor(t)
    BY <2>2 DEF TagInv, TagTypes, Edits!AddedTagsStay, Edits!SetColor
  <2>3. ASSUME NEW to \in Tags, Edits!Rename(t, to) PROVE <1>2!1 /\ <1>2!2
    BY <2>3 DEF TagInv, TagTypes, Edits!AddedTagsStay, Edits!Rename, Edits!Moved
  <2> QED
    BY <2>1, <2>2, <2>3
<1>3. TagTypes'
  BY <1>1, <1>2 DEF TagInv, TagTypes
<1> QED
  BY <1>1, <1>2, <1>3, NewVersion DEF TagInv

\* A reader, or the refresh that it leaves.
LEMMA ReadersKeep ==
  ASSUME TagInv, NEW r \in Readers,
         \/ Edits!ReadVersion(r) \/ Edits!HandOut(r) \/ Edits!Defer(r)
         \/ Edits!Compute(r) \/ Edits!Put(r) \/ Edits!Release(r)
  PROVE  TagInv'
<1>1. /\ UNCHANGED <<tagVersion, known, tagged, change, read, due>>
      /\ tagAt' \in {[tagAt EXCEPT ![r] = where] :
                       where \in {"idle", "asking", "refreshing", "putting", "waiting", "releasing"}}
  BY DEF Edits!ReadVersion, Edits!HandOut, Edits!Defer, Edits!Compute, Edits!Put, Edits!Release,
         Edits!Library, Edits!tables, Edits!Goes, Edits!Ends
<1>2. /\ tagAsked' \in {tagAsked, [tagAsked EXCEPT ![r] = 0], [tagAsked EXCEPT ![r] = tagVersion]}
      /\ tagHeld' \in {tagHeld, [tagHeld EXCEPT ![r] = Edits!NoCounts], [tagHeld EXCEPT ![r] = Edits!Counts]}
  BY DEF Edits!ReadVersion, Edits!HandOut, Edits!Defer, Edits!Compute, Edits!Put, Edits!Release, Edits!Ends
<1>3. \A q \in Readers \ {r} : tagAt'[q] = tagAt[q] /\ tagAsked'[q] = tagAsked[q] /\ tagHeld'[q] = tagHeld[q]
  BY <1>1, <1>2 DEF TagInv, TagTypes
<1>4. tagAt'[r] \in {"putting", "waiting"} => tagHeld'[r] = Edits!Counts
  <2>1. CASE Edits!Compute(r)
    BY <2>1 DEF TagInv, TagTypes, Edits!Compute
  <2>2. CASE \/ Edits!ReadVersion(r) \/ Edits!HandOut(r) \/ Edits!Defer(r)
             \/ Edits!Put(r) \/ Edits!Release(r)
    BY <2>2 DEF TagInv, TagTypes, Edits!ReadVersion, Edits!HandOut, Edits!Defer, Edits!Put, Edits!Release,
                Edits!Goes, Edits!Ends
  <2> QED
    BY <2>1, <2>2
<1>5. \/ tagList' = tagList
      \/ /\ tagAt[r] \in {"putting", "waiting"}
         /\ tagList'.stamp = tagAsked[r] /\ tagList'.counts = tagHeld[r]
  <2>1. CASE Edits!Put(r)
    BY <2>1 DEF Edits!Put
  <2>2. CASE \/ Edits!ReadVersion(r) \/ Edits!HandOut(r) \/ Edits!Defer(r)
             \/ Edits!Compute(r) \/ Edits!Release(r)
    BY <2>2 DEF Edits!ReadVersion, Edits!HandOut, Edits!Defer, Edits!Compute, Edits!Release, Edits!cache
  <2> QED
    BY <2>1, <2>2
<1>6. Edits!Counts' = Edits!Counts
  BY <1>1, CountsStay
<1>7. TagTypes'
  <2>1. /\ tagAt' = [q \in Editors \cup Readers |-> tagAt'[q]] /\ tagAsked' \in [Readers -> Nat]
        /\ tagHeld' = [q \in Readers |-> tagHeld'[q]]
    BY <1>1, <1>2 DEF TagInv, TagTypes
  <2>2. \A e \in Editors : tagAt'[e] = "read" => tagAt[e] = "read"
    BY <1>1 DEF TagInv, TagTypes
  <2>3. tagList'.stamp \in Int
    BY <1>5 DEF TagInv, TagTypes
  <2> QED
    BY <1>1, <2>1, <2>2, <2>3 DEF TagInv, TagTypes
<1>8. CountsAreExact'
  <2>1. tagList'.stamp <= tagVersion' /\ \A q \in Readers : tagAsked'[q] <= tagVersion'
    BY <1>1, <1>2, <1>3, <1>5 DEF TagInv, TagTypes, CountsAreExact
  <2> QED
    BY <1>1, <1>3, <1>4, <1>6, <2>1 DEF TagInv, CountsAreExact
<1>9. Edits!TagsExact' /\ Edits!AddedTagsStay'
  BY <1>1, <1>5, <1>6 DEF TagInv, TagTypes, CountsAreExact, Edits!TagsExact, Edits!AddedTagsStay
<1> QED
  BY <1>7, <1>8, <1>9 DEF TagInv

LEMMA TagStep == TagInv /\ [Edits!Next]_tagVars => TagInv'
<1> SUFFICES ASSUME TagInv, [Edits!Next]_tagVars PROVE TagInv'
  OBVIOUS
<1>1. ASSUME Edits!Clear \/ UNCHANGED tagVars PROVE TagInv'
  <2>1. /\ UNCHANGED <<tagVersion, known, tagged, tagAt, tagAsked, tagHeld, change, read, due>>
        /\ tagList' = tagList \/ tagList'.stamp = -1
    BY <1>1 DEF Edits!Clear, Edits!Empty, Edits!Library, Edits!tables, tagVars
  <2>2. Edits!Counts' = Edits!Counts
    BY <2>1, CountsStay
  <2> QED
    BY <2>1, <2>2 DEF TagInv, TagTypes, CountsAreExact, Edits!TagsExact, Edits!AddedTagsStay
<1> QED
  BY <1>1, ReadTagsKeeps, WriteTagsKeeps, TagsThemselves, ReadersKeep DEF Edits!Next

LEMMA TagInit == Edits!Init => TagInv
BY DEF Edits!Init, Edits!Empty, TagInv, TagTypes, CountsAreExact, Edits!TagsExact, Edits!AddedTagsStay

LEMMA TagInvariance == CatalogueSpec => []TagInv
<1>1. CatalogueInit => TagInv
  BY TagInit DEF CatalogueInit
<1>2. [CatalogueNext]_<<part, vars, shelfVars, tagVars, workVars, noteVars, twinVars>> => [Edits!Next]_tagVars
  BY DEF CatalogueNext
<1> QED
  BY <1>1, <1>2, TagStep, PTL DEF CatalogueSpec

\* change_tags, rename: what was added to an item stays on it until it is taken
\* away, or until a change that had read the item before is written.
THEOREM TagsStay == CatalogueSpec => []AddedTagsStay
<1>1. TagInv => AddedTagsStay
  BY DEF TagInv, AddedTagsStay
<1> QED
  BY <1>1, TagInvariance, PTL

\* Both lists, of collections and of tags: what is handed out as current was
\* current at some moment of the request, and what is deferred names the
\* collections that exist.
THEOREM ListsInTime == CatalogueSpec => []ListedInTime
<1>1. CatalogueInit => ShelfInv
  BY ShelfInit DEF CatalogueInit
<1>2. [CatalogueNext]_<<part, vars, shelfVars, tagVars, workVars, noteVars, twinVars>> => [Shelf!Next]_shelfVars
  BY DEF CatalogueNext
<1>3. ShelfInv /\ TagInv => ListedInTime
  BY DEF ShelfInv, ListInv, TagInv, ListedInTime
<1> QED
  BY <1>1, <1>2, <1>3, ShelfStep, TagInvariance, PTL DEF CatalogueSpec

-----------------------------------------------------------------------------
(***************************************************************************)
(* References.                                                             *)
(***************************************************************************)
WorkTypes ==
  /\ row \in [Keys -> Nat] /\ \A k \in Keys : row[k] <= MaxRow
  /\ list = [id \in Work!Rowids |-> list[id]]
  /\ votes \in [Works -> Nat] /\ drift \in [Works -> Nat]
  /\ task = [r \in Bringers |-> task[r]]

\* A rowid is of one paper, and a rowid without a paper has no list.
RowsAreOwn ==
  /\ \A k, h \in Work!Held : row[k] = row[h] => k = h
  /\ \A id \in Work!Rowids : (\A k \in Keys : row[k] # id) => list[id] = <<>>

WorkInv == WorkTypes /\ RowsAreOwn /\ Work!VotesAddUp

LEMMA CitersAre ==
  ASSUME NEW w PROVE /\ Work!Citers(w) \subseteq Keys /\ IsFiniteSet(Work!Citers(w))
                     /\ Cardinality(Work!Citers(w)) \in Nat
<1>1. Work!Citers(w) \subseteq Keys
  BY DEF Work!Citers, Work!Held
<1>2. IsFiniteSet(Work!Citers(w))
  BY <1>1, FS_Subset, CatalogueAssumption
<1> QED
  BY <1>1, <1>2, FS_CardinalityType

LEMMA SameCount == ASSUME NEW S PROVE Work!Cardinality(S) = Cardinality(S)
BY DEF Work!Cardinality, Cardinality

\* A paper more, or less, among those that cite.
LEMMA OneLess ==
  ASSUME NEW w, NEW k
  PROVE  /\ IsFiniteSet(Work!Citers(w) \ {k})
         /\ Cardinality(Work!Citers(w) \ {k})
              = Cardinality(Work!Citers(w)) - (IF k \in Work!Citers(w) THEN 1 ELSE 0)
BY CitersAre, FS_RemoveElement

LEMMA OneMore ==
  ASSUME NEW w, NEW k
  PROVE  Cardinality((Work!Citers(w) \ {k}) \cup {k})
           = Cardinality(Work!Citers(w)) - (IF k \in Work!Citers(w) THEN 1 ELSE 0) + 1
<1>1. Cardinality((Work!Citers(w) \ {k}) \cup {k}) = Cardinality(Work!Citers(w) \ {k}) + 1
  BY OneLess, FS_AddElement
<1> QED
  BY <1>1, OneLess

LEMMA HeldRows == ASSUME WorkTypes, NEW k \in Work!Held PROVE k \in Keys /\ row[k] \in Work!Rowids
BY CatalogueAssumption DEF WorkTypes, Work!Held, Work!Rowids

\* A new paper has a rowid that no other has, and no list under it.
LEMMA CreateKeeps == ASSUME WorkInv, NEW k \in Keys, Work!Create(k) PROVE WorkInv'
<1>1. PICK id \in Work!Rowids : row' = [row EXCEPT ![k] = id] /\ \A h \in Work!Held : row[h] < id
  BY DEF Work!Create
<1>2. UNCHANGED <<binned, list, fetched, votes, drift, task>> /\ k \notin Work!Held
  BY DEF Work!Create
<1>3. id \in Nat \ {0} /\ id <= MaxRow
  BY CatalogueAssumption DEF Work!Rowids
<1>4. /\ row'[k] = id /\ row[k] = 0
      /\ \A h \in Keys \ {k} : row'[h] = row[h]
      /\ Work!Held' = Work!Held \cup {k}
  BY <1>1, <1>2, <1>3 DEF WorkInv, WorkTypes, Work!Held
<1>5. WorkTypes'
  BY <1>1, <1>2, <1>3, <1>4 DEF WorkInv, WorkTypes, Work!Rowids
<1>6. \A h \in Keys : row[h] # id
  BY <1>1, <1>3 DEF WorkInv, WorkTypes, Work!Held
<1>7. list[id] = <<>>
  BY <1>6 DEF WorkInv, RowsAreOwn
<1>8. RowsAreOwn'
  <2>1. \A j, h \in Work!Held' : row'[j] = row'[h] => j = h
    BY <1>4, <1>6 DEF WorkInv, RowsAreOwn, Work!Held
  <2>2. ASSUME NEW i \in Work!Rowids, \A h \in Keys : row'[h] # i PROVE list[i] = <<>>
    <3>1. \A h \in Keys : row[h] # i
      BY <1>4, <2>2 DEF Work!Rowids
    <3> QED
      BY <3>1 DEF WorkInv, RowsAreOwn
  <2> QED
    BY <1>2, <2>1, <2>2 DEF RowsAreOwn, Work!Rowids
<1>9. \A w : Work!Citers(w)' = Work!Citers(w)
  <2>1. Work!Distinct(list[id]) = {}
    BY <1>7 DEF Work!Distinct, Work!ToSet
  <2>2. \A h \in Work!Held : h # k /\ row'[h] = row[h]
    BY <1>2, <1>4 DEF Work!Held
  <2> QED
    BY <1>2, <1>4, <2>1, <2>2 DEF Work!Citers, Work!Distinct
<1>10. Work!VotesAddUp'
  BY <1>2, <1>9, SameCount DEF WorkInv, Work!VotesAddUp
<1> QED
  BY <1>5, <1>8, <1>10 DEF WorkInv

\* What a deleted paper cited is counted as drift.
LEMMA DeleteKeeps == ASSUME WorkInv, NEW k \in Keys, Work!Delete(k) PROVE WorkInv'
<1>1. /\ k \in Work!Held /\ row' = [row EXCEPT ![k] = 0]
      /\ list' = [list EXCEPT ![row[k]] = <<>>]
      /\ drift' = [w \in Works |-> drift[w] + (IF w \in Work!Distinct(list[row[k]]) THEN 1 ELSE 0)]
      /\ UNCHANGED <<votes, task>>
  BY DEF Work!Delete
<1>2. row[k] \in Work!Rowids /\ 0 \notin Work!Rowids
  BY <1>1, HeldRows DEF WorkInv, Work!Rowids
<1>3. /\ row'[k] = 0 /\ \A h \in Keys \ {k} : row'[h] = row[h]
      /\ Work!Held' = Work!Held \ {k}
  BY <1>1 DEF WorkInv, WorkTypes, Work!Held
<1>4. /\ list'[row[k]] = <<>>
      /\ \A id \in Work!Rowids \ {row[k]} : list'[id] = list[id]
  BY <1>1, <1>2 DEF WorkInv, WorkTypes
<1>5. \A h \in Work!Held \ {k} : row[h] \in Work!Rowids \ {row[k]}
  BY <1>1, HeldRows DEF WorkInv, RowsAreOwn
<1>6. WorkTypes'
  <2>1. drift' \in [Works -> Nat]
    BY <1>1 DEF WorkInv, WorkTypes
  <2>2. row' \in [Keys -> Nat] /\ \A h \in Keys : row'[h] <= MaxRow
    BY <1>1, <1>3, CatalogueAssumption DEF WorkInv, WorkTypes
  <2> QED
    BY <1>1, <2>1, <2>2 DEF WorkInv, WorkTypes, Work!Rowids
<1>7. RowsAreOwn'
  <2>1. \A j, h \in Work!Held' : row'[j] = row'[h] => j = h
    BY <1>3 DEF WorkInv, RowsAreOwn, Work!Held
  <2>2. ASSUME NEW i \in Work!Rowids, \A h \in Keys : row'[h] # i PROVE list'[i] = <<>>
    <3>1. CASE i = row[k]
      BY <1>4, <3>1
    <3>2. CASE i # row[k]
      BY <1>3, <1>4, <2>2, <3>2 DEF WorkInv, RowsAreOwn
    <3> QED
      BY <3>1, <3>2
  <2> QED
    BY <2>1, <2>2 DEF RowsAreOwn, Work!Rowids
<1>8. ASSUME NEW w \in Works
      PROVE  votes'[w] = Work!Cardinality(Work!Citers(w)') + drift'[w]
  <2>1. Work!Citers(w)' = Work!Citers(w) \ {k}
    BY <1>3, <1>4, <1>5 DEF Work!Citers, Work!Distinct, Work!Held
  <2>2. k \in Work!Citers(w) <=> w \in Work!Distinct(list[row[k]])
    BY <1>1 DEF Work!Citers
  <2>3. votes[w] = Cardinality(Work!Citers(w)) + drift[w]
    BY SameCount DEF WorkInv, Work!VotesAddUp
  <2>4. /\ drift'[w] = drift[w] + (IF k \in Work!Citers(w) THEN 1 ELSE 0)
        /\ votes'[w] = votes[w] /\ drift[w] \in Nat
    BY <1>1, <2>2 DEF WorkInv, WorkTypes
  <2>5. Cardinality(Work!Citers(w)')
          = Cardinality(Work!Citers(w)) - (IF k \in Work!Citers(w) THEN 1 ELSE 0)
    BY <2>1, OneLess
  <2> QED
    BY <2>3, <2>4, <2>5, CitersAre, SameCount
<1> QED
  BY <1>6, <1>7, <1>8 DEF WorkInv, Work!VotesAddUp, Work!Cardinality

\* The old votes of the paper that has the rowid are taken back, and the new
\* ones cast.
LEMMA SetCitationsKeeps == ASSUME WorkInv, NEW r \in Bringers, Work!SetCitations(r) PROVE WorkInv'
<1> DEFINE id == task[r].row
           new == task[r].list
           count(w) == votes[w] - Work!Votes(list[id], w) + Work!Votes(new, w)
<1>1. /\ id \in {row[h] : h \in Work!Held} /\ list' = [list EXCEPT ![id] = new]
      /\ votes' = [w \in Works |-> IF count(w) <= 0 THEN 0 ELSE count(w)]
      /\ task' = [task EXCEPT ![r] = Work!NoTask]
      /\ UNCHANGED <<row, binned, drift>>
  BY DEF Work!SetCitations
<1> HIDE DEF id, new
<1>2. PICK k \in Work!Held : id = row[k]
  BY <1>1
<1>3. id \in Work!Rowids /\ k \in Keys
  BY <1>2, HeldRows DEF WorkInv
<1>4. list'[id] = new /\ \A i \in Work!Rowids \ {id} : list'[i] = list[i]
  BY <1>1, <1>3 DEF WorkInv, WorkTypes
<1>5. \A h \in Work!Held \ {k} : row[h] \in Work!Rowids \ {id}
  BY <1>2, HeldRows DEF WorkInv, RowsAreOwn
<1>6. ASSUME NEW w \in Works
      PROVE  votes'[w] \in Nat /\ votes'[w] = Cardinality(Work!Citers(w)') + drift'[w]
  <2> DEFINE yes == w \in Work!Distinct(new)
  <2>1. Work!Citers(w)' = IF yes THEN (Work!Citers(w) \ {k}) \cup {k} ELSE Work!Citers(w) \ {k}
    BY <1>1, <1>2, <1>4, <1>5 DEF Work!Citers, Work!Distinct, Work!Held
  <2>2. k \in Work!Citers(w) <=> w \in Work!Distinct(list[id])
    BY <1>2 DEF Work!Citers
  <2>3. votes[w] = Cardinality(Work!Citers(w)) + drift[w] /\ drift[w] \in Nat /\ votes[w] \in Nat
    BY SameCount DEF WorkInv, WorkTypes, Work!VotesAddUp
  <2>4. count(w) = votes[w] - (IF k \in Work!Citers(w) THEN 1 ELSE 0) + (IF yes THEN 1 ELSE 0)
    BY <2>2 DEF Work!Votes
  <2>5. Cardinality(Work!Citers(w)')
          = Cardinality(Work!Citers(w)) - (IF k \in Work!Citers(w) THEN 1 ELSE 0) + (IF yes THEN 1 ELSE 0)
    <3>1. Cardinality(Work!Citers(w)) \in Nat
      BY CitersAre
    <3>2. CASE yes
      BY <2>1, <3>1, <3>2, OneMore
    <3>3. CASE ~yes
      BY <2>1, <3>1, <3>3, OneLess
    <3> QED
      BY <3>2, <3>3
  <2>6. k \in Work!Citers(w) => Cardinality(Work!Citers(w)) >= 1
    <3>1. IsFiniteSet(Work!Citers(w)) /\ Cardinality(Work!Citers(w)) \in Nat
      BY CitersAre
    <3>2. Cardinality(Work!Citers(w)) = 0 <=> Work!Citers(w) = {}
      BY <3>1, FS_EmptySet
    <3> QED
      BY <3>1, <3>2
  <2>7. votes'[w] = IF count(w) <= 0 THEN 0 ELSE count(w)
    BY <1>1
  <2>8. drift'[w] = drift[w] /\ Cardinality(Work!Citers(w)) \in Nat
    BY <1>1, CitersAre
  <2> HIDE DEF yes, count
  <2> QED
    BY <2>3, <2>4, <2>5, <2>6, <2>7, <2>8
<1>7. WorkTypes'
  <2>1. votes' = [w \in Works |-> votes'[w]]
    BY <1>1
  <2> QED
    BY <1>1, <1>6, <2>1 DEF WorkInv, WorkTypes, Work!Rowids
<1>8. RowsAreOwn'
  <2>1. ASSUME NEW i \in Work!Rowids, \A h \in Keys : row[h] # i PROVE list'[i] = <<>>
    BY <1>2, <1>3, <1>4, <2>1 DEF WorkInv, RowsAreOwn
  <2> QED
    BY <1>1, <2>1 DEF WorkInv, RowsAreOwn, Work!Rowids, Work!Held
<1>9. Work!VotesAddUp'
  <2>1. \A S : Work!Cardinality(S) = Cardinality(S)
    BY SameCount
  <2> QED
    BY <1>6, <2>1 DEF Work!VotesAddUp, Work!Cardinality, Cardinality
<1> QED
  BY <1>7, <1>8, <1>9 DEF WorkInv

LEMMA WorkStep == WorkInv /\ [Work!Next]_workVars => WorkInv'
<1> SUFFICES ASSUME WorkInv, [Work!Next]_workVars PROVE WorkInv'
  OBVIOUS
<1>1. ASSUME \/ \E k \in Keys : Work!SetTrashed(k)
             \/ \E r \in Bringers : Work!ReadRow(r) \/ Work!Refuse(r)
             \/ UNCHANGED workVars
      PROVE  WorkInv'
  <2>1. UNCHANGED <<row, list, votes, drift>>
    BY <1>1 DEF Work!SetTrashed, Work!ReadRow, Work!Refuse, Work!rows, workVars
  <2>2. task' = [r \in Bringers |-> task'[r]]
    BY <1>1 DEF WorkInv, WorkTypes, Work!SetTrashed, Work!ReadRow, Work!Refuse, workVars
  <2>3. WorkTypes' /\ RowsAreOwn'
    BY <2>1, <2>2 DEF WorkInv, WorkTypes, RowsAreOwn, Work!Held, Work!Rowids
  <2>4. \A w \in Works : Work!Citers(w)' = Work!Citers(w)
    BY <2>1 DEF Work!Citers, Work!Held, Work!Distinct
  <2> QED
    BY <2>1, <2>3, <2>4, SameCount DEF WorkInv, Work!VotesAddUp, Work!Cardinality, Cardinality
<1> QED
  BY <1>1, CreateKeeps, DeleteKeeps, SetCitationsKeeps DEF Work!Next

LEMMA WorkInit == Work!Init => WorkInv
<1> SUFFICES ASSUME Work!Init PROVE WorkInv
  OBVIOUS
<1>1. WorkTypes /\ RowsAreOwn
  BY CatalogueAssumption DEF Work!Init, WorkTypes, RowsAreOwn, Work!Held
<1>2. ASSUME NEW w \in Works PROVE votes[w] = Work!Cardinality(Work!Citers(w)) + drift[w]
  <2>1. Work!Citers(w) = {}
    BY DEF Work!Init, Work!Citers, Work!Held
  <2> QED
    BY <2>1, FS_EmptySet, SameCount DEF Work!Init
<1> QED
  BY <1>1, <1>2 DEF WorkInv, Work!VotesAddUp

\* What follows from it for those who read.
LEMMA ReadsAgree == WorkInv => CitationsAgree
<1> SUFFICES ASSUME WorkInv PROVE Work!CitationsAgree
  BY DEF CitationsAgree
<1>1. ASSUME NEW ranked \in Work!Rankings, NEW n \in DOMAIN Work!Missing(ranked)
      PROVE  LET m == Work!Missing(ranked)[n] IN
             ~Work!Owned(m.work) /\ m.citedBy = Work!Cardinality(Work!Citers(m.work) \ binned) + drift[m.work]
  <2> DEFINE w == ranked[n]
  <2>1. n \in DOMAIN ranked /\ w \in Works /\ ~Work!Owned(w)
    BY <1>1 DEF Work!Rankings, Work!Missing
  <2>2. /\ Work!Missing(ranked)[n].work = w
        /\ Work!Missing(ranked)[n].citedBy = votes[w] - Work!Cardinality(Work!Citers(w) \cap binned)
    BY <1>1 DEF Work!Missing
  <2> HIDE DEF w
  <2>3. votes[w] = Cardinality(Work!Citers(w)) + drift[w] /\ drift[w] \in Nat
    BY <2>1, SameCount DEF WorkInv, WorkTypes, Work!VotesAddUp
  <2>4. Cardinality(Work!Citers(w) \ binned)
          = Cardinality(Work!Citers(w)) - Cardinality(Work!Citers(w) \cap binned)
    BY CitersAre, FS_Difference
  <2>5. Cardinality(Work!Citers(w)) \in Nat /\ Cardinality(Work!Citers(w) \cap binned) \in Nat
    <3>1. IsFiniteSet(Work!Citers(w)) /\ Cardinality(Work!Citers(w)) \in Nat
      BY CitersAre
    <3>2. Work!Citers(w) \cap binned \subseteq Work!Citers(w)
      OBVIOUS
    <3>3. IsFiniteSet(Work!Citers(w) \cap binned)
      BY <3>1, <3>2, FS_Subset
    <3> QED
      BY <3>1, <3>3, FS_CardinalityType
  <2> QED
    BY <2>1, <2>2, <2>3, <2>4, <2>5, SameCount
<1>2. ASSUME NEW k \in Work!Live, NEW h \in Work!Live
      PROVE  k \in Work!CitedBy(h) <=> \E p \in DOMAIN list[row[k]] : h \in Work!Cites(k)[p]
  BY DEF Work!CitedBy, Work!Cites, Work!Citers, Work!Live, Work!Held, Work!Distinct, Work!ToSet
<1> QED
  BY <1>1, <1>2 DEF WorkInv, Work!CitationsAgree

\* set_citations, the cascade, missing, cites and cited_by: the votes of a work
\* are the papers that cite it, and those deleted while they did; what is shown
\* as missing is not held, and both directions of a citation agree.
THEOREM CitationsAddUp == CatalogueSpec => []CitationsAgree
<1>1. CatalogueInit => WorkInv
  BY WorkInit DEF CatalogueInit
<1>2. [CatalogueNext]_<<part, vars, shelfVars, tagVars, workVars, noteVars, twinVars>> => [Work!Next]_workVars
  BY DEF CatalogueNext
<1> QED
  BY <1>1, <1>2, WorkStep, ReadsAgree, PTL DEF CatalogueSpec

-----------------------------------------------------------------------------
(***************************************************************************)
(* Titles of notes.  The counter of a paper is at least every number given *)
(* in it, whatever has become of the notes since; that it is asked along   *)
(* with the titles is why a number that was given is never given again.    *)
(***************************************************************************)
NoteTypes == note = [n \in Notes |-> note[n]] /\ Titling!NotesTypeOK

NumbersCounted == \A p \in NotedPapers : \A i \in DOMAIN given[p] : given[p][i] <= counter[p]

NoteInv == NoteTypes /\ Titling!NoBlankRows /\ NumbersCounted

\* Sets of natural numbers have least elements.
LEMMA Smallest ==
  ASSUME NEW S, S \subseteq Nat, S # {}
  PROVE  \E m \in S : \A k \in S : m <= k
<1>1. IsWellFoundedOn(OpToRel(<, Nat), Nat)
  BY NatLessThanWellFounded
<1>2. \E x \in S : \A y \in S : ~ (<<y, x>> \in OpToRel(<, Nat))
  BY <1>1, WFMin
<1>3. ASSUME NEW x \in S, NEW y \in S, y < x PROVE <<y, x>> \in OpToRel(<, Nat)
  <2>1. <<y, x>> \in Nat \X Nat /\ <<y, x>>[1] = y /\ <<y, x>>[2] = x
    OBVIOUS
  <2>2. <<y, x>>[1] < <<y, x>>[2]
    BY <1>3
  <2> QED BY <2>1, <2>2 DEF OpToRel
<1>4. PICK x \in S : \A y \in S : ~ (<<y, x>> \in OpToRel(<, Nat))
  BY <1>2
<1>5. \A y \in S : ~ (y < x)
  BY <1>3, <1>4
<1>6. \A y \in S : x <= y
  BY <1>5
<1> QED BY <1>6

\* The largest of finitely many numbers.
LEMMA LargestIsThere ==
  ASSUME NEW S, S \subseteq 0 .. Highest, S # {}
  PROVE  Titling!Max(S) \in S /\ \A k \in S : k <= Titling!Max(S)
<1> DEFINE T == {Highest - k : k \in S}
<1>1. Highest \in Nat
  BY CatalogueAssumption
<1>2. T \subseteq Nat /\ T # {}
  <2>1. ASSUME NEW k \in S PROVE Highest - k \in Nat
    <3>1. k \in 0 .. Highest
      OBVIOUS
    <3> HIDE DEF T
    <3> QED BY <1>1, <3>1
  <2>2. ASSUME NEW k \in S PROVE Highest - k \in T
    OBVIOUS
  <2>3. PICK k \in S : TRUE
    OBVIOUS
  <2>4. T \subseteq Nat
    BY <2>1
  <2> QED
    BY <2>2, <2>3, <2>4
<1>3. PICK m \in T : \A k \in T : m <= k
  BY <1>2, Smallest
<1>4. PICK x \in S : m = Highest - x
  OBVIOUS
<1>5. \A k \in S : k <= x
  <2> SUFFICES ASSUME NEW k \in S PROVE k <= x
    OBVIOUS
  <2>1. Highest - k \in T
    OBVIOUS
  <2>2. m <= Highest - k
    BY <1>3, <2>1
  <2>3. k \in 0 .. Highest /\ x \in 0 .. Highest
    OBVIOUS
  <2> HIDE DEF T
  <2> QED
    BY <1>1, <1>4, <2>2, <2>3
<1> QED
  BY <1>5 DEF Titling!Max

LEMMA LastIsLast ==
  ASSUME NoteTypes, NEW p \in NotedPapers
  PROVE  /\ Titling!LastNumber(p) \in 0 .. Highest /\ counter[p] <= Titling!LastNumber(p)
         /\ \A k \in Titling!NumbersIn(p) : k \in Nat /\ k <= Titling!LastNumber(p)
<1> DEFINE S == {counter[p]} \cup Titling!NumbersIn(p)
<1>1. S \subseteq 0 .. Highest /\ S # {} /\ Titling!NumbersIn(p) \subseteq 1 .. Highest
  BY CatalogueAssumption DEF NoteTypes, Titling!NotesTypeOK, Titling!NumbersIn
<1>2. Titling!Max(S) \in S /\ \A k \in S : k <= Titling!Max(S)
  BY <1>1, LargestIsThere
<1> QED
  BY <1>1, <1>2 DEF Titling!LastNumber

LEMMA TitleIsThere ==
  ASSUME NEW title \in Titling!Titles \cup {Untitled}, NEW was \in Texts, NEW text \in Texts
  PROVE  /\ Titling!Retitled(title, was, text) \in Titling!Titles \cup {Untitled}
         /\ Titling!Retitled(title, was, text) = Untitled => TitleOf[text] = Untitled
BY CatalogueAssumption DEF Titling!Retitled, Titling!Ours, Titling!Titles

NoteRows == [paper : NotedPapers, title : Titling!Titles \cup {Untitled}, text : Texts, trashed : BOOLEAN]

LEMMA StoredRow ==
  ASSUME NoteInv, NEW n \in Notes, NEW p \in NotedPapers, NEW title \in Titling!Titles \cup {Untitled},
         NEW text \in Texts, Titling!Stored(n, p, title, text)
  PROVE  /\ note' = [m \in Notes |-> note'[m]] /\ note' \in [Notes -> {Titling!NoNote} \cup NoteRows]
         /\ Titling!NoBlankRows'
<1> DEFINE new == [paper |-> p, title |-> Titling!Retitled(title, Titling!Blank, text), text |-> text, trashed |-> FALSE]
<1>1. note' = [note EXCEPT ![n] = new]
  BY DEF Titling!Stored
<1>2. Titling!Blank \in Texts
  BY CatalogueAssumption DEF Titling!Blank
<1>3. new \in NoteRows /\ (new.title = Untitled => TitleOf[new.text] = Untitled)
  BY <1>2, TitleIsThere DEF NoteRows
<1> HIDE DEF new
<1>4. \A m \in Notes : note'[m] = IF m = n THEN new ELSE note[m]
  BY <1>1 DEF NoteInv, NoteTypes
<1>5. note' = [m \in Notes |-> note'[m]]
  BY <1>1 DEF NoteInv, NoteTypes
<1>6. note' \in [Notes -> {Titling!NoNote} \cup NoteRows]
  BY <1>3, <1>4, <1>5 DEF NoteInv, NoteTypes, Titling!NotesTypeOK, NoteRows
<1>7. Titling!NoBlankRows'
  BY <1>3, <1>4 DEF NoteInv, Titling!NoBlankRows, Titling!Live
<1> QED
  BY <1>5, <1>6, <1>7

LEMMA AppendIs ==
  ASSUME NEW S, NEW z \in Seq(S), NEW x \in S
  PROVE  /\ Len(z) \in Nat /\ Len(Append(z, x)) = Len(z) + 1 /\ Append(z, x)[Len(z) + 1] = x
         /\ \A i \in 1 .. Len(z) : Append(z, x)[i] = z[i] /\ z[i] \in S
         /\ DOMAIN z = 1 .. Len(z) /\ DOMAIN Append(z, x) = 1 .. Len(Append(z, x))
<1>1. Append(z, x) \in Seq(S)
  OBVIOUS
<1>2. Len(z) \in Nat /\ Len(Append(z, x)) = Len(z) + 1 /\ Append(z, x)[Len(z) + 1] = x
  OBVIOUS
<1>3. \A i \in 1 .. Len(z) : Append(z, x)[i] = z[i]
  OBVIOUS
<1>4. \A i \in 1 .. Len(z) : z[i] \in S
  OBVIOUS
<1>5. DOMAIN z = 1 .. Len(z) /\ DOMAIN Append(z, x) = 1 .. Len(Append(z, x))
  BY <1>1
<1> QED
  BY <1>2, <1>3, <1>4, <1>5

LEMMA GatherKeeps ==
  ASSUME NoteInv, NEW n \in Notes, NEW p \in NotedPapers, NEW text \in Texts, Titling!Gather(n, p, text)
  PROVE  NoteInv' /\ Titling!NumberIsNew
<1> DEFINE number == Titling!LastNumber(p) + 1
<1>1. /\ Titling!LastNumber(p) \in 0 .. Highest /\ counter[p] <= Titling!LastNumber(p)
      /\ \A k \in Titling!NumbersIn(p) : k \in Nat /\ k <= Titling!LastNumber(p)
  BY LastIsLast DEF NoteInv
<1>2. /\ Titling!LastNumber(p) < Highest /\ Titling!Stored(n, p, number, text)
      /\ counter' = [counter EXCEPT ![p] = number]
      /\ given' = [given EXCEPT ![p] = Append(@, number)]
  BY DEF Titling!Gather
<1>3. number \in 1 .. Highest /\ counter[p] < number /\ number \in Nat /\ counter[p] \in Nat
      /\ \A k \in Titling!NumbersIn(p) : k < number
  BY <1>1, <1>2, CatalogueAssumption DEF NoteInv, NoteTypes, Titling!NotesTypeOK
<1> HIDE DEF number
<1>4. note' = [m \in Notes |-> note'[m]] /\ note' \in [Notes -> {Titling!NoNote} \cup NoteRows] /\ Titling!NoBlankRows'
  BY <1>2, <1>3, StoredRow DEF Titling!Titles
<1>5. counter' \in [NotedPapers -> 0 .. Highest] /\ counter'[p] = number
      /\ \A q \in NotedPapers \ {p} : counter'[q] = counter[q]
  BY <1>2, <1>3, CatalogueAssumption DEF NoteInv, NoteTypes, Titling!NotesTypeOK
<1>6. given \in [NotedPapers -> Seq(1 .. Highest)] /\ given[p] \in Seq(1 .. Highest)
  BY DEF NoteInv, NoteTypes, Titling!NotesTypeOK
<1>7. /\ given' \in [NotedPapers -> Seq(1 .. Highest)] /\ given'[p] = Append(given[p], number)
      /\ \A q \in NotedPapers \ {p} : given'[q] = given[q]
  BY <1>2, <1>3, <1>6
<1>8. /\ Len(given'[p]) = Len(given[p]) + 1 /\ given'[p][Len(given'[p])] = number /\ Len(given[p]) \in Nat
      /\ \A i \in 1 .. Len(given[p]) : given'[p][i] = given[p][i] /\ given[p][i] \in 1 .. Highest
      /\ DOMAIN given'[p] = 1 .. Len(given'[p]) /\ DOMAIN given[p] = 1 .. Len(given[p])
  <2>1. given'[p] = Append(given[p], number) /\ given'[p] \in Seq(1 .. Highest) /\ given[p] \in Seq(1 .. Highest)
    BY <1>6, <1>7
  <2>2. /\ Len(given[p]) \in Nat /\ Len(Append(given[p], number)) = Len(given[p]) + 1
        /\ Append(given[p], number)[Len(given[p]) + 1] = number
        /\ \A i \in 1 .. Len(given[p]) : Append(given[p], number)[i] = given[p][i] /\ given[p][i] \in 1 .. Highest
        /\ DOMAIN given[p] = 1 .. Len(given[p])
        /\ DOMAIN Append(given[p], number) = 1 .. Len(Append(given[p], number))
    <3> DEFINE S == 1 .. Highest
               z == given[p]
    <3>1. number \in S /\ z \in Seq(S)
      BY <1>3, <2>1
    <3> HIDE DEF S, z
    <3>2. /\ Len(z) \in Nat /\ Len(Append(z, number)) = Len(z) + 1 /\ Append(z, number)[Len(z) + 1] = number
          /\ \A i \in 1 .. Len(z) : Append(z, number)[i] = z[i] /\ z[i] \in S
          /\ DOMAIN z = 1 .. Len(z) /\ DOMAIN Append(z, number) = 1 .. Len(Append(z, number))
      BY <3>1, AppendIs
    <3> QED
      BY <3>2 DEF S, z
  <2> QED
    BY <2>1, <2>2
<1>9. \A i \in DOMAIN given[p] : given[p][i] < number
  BY <1>3, <1>8, CatalogueAssumption DEF NoteInv, NumbersCounted
<1>10. Titling!NumberIsNew
  <2> SUFFICES ASSUME NEW q \in NotedPapers, given'[q] # given[q]
      PROVE  /\ given'[q][Len(given'[q])] \notin Titling!NumbersIn(q)
             /\ \A i \in DOMAIN given[q] : given[q][i] < given'[q][Len(given'[q])]
    BY DEF Titling!NumberIsNew
  <2>1. q = p
    BY <1>7
  <2> QED
    BY <1>3, <1>8, <1>9, <2>1
<1>11. NumbersCounted'
  <2> SUFFICES ASSUME NEW q \in NotedPapers, NEW i \in DOMAIN given'[q] PROVE given'[q][i] <= counter'[q]
    BY DEF NumbersCounted
  <2>1. CASE q # p
    BY <1>5, <1>7, <2>1 DEF NoteInv, NumbersCounted
  <2>2. CASE q = p
    <3>1. i \in 1 .. Len(given[p]) \/ i = Len(given[p]) + 1
      BY <1>8, <2>2
    <3>2. \A j \in 1 .. Len(given[p]) : given'[p][j] < number
      BY <1>8, <1>9
    <3>3. \A j \in 1 .. Len(given[p]) : given'[p][j] \in Nat
      BY <1>8, CatalogueAssumption
    <3> QED
      BY <1>3, <1>5, <1>8, <2>2, <3>1, <3>2, <3>3
  <2> QED
    BY <2>1, <2>2
<1>12. NoteTypes'
  BY <1>4, <1>5, <1>7 DEF NoteTypes, Titling!NotesTypeOK, NoteRows
<1> QED
  BY <1>4, <1>10, <1>11, <1>12 DEF NoteInv

\* Where no number is given, only the rows are at stake.
LEMMA RowsKeep ==
  ASSUME NoteInv, UNCHANGED <<counter, given>>,
         note' = [m \in Notes |-> note'[m]], note' \in [Notes -> {Titling!NoNote} \cup NoteRows],
         Titling!NoBlankRows'
  PROVE  NoteInv' /\ Titling!NumberIsNew
<1>1. NoteTypes' /\ NumbersCounted'
  BY DEF NoteInv, NoteTypes, Titling!NotesTypeOK, NoteRows, NumbersCounted
<1>2. Titling!NumberIsNew
  BY DEF Titling!NumberIsNew
<1> QED
  BY <1>1, <1>2 DEF NoteInv

\* Rows that are what they were, but for the paper and the trash, or gone.
LEMMA SameRows ==
  ASSUME NoteInv, UNCHANGED <<counter, given>>, note' = [m \in Notes |-> note'[m]],
         \A m \in Notes : \/ note'[m] \in {Titling!NoNote, note[m]}
                          \/ /\ m \in Titling!Live /\ note'[m] \in NoteRows
                             /\ note'[m].title = note[m].title /\ note'[m].text = note[m].text
  PROVE  NoteInv' /\ Titling!NumberIsNew
<1>1. note \in [Notes -> {Titling!NoNote} \cup NoteRows]
  BY DEF NoteInv, NoteTypes, Titling!NotesTypeOK, NoteRows
<1>2. note' \in [Notes -> {Titling!NoNote} \cup NoteRows]
  BY <1>1
<1>3. Titling!NoBlankRows'
  <2> SUFFICES ASSUME NEW m \in Notes, note'[m] # Titling!NoNote, note'[m].title = Untitled
               PROVE  TitleOf[note'[m].text] = Untitled
    BY DEF Titling!NoBlankRows, Titling!Live
  <2>1. m \in Titling!Live /\ note'[m].title = note[m].title /\ note'[m].text = note[m].text
    BY DEF Titling!Live
  <2> QED
    BY <2>1 DEF NoteInv, Titling!NoBlankRows
<1> QED
  BY <1>2, <1>3, RowsKeep

LEMMA PatchKeeps ==
  ASSUME NoteInv, NEW n \in Notes, NEW changes \in BOOLEAN, NEW title \in Titling!Titles \cup {Untitled},
         NEW text \in Texts, Titling!Patch(n, changes, title, text)
  PROVE  NoteInv' /\ Titling!NumberIsNew
<1> DEFINE now == Titling!PatchedTitle(n, changes, title, text)
<1>1. n \in Titling!Live /\ note' = [note EXCEPT ![n].title = now, ![n].text = text] /\ UNCHANGED <<counter, given>>
  BY DEF Titling!Patch
<1>2. note[n] \in NoteRows /\ note \in [Notes -> {Titling!NoNote} \cup NoteRows]
  BY <1>1 DEF Titling!Live, NoteInv, NoteTypes, Titling!NotesTypeOK, NoteRows
<1>3. now \in Titling!Titles \cup {Untitled} /\ (now = Untitled => TitleOf[text] = Untitled)
  <2>1. note[n].title \in Titling!Titles \cup {Untitled} /\ note[n].text \in Texts
    BY <1>2 DEF NoteRows
  <2>2. \A old \in {note[n].title, Untitled} :
          /\ Titling!Retitled(old, note[n].text, text) \in Titling!Titles \cup {Untitled}
          /\ Titling!Retitled(old, note[n].text, text) = Untitled => TitleOf[text] = Untitled
    BY <2>1, TitleIsThere
  <2> QED
    BY <2>2 DEF Titling!PatchedTitle
<1> HIDE DEF now
<1>4. note' = [m \in Notes |-> note'[m]] /\ note'[n] = [note[n] EXCEPT !.title = now, !.text = text]
      /\ \A m \in Notes \ {n} : note'[m] = note[m]
  BY <1>1, <1>2
<1>5. note'[n] \in NoteRows /\ note'[n].title = now /\ note'[n].text = text
  BY <1>2, <1>3, <1>4 DEF NoteRows
<1>6. note' \in [Notes -> {Titling!NoNote} \cup NoteRows]
  BY <1>2, <1>4, <1>5
<1>7. Titling!NoBlankRows'
  BY <1>3, <1>4, <1>5 DEF NoteInv, Titling!NoBlankRows, Titling!Live
<1> QED
  BY <1>1, <1>4, <1>6, <1>7, RowsKeep

LEMMA NoteStep == NoteInv /\ [Titling!NotesNext]_noteVars => NoteInv' /\ [Titling!NumberIsNew]_noteVars
<1> SUFFICES ASSUME NoteInv, [Titling!NotesNext]_noteVars PROVE NoteInv' /\ [Titling!NumberIsNew]_noteVars
  OBVIOUS
<1>1. note \in [Notes -> {Titling!NoNote} \cup NoteRows] /\ \A m \in Titling!Live : note[m] \in NoteRows
  BY DEF NoteInv, NoteTypes, Titling!NotesTypeOK, NoteRows, Titling!Live
<1>2. ASSUME NEW n \in Notes, NEW p \in NotedPapers, NEW title \in Titling!Titles \cup {Untitled}, NEW text \in Texts,
             Titling!Write(n, p, title, text)
      PROVE  NoteInv' /\ Titling!NumberIsNew
  BY <1>2, StoredRow, RowsKeep DEF Titling!Write
<1>3. ASSUME NEW n \in Notes, Titling!Trash(n) PROVE NoteInv' /\ Titling!NumberIsNew
  <2>1. UNCHANGED <<counter, given>> /\ n \in Titling!Live /\ note' = [note EXCEPT ![n].trashed = ~@]
    BY <1>3 DEF Titling!Trash
  <2>2. note' = [m \in Notes |-> note'[m]] /\ note'[n] = [note[n] EXCEPT !.trashed = ~@]
        /\ \A m \in Notes \ {n} : note'[m] = note[m]
    BY <1>1, <2>1
  <2>3. note'[n] \in NoteRows /\ note'[n].title = note[n].title /\ note'[n].text = note[n].text
    BY <1>1, <2>1, <2>2 DEF NoteRows
  <2> QED
    BY <2>1, <2>2, <2>3, SameRows
<1>4. ASSUME NEW S, Titling!Remove(S) PROVE NoteInv' /\ Titling!NumberIsNew
  BY <1>4, SameRows DEF Titling!Remove
<1>5. ASSUME NEW p \in NotedPapers, NEW q \in NotedPapers, Titling!Move(p, q) PROVE NoteInv' /\ Titling!NumberIsNew
  <2>1. UNCHANGED <<counter, given>>
        /\ note' = [n \in Notes |-> IF n \in Titling!NotesOf(p) THEN [note[n] EXCEPT !.paper = q] ELSE note[n]]
    BY <1>5 DEF Titling!Move
  <2>2. \A m \in Titling!NotesOf(p) : m \in Titling!Live /\ note'[m] = [note[m] EXCEPT !.paper = q]
    BY <2>1 DEF Titling!NotesOf, Titling!Live
  <2>3. \A m \in Titling!NotesOf(p) : note'[m] \in NoteRows /\ note'[m].title = note[m].title /\ note'[m].text = note[m].text
    BY <1>1, <2>2 DEF NoteRows
  <2>4. \A m \in Notes \ Titling!NotesOf(p) : note'[m] = note[m]
    BY <2>1
  <2>5. note' = [m \in Notes |-> note'[m]]
    BY <2>1
  <2> QED
    BY <2>1, <2>2, <2>3, <2>4, <2>5, SameRows
<1>6. CASE UNCHANGED noteVars
  BY <1>6 DEF noteVars, NoteInv, NoteTypes, Titling!NotesTypeOK, Titling!NoBlankRows, Titling!Live, NumbersCounted
<1>7. CASE Titling!NotesNext
  BY <1>2, <1>3, <1>4, <1>5, <1>7, GatherKeeps, PatchKeeps DEF Titling!NotesNext
<1> QED
  BY <1>6, <1>7

LEMMA NoteInit == Titling!NotesInit => NoteInv
BY CatalogueAssumption DEF Titling!NotesInit, NoteInv, NoteTypes, Titling!NotesTypeOK, Titling!NoBlankRows,
  Titling!Live, Titling!NoNote, NumbersCounted

LEMMA NoteInvariance == CatalogueSpec => []NoteInv
<1>1. CatalogueInit => NoteInv
  BY NoteInit DEF CatalogueInit
<1>2. [CatalogueNext]_<<part, vars, shelfVars, tagVars, workVars, noteVars, twinVars>> => [Titling!NotesNext]_noteVars
  BY DEF CatalogueNext
<1>3. NoteInv /\ [Titling!NotesNext]_noteVars => NoteInv'
  BY NoteStep
<1> QED
  BY <1>1, <1>2, <1>3, PTL DEF CatalogueSpec

-----------------------------------------------------------------------------
(***************************************************************************)
(* Duplicates.  First what folding sets together comes to.                 *)
(***************************************************************************)

\* What has been folded after each set; there is such a function.
IsFolding(found, k, out) ==
  out = [n \in 0 .. k |-> IF n = 0 THEN {} ELSE Twin!Folded(out[n - 1], found[n])]

LEMMA FoldingIsThere ==
  ASSUME NEW found, NEW k \in Nat
  PROVE  \E out : IsFolding(found, k, out)
<1> DEFINE bad == {n \in Nat : \A out : ~ IsFolding(found, n, out)}
<1>1. SUFFICES bad = {}
  OBVIOUS
<1>2. SUFFICES ASSUME bad # {} PROVE FALSE
  OBVIOUS
<1>3. PICK m \in bad : \A n \in bad : m <= n
  BY <1>2, Smallest
<1>4. CASE m = 0
  <2> DEFINE g == [n \in 0 .. 0 |-> {}]
  <2>1. IsFolding(found, 0, g)
    BY DEF IsFolding
  <2> QED
    BY <1>3, <1>4, <2>1
<1>5. CASE m # 0
  <2>1. m - 1 \in Nat /\ m - 1 \notin bad
    BY <1>3, <1>5
  <2>2. PICK h : IsFolding(found, m - 1, h)
    BY <2>1
  <2> DEFINE g == [n \in 0 .. m |-> IF n = m THEN Twin!Folded(h[m - 1], found[m]) ELSE h[n]]
  <2>3. \A n \in 0 .. (m - 1) : h[n] = IF n = 0 THEN {} ELSE Twin!Folded(h[n - 1], found[n])
    BY <2>2 DEF IsFolding
  <2>4. \A n \in 0 .. m : g[n] = IF n = 0 THEN {} ELSE Twin!Folded(g[n - 1], found[n])
    <3> TAKE n \in 0 .. m
    <3>1. CASE n = m
      <4>1. g[n] = Twin!Folded(h[m - 1], found[m]) /\ g[m - 1] = h[m - 1]
        BY <1>5, <3>1
      <4> QED
        BY <1>5, <3>1, <4>1
    <3>2. CASE n = 0
      BY <1>5, <2>1, <2>3, <3>2
    <3>3. CASE n \in 1 .. (m - 1)
      <4>1. g[n] = h[n] /\ g[n - 1] = h[n - 1]
        BY <3>3
      <4> QED
        BY <2>3, <3>3, <4>1
    <3> QED
      BY <3>1, <3>2, <3>3
  <2>5. IsFolding(found, m, g)
    <3>1. g = [n \in 0 .. m |-> g[n]]
      OBVIOUS
    <3> HIDE DEF g
    <3> QED
      BY <2>4, <3>1 DEF IsFolding
  <2> QED
    BY <1>3, <2>5
<1> QED
  BY <1>4, <1>5

\* What is folded from sets is of their members, in groups that are apart, each
\* set in one of them, and none that reaches further than the sets do.
FoldedRight(found, n, groups) ==
  /\ {} \notin groups
  /\ \A g, h \in groups : g # h => g \cap h = {}
  /\ \A i \in 1 .. n : \E g \in groups : found[i] \subseteq g
  /\ \A g \in groups : \A p \in g : \E i \in 1 .. n : p \in found[i]
  /\ \A T : (\A i \in 1 .. n : found[i] \cap T # {} => found[i] \subseteq T)
              => \A g \in groups : g \cap T # {} => g \subseteq T

LEMMA FoldStep ==
  ASSUME NEW found, NEW n \in Nat, n # 0, found[n] # {}, NEW groups, FoldedRight(found, n - 1, groups)
  PROVE  FoldedRight(found, n, Twin!Folded(groups, found[n]))
<1> DEFINE set == found[n]
           touched == {o \in groups : o \cap set # {}}
           whole == set \cup UNION touched
           after == Twin!Folded(groups, set)
<1>1. after = (groups \ touched) \cup {whole}
  BY DEF Twin!Folded
<1>2. \A i \in 1 .. n : i = n \/ i \in 1 .. (n - 1)
  OBVIOUS
<1>3. \A i \in 1 .. (n - 1) : i \in 1 .. n
  OBVIOUS
<1>4. n \in 1 .. n
  OBVIOUS
<1> HIDE DEF after
<1> USE DEF FoldedRight
<1>5. {} \notin after
  BY <1>1
<1>6. \A g, h \in after : g # h => g \cap h = {}
  <2>1. ASSUME NEW g \in groups \ touched PROVE g \cap whole = {}
    <3>1. g \cap set = {}
      OBVIOUS
    <3>2. \A o \in touched : g \cap o = {}
      OBVIOUS
    <3> QED
      BY <3>1, <3>2
  <2> HIDE DEF whole, touched
  <2> QED
    BY <1>1, <2>1
<1>7. \A i \in 1 .. n : \E g \in after : found[i] \subseteq g
  <2> TAKE i \in 1 .. n
  <2>0. whole \in after /\ set \subseteq whole /\ \A o \in touched : o \subseteq whole
    BY <1>1
  <2>1. CASE i = n
    BY <2>0, <2>1
  <2>2. CASE i \in 1 .. (n - 1)
    <3>1. PICK g \in groups : found[i] \subseteq g
      BY <2>2
    <3>2. CASE g \in touched
      BY <2>0, <3>1, <3>2
    <3>3. CASE g \notin touched
      BY <1>1, <3>1, <3>3
    <3> QED
      BY <3>2, <3>3
  <2> QED
    BY <1>2, <2>1, <2>2
<1>8. \A g \in after : \A p \in g : \E i \in 1 .. n : p \in found[i]
  <2> SUFFICES ASSUME NEW g \in after, NEW p \in g PROVE \E i \in 1 .. n : p \in found[i]
    OBVIOUS
  <2>1. CASE p \in set
    BY <1>4, <2>1
  <2>2. CASE p \notin set
    <3>1. \E o \in groups : p \in o
      BY <1>1, <2>2
    <3> QED
      BY <1>3, <3>1
  <2> QED
    BY <2>1, <2>2
<1>9. ASSUME NEW T, \A i \in 1 .. n : found[i] \cap T # {} => found[i] \subseteq T, NEW g \in after, g \cap T # {}
      PROVE  g \subseteq T
  <2>1. \A o \in groups : o \cap T # {} => o \subseteq T
    BY <1>3, <1>9
  <2>2. set \cap T # {} => set \subseteq T
    BY <1>4, <1>9
  <2>3. CASE g = whole
    <3>1. set \cap T # {} \/ \E o \in touched : o \cap T # {}
      BY <1>9, <2>3
    <3>2. set \subseteq T
      BY <2>1, <2>2, <3>1
    <3>3. \A o \in touched : o \subseteq T
      BY <2>1, <3>2
    <3> QED
      BY <2>3, <3>2, <3>3
  <2>4. CASE g # whole
    BY <1>1, <1>9, <2>1, <2>4
  <2> QED
    BY <2>3, <2>4
<1> HIDE DEF FoldedRight
<1> QED
  BY <1>5, <1>6, <1>7, <1>8, <1>9 DEF FoldedRight, after

LEMMA CoalesceRight ==
  ASSUME NEW found, Len(found) \in Nat, \A i \in 1 .. Len(found) : found[i] # {}
  PROVE  FoldedRight(found, Len(found), Twin!Coalesce(found))
<1> DEFINE N == Len(found)
           out == CHOOSE out : IsFolding(found, N, out)
           bad == {n \in Nat : n <= N /\ ~ FoldedRight(found, n, out[n])}
<1>1. IsFolding(found, N, out)
  BY FoldingIsThere
<1>2. \A n \in 0 .. N : out[n] = IF n = 0 THEN {} ELSE Twin!Folded(out[n - 1], found[n])
  BY <1>1 DEF IsFolding
<1>3. Twin!Coalesce(found) = out[N]
  BY DEF Twin!Coalesce, IsFolding
<1> HIDE DEF out
<1>4. bad = {}
  <2> SUFFICES ASSUME bad # {} PROVE FALSE
    OBVIOUS
  <2>1. PICK m \in bad : \A n \in bad : m <= n
    BY Smallest
  <2>2. CASE m = 0
    <3>1. out[0] = {}
      BY <1>2
    <3>2. FoldedRight(found, 0, {})
      BY DEF FoldedRight
    <3> QED
      BY <2>1, <2>2, <3>1, <3>2
  <2>3. CASE m # 0
    <3>1. m - 1 \in Nat /\ m - 1 <= N /\ m - 1 \notin bad /\ m \in 1 .. N
      BY <2>1, <2>3
    <3>2. FoldedRight(found, m - 1, out[m - 1])
      BY <3>1
    <3>3. out[m] = Twin!Folded(out[m - 1], found[m])
      BY <1>2, <2>3, <3>1
    <3>4. FoldedRight(found, m, out[m])
      BY <2>3, <3>1, <3>2, <3>3, FoldStep
    <3> QED
      BY <2>1, <3>4
  <2> QED
    BY <2>2, <2>3
<1> QED
  BY <1>3, <1>4

\* Cardinality is one operator, however it is reached.
LEMMA TwinCount == ASSUME NEW S PROVE Twin!Cardinality(S) = Cardinality(S)
BY DEF Twin!Cardinality, Cardinality

\* Two facts about sizes: of sets with more than one member, and of families of
\* such sets that are apart.
LEMMA MoreThanOne ==
  ASSUME NEW S, IsFiniteSet(S)
  PROVE  Cardinality(S) > 1 <=> \E p, q \in S : p # q
<1>1. ASSUME Cardinality(S) > 1 PROVE \E p, q \in S : p # q
  <2>1. S # {}
    BY <1>1, FS_EmptySet
  <2>2. PICK p \in S : TRUE
    BY <2>1
  <2>3. S # {p}
    BY <1>1, FS_Singleton
  <2> QED
    BY <2>2, <2>3
<1>2. ASSUME NEW p \in S, NEW q \in S, p # q PROVE Cardinality(S) > 1
  <2>1. IsFiniteSet({p}) /\ Cardinality({p}) = 1 /\ {p} \subseteq S /\ {p} # S
    BY <1>2, FS_Singleton
  <2>2. Cardinality({p}) < Cardinality(S)
    BY <2>1, FS_Subset, FS_CardinalityType
  <2> QED
    BY <2>1, <2>2
<1> QED
  BY <1>1, <1>2

\* Of every group one member can be left out that no group shares: groups are at
\* most half as many as papers.
LEMMA GroupsAreFew ==
  ASSUME NEW groups, groups \subseteq SUBSET Doubles,
         \A g \in groups : \E p, q \in g : p # q,
         \A g, h \in groups : g # h => g \cap h = {}
  PROVE  IsFiniteSet(groups) /\ Cardinality(groups) \in Nat /\ 2 * Cardinality(groups) <= Cardinality(Doubles)
<1> DEFINE one == [g \in groups |-> CHOOSE p \in g : TRUE]
           other == [g \in groups |-> CHOOSE p \in g : p # one[g]]
           ones == {one[g] : g \in groups}
           others == {other[g] : g \in groups}
<1>1. \A g \in groups : one[g] \in g /\ other[g] \in g /\ one[g] # other[g]
  <2> TAKE g \in groups
  <2>1. one[g] \in g
    OBVIOUS
  <2> HIDE DEF one
  <2>2. \E p \in g : p # one[g]
    OBVIOUS
  <2> QED
    BY <2>1, <2>2
<1>2. one \in [groups -> ones] /\ other \in [groups -> others]
  OBVIOUS
<1>3. (\A p \in ones : \E g \in groups : one[g] = p) /\ (\A p \in others : \E g \in groups : other[g] = p)
  OBVIOUS
<1> HIDE DEF one, other
<1>4. ones \cup others \subseteq Doubles /\ ones \cap others = {}
  <2>1. \A g, h \in groups : one[g] # other[h]
    BY <1>1
  <2> QED
    BY <1>1, <2>1
<1>5. (\A g, h \in groups : one[g] = one[h] => g = h) /\ (\A g, h \in groups : other[g] = other[h] => g = h)
  BY <1>1
<1> HIDE DEF ones, others
<1>6. IsFiniteSet(ones) /\ IsFiniteSet(others) /\ IsFiniteSet(Doubles)
  BY <1>4, CatalogueAssumption, FS_Subset
<1>7. one \in Injection(groups, ones) /\ one \in Surjection(groups, ones)
  BY <1>2, <1>3, <1>5, Fun_IsInj, Fun_IsSurj
<1>8. other \in Injection(groups, others) /\ other \in Surjection(groups, others)
  BY <1>2, <1>3, <1>5, Fun_IsInj, Fun_IsSurj
<1>9. IsFiniteSet(groups) /\ Cardinality(ones) = Cardinality(groups)
  BY <1>6, <1>7, FS_Injection
<1>10. Cardinality(others) = Cardinality(groups)
  BY <1>6, <1>8, FS_Injection
<1>11. Cardinality(ones \cup others) = Cardinality(ones) + Cardinality(others)
  <2>1. Cardinality(ones \cup others) = Cardinality(ones) + Cardinality(others) - Cardinality(ones \cap others)
    BY <1>6, FS_Union
  <2>2. Cardinality(ones \cap others) = 0
    BY <1>4, FS_EmptySet
  <2>3. Cardinality(ones) \in Nat /\ Cardinality(others) \in Nat
    BY <1>6, FS_CardinalityType
  <2> QED
    BY <2>1, <2>2, <2>3
<1>12. Cardinality(ones \cup others) <= Cardinality(Doubles)
  BY <1>4, <1>6, FS_Subset
<1> QED
  BY <1>6, <1>9, <1>10, <1>11, <1>12, FS_CardinalityType

\* The groups by a key: papers that are in one of them are in it together with
\* everything of their key.
LEMMA GroupsByAre ==
  ASSUME NEW key
  PROVE  /\ Twin!GroupsBy(key) \subseteq SUBSET Doubles
         /\ \A g \in Twin!GroupsBy(key) :
              /\ \E p, q \in g : p # q
              /\ \A p, q \in g : key[p] # None /\ key[p] = key[q]
         /\ \A p, q \in Doubles : p # q /\ key[p] # None /\ key[p] = key[q] =>
              \E g \in Twin!GroupsBy(key) : p \in g /\ q \in g
         /\ \A g, h \in Twin!GroupsBy(key) : g # h => g \cap h = {}
<1> DEFINE keyed == {p \in Doubles : key[p] # None}
           of(p) == {q \in keyed : key[q] = key[p]}
<1>1. \A p \in keyed : of(p) \subseteq Doubles /\ IsFiniteSet(of(p))
  BY CatalogueAssumption, FS_Subset
<1>2. \A p \in keyed : Twin!Cardinality(of(p)) = Cardinality(of(p))
  BY TwinCount
<1>3. Twin!GroupsBy(key) = {S \in {of(p) : p \in keyed} : Twin!Cardinality(S) > 1}
  BY DEF Twin!GroupsBy
<1>4. \A p \in keyed : of(p) \in Twin!GroupsBy(key) <=> \E q, r \in of(p) : q # r
  BY <1>1, <1>2, <1>3, MoreThanOne
<1>5. \A g \in Twin!GroupsBy(key) : \E p \in keyed : g = of(p)
  BY <1>3
<1>6. \A g \in Twin!GroupsBy(key) : \E p, q \in g : p # q
  <2> SUFFICES ASSUME NEW g \in Twin!GroupsBy(key) PROVE \E p, q \in g : p # q
    OBVIOUS
  <2>1. PICK p \in keyed : g = of(p)
    BY <1>5
  <2> HIDE DEF of
  <2> QED
    BY <1>4, <2>1
<1>7. \A g \in Twin!GroupsBy(key) : g \subseteq Doubles /\ \A p, q \in g : key[p] # None /\ key[p] = key[q]
  BY <1>5
<1>8. ASSUME NEW p \in Doubles, NEW q \in Doubles, p # q, key[p] # None, key[p] = key[q]
      PROVE  \E g \in Twin!GroupsBy(key) : p \in g /\ q \in g
  BY <1>4, <1>8
<1>9. \A g, h \in Twin!GroupsBy(key) : g # h => g \cap h = {}
  <2> SUFFICES ASSUME NEW g \in Twin!GroupsBy(key), NEW h \in Twin!GroupsBy(key), NEW x \in g \cap h PROVE g = h
    OBVIOUS
  <2>1. PICK p \in keyed : g = of(p)
    BY <1>5
  <2>2. PICK q \in keyed : h = of(q)
    BY <1>5
  <2> QED
    BY <2>1, <2>2
<1> QED
  BY <1>6, <1>7, <1>8, <1>9

\* Folding everything that is found by identifier and by title comes to what
\* counts as the same paper.
Finds(found) == {found[i] : i \in 1 .. Len(found)}

LEMMA FoundAreComponents ==
  ASSUME NEW found, Len(found) \in Nat, Finds(found) = Twin!GroupsBy(Twin!FingerprintOf) \cup Twin!GroupsBy(Twin!Title)
  PROVE  Twin!Coalesce(found) = Twin!Components
<1> DEFINE groups == Twin!Coalesce(found)
           N == Len(found)
           F == Twin!GroupsBy(Twin!FingerprintOf)
           W == Twin!GroupsBy(Twin!Title)
<1>1. /\ \A S \in F : /\ \E p, q \in S : p # q
                      /\ \A p, q \in S : Twin!FingerprintOf[p] # None /\ Twin!FingerprintOf[p] = Twin!FingerprintOf[q]
      /\ \A S \in W : /\ \E p, q \in S : p # q
                      /\ \A p, q \in S : Twin!Title[p] # None /\ Twin!Title[p] = Twin!Title[q]
      /\ \A S \in F \cup W : S \subseteq Doubles
  BY GroupsByAre
<1>2. \A p, q \in Doubles : Twin!Same(p, q) /\ p # q => \E S \in F \cup W : p \in S /\ q \in S
  BY GroupsByAre DEF Twin!Same
<1>3. \A p \in Doubles : Twin!FingerprintOf[p] # None \/ Twin!Title[p] # None => p \in Twin!Shown
  BY DEF Twin!FingerprintOf, Twin!Title, Twin!Shown
<1>4. \A S \in F \cup W : S \subseteq Twin!Shown /\ \A p, q \in S : Twin!Same(p, q)
  BY <1>1, <1>3 DEF Twin!Same
<1>5. \A i \in 1 .. N : found[i] \in F \cup W
  BY DEF Finds
<1>6. \A S \in F \cup W : \E i \in 1 .. N : found[i] = S
  BY DEF Finds
<1> HIDE DEF F, W, N, groups
<1>7. FoldedRight(found, N, groups)
  <2>1. \A i \in 1 .. N : found[i] # {}
    BY <1>1, <1>5
  <2> QED
    BY <2>1, CoalesceRight DEF N, groups
<1>8. /\ {} \notin groups
      /\ \A g, h \in groups : g # h => g \cap h = {}
      /\ \A S \in F \cup W : \E g \in groups : S \subseteq g
      /\ \A g \in groups : \A p \in g : \E S \in F \cup W : p \in S
      /\ \A T : (\A S \in F \cup W : S \cap T # {} => S \subseteq T)
                  => \A g \in groups : g \cap T # {} => g \subseteq T
  <2>1. /\ {} \notin groups
        /\ \A g, h \in groups : g # h => g \cap h = {}
    BY <1>7 DEF FoldedRight
  <2>2. \A S \in F \cup W : \E g \in groups : S \subseteq g
    BY <1>6, <1>7 DEF FoldedRight
  <2>3. \A g \in groups : \A p \in g : \E S \in F \cup W : p \in S
    BY <1>5, <1>7 DEF FoldedRight
  <2>4. ASSUME NEW T, \A S \in F \cup W : S \cap T # {} => S \subseteq T
        PROVE  \A g \in groups : g \cap T # {} => g \subseteq T
    <3>1. \A i \in 1 .. N : found[i] \cap T # {} => found[i] \subseteq T
      BY <1>5, <2>4
    <3> QED
      BY <1>7, <3>1 DEF FoldedRight
  <2> QED
    BY <2>1, <2>2, <2>3, <2>4
<1>9. \A g \in groups : \A p \in g : \E S \in F \cup W : p \in S /\ S \subseteq g
  BY <1>8
<1>10. \A g \in groups : g \subseteq Twin!Shown
  BY <1>4, <1>8
<1>11. Twin!Shown \subseteq Doubles
  BY DEF Twin!Shown
<1>12. \A g \in groups : Twin!Closed(g)
  <2> SUFFICES ASSUME NEW g \in groups, NEW p \in g, NEW q \in Twin!Shown, Twin!Same(p, q) PROVE q \in g
    BY DEF Twin!Closed
  <2>1. CASE p # q
    <3>1. PICK S \in F \cup W : p \in S /\ q \in S
      BY <1>2, <1>10, <1>11, <2>1
    <3>2. PICK h \in groups : S \subseteq h
      BY <1>8
    <3> QED
      BY <1>8, <3>1, <3>2
  <2> QED
    BY <2>1
<1>13. ASSUME NEW g \in groups, NEW T \in SUBSET Twin!Shown, Twin!Closed(T), g \cap T # {} PROVE g \subseteq T
  <2>1. ASSUME NEW S \in F \cup W, S \cap T # {} PROVE S \subseteq T
    <3>1. PICK p \in S : p \in T
      BY <2>1
    <3>2. \A q \in S : Twin!Same(p, q) /\ q \in Twin!Shown
      BY <1>4
    <3> QED
      BY <1>13, <3>1, <3>2 DEF Twin!Closed
  <2> QED
    BY <1>8, <1>13, <2>1
<1>14. \A S \in SUBSET Twin!Shown : Twin!Cardinality(S) > 1 <=> \E p, q \in S : p # q
  BY <1>11, CatalogueAssumption, FS_Subset, MoreThanOne, TwinCount
<1>15. \A g \in groups : \E p, q \in g : p # q
  <2> TAKE g \in groups
  <2>0. g # {}
    BY <1>8
  <2>1. PICK p \in g : TRUE
    BY <2>0
  <2>2. PICK S \in F \cup W : p \in S /\ S \subseteq g
    BY <1>9
  <2> QED
    BY <1>1, <2>2
<1>16. ASSUME NEW g \in groups PROVE g \in Twin!Components
  <2>1. \A T \in SUBSET g : Twin!Closed(T) => T \in {{}, g}
    BY <1>10, <1>13
  <2> QED
    BY <1>10, <1>12, <1>14, <1>15, <2>1 DEF Twin!Components
<1>17. ASSUME NEW C \in Twin!Components PROVE C \in groups
  <2>1. /\ C \subseteq Twin!Shown /\ Twin!Closed(C) /\ \A T \in SUBSET C : Twin!Closed(T) => T \in {{}, C}
        /\ \E p, q \in C : p # q
    BY <1>14, <1>17 DEF Twin!Components
  <2>2. PICK p \in C : \E q \in C : p # q
    BY <2>1
  <2>3. \E S \in F \cup W : p \in S
    <3> SUFFICES ASSUME \A S \in F \cup W : p \notin S PROVE FALSE
      OBVIOUS
    <3>1. Twin!Closed({p})
      BY <1>2, <1>11, <2>1 DEF Twin!Closed
    <3> QED
      BY <2>1, <2>2, <3>1
  <2>4. PICK g \in groups : p \in g
    BY <1>8, <2>3
  <2>5. Twin!Closed(g \cap C)
    BY <1>12, <2>1 DEF Twin!Closed
  <2>6. g \cap C = C
    BY <2>1, <2>2, <2>4, <2>5
  <2>7. g \subseteq C
    BY <1>13, <2>1, <2>4
  <2> QED
    BY <2>6, <2>7
<1> QED
  BY <1>16, <1>17 DEF groups

\* A scan that is not cut finds every group; what it finds are groups anyway.
LEMMA ScanFinds ==
  ASSUME NEW key, NEW limit \in Nat, NEW s \in Twin!Scanned(Twin!GroupsBy(key), limit)
  PROVE  /\ s \in Seq(Twin!GroupsBy(key))
         /\ Cardinality(Doubles) < 2 * limit => Finds(s) = Twin!GroupsBy(key)
<1> DEFINE groups == Twin!GroupsBy(key)
           N == Cardinality(groups)
<1>1. IsFiniteSet(groups) /\ N \in Nat /\ 2 * N <= Cardinality(Doubles)
  BY GroupsByAre, GroupsAreFew
<1>2. Twin!Cardinality(groups) = N
  BY TwinCount
<1> HIDE DEF groups, N
<1>3. PICK q \in Twin!Scans(groups) : s = SubSeq(q, 1, IF Len(q) < limit THEN Len(q) ELSE limit)
  BY DEF Twin!Scanned, groups
<1>4. q \in [1 .. N -> groups] /\ \A i, j \in 1 .. N : i # j => q[i] # q[j]
  BY <1>2 DEF Twin!Scans, Twin!SetToSeqs
<1>5. q \in Seq(groups) /\ Len(q) = N
  BY <1>1, <1>4
<1>6. s \in Seq(groups)
  BY <1>1, <1>3, <1>5
<1>7. ASSUME Cardinality(Doubles) < 2 * limit PROVE Finds(s) = groups
  <2>1. N < limit
    BY <1>1, <1>7, CatalogueAssumption, FS_CardinalityType
  <2>2. s = SubSeq(q, 1, N)
    BY <1>3, <1>5, <2>1
  <2>3. Len(s) = N /\ \A i \in 1 .. N : s[i] = q[i]
    BY <1>1, <1>5, <2>2
  <2>4. q \in Injection(1 .. N, groups)
    BY <1>4, Fun_IsInj
  <2>5. Cardinality(1 .. N) = N
    BY <1>1, FS_Interval
  <2>6. q \in Surjection(1 .. N, groups)
    BY <1>1, <2>4, <2>5, FS_Injection DEF N
  <2>7. \A g \in groups : \E i \in 1 .. N : q[i] = g
    BY <2>6 DEF Surjection
  <2> QED
    BY <1>4, <2>3, <2>7 DEF Finds
<1> QED
  BY <1>6, <1>7 DEF groups

\* Groups that are apart.
Apart(groups) == groups \subseteq SUBSET Doubles /\ \A S, T \in groups : S # T => S \cap T = {}

\* What requests have found, and what is remembered, is of the version they
\* carry, as long as the library has that version.
Complete(r, v, keys) ==
  twinAsked[r].version = v /\ Cardinality(Doubles) < 2 * twinAsked[r].limit => Finds(scans[r]) = keys

TwinTypes ==
  /\ Twin!DuplicatesTypeOK
  /\ kept = [l \in Limits |-> [version |-> kept[l].version, groups |-> kept[l].groups]]
  /\ twinAsked \in [Scanners -> [version : Nat, limit : Limits]]
  /\ grouped = [r \in Scanners |-> grouped[r]]
  /\ scans \in [Scanners -> Seq(SUBSET Doubles)]

TwinInv ==
  /\ TwinTypes
  /\ \A r \in Scanners : \A i \in 1 .. Len(scans[r]) : \E p, q \in scans[r][i] : p # q
  /\ \A l \in Limits : Apart(kept[l].groups)
  /\ \A r \in Scanners : Apart(grouped[r])
  /\ \A l \in Limits : kept[l].version = twinVersion /\ Cardinality(Doubles) < 2 * l => kept[l].groups = Twin!Components
  /\ \A r \in Scanners :
       /\ twinAt[r] = "titles" => Complete(r, twinVersion, Twin!GroupsBy(Twin!FingerprintOf))
       /\ twinAt[r] = "load" => Complete(r, twinVersion, Twin!GroupsBy(Twin!FingerprintOf) \cup Twin!GroupsBy(Twin!Title))

LEMMA TwinInit == Twin!DuplicatesInit => TwinInv
<1> SUFFICES ASSUME Twin!DuplicatesInit PROVE TwinInv
  OBVIOUS
<1> USE DEF Twin!DuplicatesInit
<1>1. \A l \in Limits : kept[l].version = -1 /\ kept[l].groups = {} /\ kept[l] = [version |-> -1, groups |-> {}]
  BY DEF Twin!NoEntry
<1>2. \A r \in Scanners : twinAt[r] = "idle" /\ scans[r] = <<>> /\ grouped[r] = {} /\ twinAsked[r].version = 0
                          /\ twinAsked[r].limit \in Limits
  OBVIOUS
<1>3. Twin!DuplicatesTypeOK
  BY <1>1, <1>2, CatalogueAssumption DEF Twin!DuplicatesTypeOK
<1>4. TwinTypes
  <2>1. kept = [l \in Limits |-> [version |-> kept[l].version, groups |-> kept[l].groups]]
    BY <1>1
  <2>2. twinAsked \in [Scanners -> [version : Nat, limit : Limits]]
    OBVIOUS
  <2>3. scans \in [Scanners -> Seq(SUBSET Doubles)]
    OBVIOUS
  <2>4. grouped = [r \in Scanners |-> grouped[r]]
    OBVIOUS
  <2> QED
    BY <1>3, <2>1, <2>2, <2>3, <2>4 DEF TwinTypes
<1>5. \A r \in Scanners : \A i \in 1 .. Len(scans[r]) : \E p, q \in scans[r][i] : p # q
  BY <1>2
<1> QED
  BY <1>1, <1>2, <1>4, <1>5 DEF TwinInv, Apart

\* What counts as the same paper changes only with papers.
LEMMA SameTwins ==
  ASSUME UNCHANGED twin
  PROVE  /\ Twin!Components' = Twin!Components
         /\ Twin!GroupsBy(Twin!FingerprintOf)' = Twin!GroupsBy(Twin!FingerprintOf)
         /\ Twin!GroupsBy(Twin!Title)' = Twin!GroupsBy(Twin!Title)
BY DEF Twin!Components, Twin!Closed, Twin!Same, Twin!Shown, Twin!FingerprintOf, Twin!Title, Twin!Listed, Twin!GroupsBy, Twin!Gone

\* What a request that is done with its scans makes of them.
LEMMA LoadRight ==
  ASSUME TwinInv, NEW r \in Scanners, NEW taken \in SUBSET Twin!Coalesce(scans[r]), NEW groups,
         groups = {S \in {{p \in T : twin[p] # Twin!Gone} : T \in taken} : Twin!Cardinality(S) > 1}
  PROVE  /\ Apart(groups)
         /\ twinAt[r] = "load" /\ twinAsked[r].version = twinVersion /\ Cardinality(Doubles) < 2 * twinAsked[r].limit =>
              /\ Twin!Cardinality(Twin!Coalesce(scans[r])) < twinAsked[r].limit
              /\ taken = Twin!Coalesce(scans[r]) => groups = Twin!Components
<1> DEFINE all == Twin!Coalesce(scans[r])
           N == Len(scans[r])
<1>1. scans[r] \in Seq(SUBSET Doubles) /\ N \in Nat /\ \A i \in 1 .. N : scans[r][i] \in SUBSET Doubles
  BY DEF TwinInv, TwinTypes
<1>2. \A i \in 1 .. N : \E p, q \in scans[r][i] : p # q
  BY DEF TwinInv
<1>3. FoldedRight(scans[r], N, all)
  BY <1>1, <1>2, CoalesceRight
<1> HIDE DEF all, N
<1>4. Apart(all)
  BY <1>1, <1>3 DEF FoldedRight, Apart
<1>5. Apart(groups)
  <2>1. \A S \in groups : \E T \in all : S = {p \in T : twin[p] # Twin!Gone}
    BY DEF all
  <2>2. ASSUME NEW S \in groups PROVE S \in SUBSET Doubles
    <3>1. PICK T \in all : S = {p \in T : twin[p] # Twin!Gone}
      BY <2>1
    <3> QED
      BY <1>4, <3>1 DEF Apart
  <2>3. ASSUME NEW S \in groups, NEW U \in groups, S # U PROVE S \cap U = {}
    <3>1. PICK T \in all : S = {p \in T : twin[p] # Twin!Gone}
      BY <2>1
    <3>2. PICK V \in all : U = {p \in V : twin[p] # Twin!Gone}
      BY <2>1
    <3>3. T # V
      BY <2>3, <3>1, <3>2
    <3>4. T \cap V = {}
      BY <1>4, <3>3 DEF Apart
    <3> QED
      BY <3>1, <3>2, <3>4
  <2>4. groups \subseteq SUBSET Doubles
    BY <2>2
  <2> QED
    BY <2>3, <2>4 DEF Apart
<1>6. ASSUME twinAt[r] = "load", twinAsked[r].version = twinVersion, Cardinality(Doubles) < 2 * twinAsked[r].limit
      PROVE  /\ Twin!Cardinality(all) < twinAsked[r].limit
             /\ taken = all => groups = Twin!Components
  <2>1. all = Twin!Components
    BY <1>1, <1>6, FoundAreComponents DEF TwinInv, Complete, all, N
  <2>2. \A S \in SUBSET Doubles : Twin!Cardinality(S) > 1 <=> \E p, q \in S : p # q
    BY CatalogueAssumption, FS_Subset, MoreThanOne, TwinCount
  <2>3. \A S \in all : S \subseteq Twin!Shown /\ S \subseteq Doubles /\ Twin!Cardinality(S) > 1
    BY <1>4, <2>1 DEF Twin!Components, Apart
  <2>4. Cardinality(all) \in Nat /\ 2 * Cardinality(all) <= Cardinality(Doubles)
    BY <1>4, <2>2, <2>3, GroupsAreFew DEF Apart
  <2>5. Cardinality(Doubles) \in Nat /\ twinAsked[r].limit \in Nat
    BY CatalogueAssumption, FS_CardinalityType DEF TwinInv, TwinTypes
  <2>6. Twin!Cardinality(all) < twinAsked[r].limit
    BY <1>6, <2>4, <2>5, TwinCount
  <2>7. ASSUME taken = all PROVE groups = all
    <3>1. \A T \in all : {p \in T : twin[p] # Twin!Gone} = T
      BY <2>3 DEF Twin!Shown, Twin!Listed
    <3>2. ASSUME NEW S \in groups PROVE S \in all
      <4>1. PICK T \in all : S = {p \in T : twin[p] # Twin!Gone}
        BY <2>7
      <4> QED
        BY <3>1, <4>1
    <3>3. ASSUME NEW S \in all PROVE S \in groups
      <4>1. S \in taken /\ S = {p \in S : twin[p] # Twin!Gone} /\ Twin!Cardinality(S) > 1
        BY <2>3, <2>7, <3>1, <3>3
      <4> QED
        BY <4>1
    <3> QED
      BY <3>2, <3>3
  <2> QED
    BY <2>1, <2>6, <2>7
<1> QED
  BY <1>5, <1>6 DEF all

LEMMA TwinWrite ==
  ASSUME TwinInv, NEW p \in Doubles, NEW new \in {Twin!Gone} \cup [record : Records, trashed : BOOLEAN],
         Twin!Write(p, new)
  PROVE  TwinInv'
<1> USE DEF Twin!Write
<1>1. twinVersion \in 0 .. MaxRewrites /\ twinVersion < MaxRewrites /\ twinVersion' = twinVersion + 1 /\ MaxRewrites \in Nat
  BY CatalogueAssumption DEF TwinInv, TwinTypes, Twin!DuplicatesTypeOK
<1>2. kept' = kept /\ twinAt' = twinAt /\ twinAsked' = twinAsked /\ scans' = scans /\ grouped' = grouped
  OBVIOUS
<1>3. \A l \in Limits : kept[l].version \in -1 .. twinVersion /\ kept[l].groups \subseteq SUBSET Doubles
  BY DEF TwinInv, TwinTypes, Twin!DuplicatesTypeOK
<1>4. \A r \in Scanners : twinAsked[r].version \in 0 .. twinVersion /\ twinAsked[r].limit \in Limits
  BY DEF TwinInv, TwinTypes, Twin!DuplicatesTypeOK
<1>5. twin' \in [Doubles -> {Twin!Gone} \cup [record : Records, trashed : BOOLEAN]]
  BY DEF TwinInv, TwinTypes, Twin!DuplicatesTypeOK
<1>6. \A l \in Limits : kept'[l].version \in -1 .. twinVersion' /\ kept'[l].groups \subseteq SUBSET Doubles
                        /\ kept'[l].version # twinVersion'
  BY <1>1, <1>2, <1>3
<1>7. \A r \in Scanners : twinAsked'[r].version \in 0 .. twinVersion' /\ twinAsked'[r].limit \in Limits
                          /\ twinAsked'[r].version # twinVersion'
  BY <1>1, <1>2, <1>4
<1>8. TwinTypes'
  <2>1. Twin!DuplicatesTypeOK'
    BY <1>1, <1>2, <1>5, <1>6, <1>7 DEF TwinInv, TwinTypes, Twin!DuplicatesTypeOK
  <2> QED
    BY <2>1, <1>2 DEF TwinInv, TwinTypes
<1>9. \A r \in Scanners : \A i \in 1 .. Len(scans'[r]) : \E a, b \in scans'[r][i] : a # b
  BY <1>2 DEF TwinInv
<1>10. (\A l \in Limits : Apart(kept[l].groups))' /\ (\A r \in Scanners : Apart(grouped[r]))'
  BY <1>2 DEF TwinInv, Apart
<1>11. \A r \in Scanners :
         /\ (Complete(r, twinVersion, Twin!GroupsBy(Twin!FingerprintOf)))'
         /\ (Complete(r, twinVersion, Twin!GroupsBy(Twin!FingerprintOf) \cup Twin!GroupsBy(Twin!Title)))'
  BY <1>7 DEF Complete
<1> QED
  BY <1>6, <1>8, <1>9, <1>10, <1>11 DEF TwinInv

LEMMA TwinAsk ==
  ASSUME TwinInv, NEW r \in Scanners, NEW l \in Limits, Twin!Ask(r, l)
  PROVE  TwinInv'
<1>1. twin' = twin /\ twinVersion' = twinVersion /\ kept' = kept /\ twinAt[r] = "idle"
      /\ twinAsked' = [twinAsked EXCEPT ![r] = [version |-> twinVersion, limit |-> l]]
  BY DEF Twin!Ask
<1>2. /\ Twin!Components' = Twin!Components
      /\ Twin!GroupsBy(Twin!FingerprintOf)' = Twin!GroupsBy(Twin!FingerprintOf)
      /\ Twin!GroupsBy(Twin!Title)' = Twin!GroupsBy(Twin!Title)
  BY <1>1, SameTwins
<1>3. twinVersion \in Nat /\ twinVersion \in 0 .. twinVersion /\ l \in Nat
  BY CatalogueAssumption DEF TwinInv, TwinTypes, Twin!DuplicatesTypeOK
<1>4. /\ twinAsked' \in [Scanners -> [version : Nat, limit : Limits]]
      /\ \A q \in Scanners : twinAsked'[q].version \in 0 .. twinVersion /\ twinAsked'[q].limit \in Limits
      /\ twinAsked'[r].version = twinVersion /\ twinAsked'[r].limit = l
      /\ \A q \in Scanners \ {r} : twinAsked'[q] = twinAsked[q]
  BY <1>1, <1>3 DEF TwinInv, TwinTypes, Twin!DuplicatesTypeOK
<1>5. CASE kept[l].version = twinVersion
  <2>1. twinAt' = [twinAt EXCEPT ![r] = "done"] /\ grouped' = [grouped EXCEPT ![r] = kept[l].groups] /\ scans' = scans
    BY <1>5 DEF Twin!Ask
  <2>2. twinAt' \in [Scanners -> {"idle", "titles", "load", "done"}] /\ twinAt'[r] = "done"
        /\ \A q \in Scanners \ {r} : twinAt'[q] = twinAt[q]
    BY <2>1 DEF TwinInv, TwinTypes, Twin!DuplicatesTypeOK
  <2>3. grouped' = [q \in Scanners |-> grouped'[q]] /\ grouped'[r] = kept[l].groups
        /\ \A q \in Scanners \ {r} : grouped'[q] = grouped[q]
    BY <2>1 DEF TwinInv, TwinTypes
  <2>4. TwinTypes'
    BY <1>1, <1>4, <2>1, <2>2, <2>3 DEF TwinInv, TwinTypes, Twin!DuplicatesTypeOK
  <2>5. \A q \in Scanners : Apart(grouped'[q])
    BY <2>3 DEF TwinInv
  <2>6. \A q \in Scanners :
       /\ twinAt'[q] = "titles" => Complete(q, twinVersion, Twin!GroupsBy(Twin!FingerprintOf))'
       /\ twinAt'[q] = "load" => Complete(q, twinVersion, Twin!GroupsBy(Twin!FingerprintOf) \cup Twin!GroupsBy(Twin!Title))'
    BY <1>1, <1>2, <1>4, <2>1, <2>2 DEF TwinInv, Complete
  <2>7. \A q \in Scanners : \A i \in 1 .. Len(scans'[q]) : \E a, b \in scans'[q][i] : a # b
    BY <2>1 DEF TwinInv
  <2>8. (\A q \in Scanners : Apart(grouped[q]))' /\ (\A q \in Limits : Apart(kept[q].groups))'
    BY <1>1, <2>5 DEF TwinInv, Apart
  <2>9. \A q \in Limits : kept'[q].version = twinVersion' /\ Cardinality(Doubles) < 2 * q
                          => kept'[q].groups = Twin!Components'
    BY <1>1, <1>2 DEF TwinInv
  <2> QED
    BY <2>4, <2>6, <2>7, <2>8, <2>9 DEF TwinInv
<1>6. CASE kept[l].version # twinVersion
  <2>1. PICK found \in Twin!Scanned(Twin!GroupsBy(Twin!FingerprintOf), l) :
          twinAt' = [twinAt EXCEPT ![r] = "titles"] /\ grouped' = grouped /\ scans' = [scans EXCEPT ![r] = found]
    BY <1>6 DEF Twin!Ask
  <2>2. twinAt' \in [Scanners -> {"idle", "titles", "load", "done"}] /\ twinAt'[r] = "titles"
        /\ \A q \in Scanners \ {r} : twinAt'[q] = twinAt[q]
    BY <2>1 DEF TwinInv, TwinTypes, Twin!DuplicatesTypeOK
  <2>3. /\ found \in Seq(Twin!GroupsBy(Twin!FingerprintOf))
        /\ Cardinality(Doubles) < 2 * l => Finds(found) = Twin!GroupsBy(Twin!FingerprintOf)
    BY <1>3, ScanFinds
  <2>4. /\ Twin!GroupsBy(Twin!FingerprintOf) \subseteq SUBSET Doubles
        /\ \A S \in Twin!GroupsBy(Twin!FingerprintOf) : \E p, q \in S : p # q
    BY GroupsByAre
  <2>5. found \in Seq(SUBSET Doubles) /\ \A i \in 1 .. Len(found) : \E p, q \in found[i] : p # q
    BY <2>3, <2>4
  <2>6. scans' \in [Scanners -> Seq(SUBSET Doubles)] /\ scans'[r] = found
        /\ \A q \in Scanners \ {r} : scans'[q] = scans[q]
    BY <2>1, <2>5 DEF TwinInv, TwinTypes
  <2>7. TwinTypes'
    BY <1>1, <1>4, <2>1, <2>2, <2>6 DEF TwinInv, TwinTypes, Twin!DuplicatesTypeOK
  <2>8. \A q \in Scanners : \A i \in 1 .. Len(scans'[q]) : \E a, b \in scans'[q][i] : a # b
    BY <2>5, <2>6 DEF TwinInv
  <2>9. Complete(r, twinVersion, Twin!GroupsBy(Twin!FingerprintOf))'
    BY <1>2, <1>4, <2>3, <2>6 DEF Complete
  <2>10. \A q \in Scanners :
       /\ twinAt'[q] = "titles" => Complete(q, twinVersion, Twin!GroupsBy(Twin!FingerprintOf))'
       /\ twinAt'[q] = "load" => Complete(q, twinVersion, Twin!GroupsBy(Twin!FingerprintOf) \cup Twin!GroupsBy(Twin!Title))'
    BY ZenonT(30), <1>1, <1>2, <1>4, <2>2, <2>6, <2>9 DEF TwinInv, Complete
  <2> QED
    BY ZenonT(30), <1>1, <1>2, <2>1, <2>7, <2>8, <2>10 DEF TwinInv, Apart
<1> QED
  BY <1>5, <1>6

LEMMA TwinTitles ==
  ASSUME TwinInv, NEW r \in Scanners, Twin!ScanTitles(r)
  PROVE  TwinInv'
<1>1. twin' = twin /\ twinVersion' = twinVersion /\ kept' = kept /\ twinAt[r] = "titles" /\ twinAsked' = twinAsked
      /\ grouped' = grouped /\ twinAt' = [twinAt EXCEPT ![r] = "load"]
  BY DEF Twin!ScanTitles
<1>2. /\ Twin!Components' = Twin!Components
      /\ Twin!GroupsBy(Twin!FingerprintOf)' = Twin!GroupsBy(Twin!FingerprintOf)
      /\ Twin!GroupsBy(Twin!Title)' = Twin!GroupsBy(Twin!Title)
  BY <1>1, SameTwins
<1> DEFINE limit == twinAsked[r].limit
           byTitle == Twin!GroupsBy(Twin!Title)
<1>3. limit \in Nat
  BY CatalogueAssumption DEF TwinInv, TwinTypes, Twin!DuplicatesTypeOK
<1>4. PICK found \in Twin!Scanned(byTitle, limit) : scans' = [scans EXCEPT ![r] = @ \o found]
  BY DEF Twin!ScanTitles
<1>5. /\ found \in Seq(byTitle)
      /\ Cardinality(Doubles) < 2 * limit => Finds(found) = byTitle
  BY <1>3, <1>4, ScanFinds
<1>6. byTitle \subseteq SUBSET Doubles /\ \A S \in byTitle : \E p, q \in S : p # q
  BY GroupsByAre
<1>7. found \in Seq(SUBSET Doubles) /\ \A i \in 1 .. Len(found) : \E p, q \in found[i] : p # q
  BY <1>5, <1>6
<1>8. twinAt' \in [Scanners -> {"idle", "titles", "load", "done"}] /\ twinAt'[r] = "load"
      /\ \A q \in Scanners \ {r} : twinAt'[q] = twinAt[q]
  BY <1>1 DEF TwinInv, TwinTypes, Twin!DuplicatesTypeOK
<1>9. scans[r] \in Seq(SUBSET Doubles)
  BY DEF TwinInv, TwinTypes
<1>10. scans' \in [Scanners -> Seq(SUBSET Doubles)] /\ scans'[r] = scans[r] \o found
       /\ \A q \in Scanners \ {r} : scans'[q] = scans[q]
  BY <1>4, <1>7, <1>9 DEF TwinInv, TwinTypes
<1>11. TwinTypes'
  BY <1>1, <1>8, <1>10 DEF TwinInv, TwinTypes, Twin!DuplicatesTypeOK
<1>12. \A i \in 1 .. Len(scans'[r]) : scans'[r][i] = IF i <= Len(scans[r]) THEN scans[r][i] ELSE found[i - Len(scans[r])]
  BY <1>7, <1>9, <1>10
<1>13. Len(scans'[r]) = Len(scans[r]) + Len(found) /\ Len(scans[r]) \in Nat /\ Len(found) \in Nat
  BY <1>7, <1>9, <1>10
<1>14. \A q \in Scanners : \A i \in 1 .. Len(scans'[q]) : \E a, b \in scans'[q][i] : a # b
  <2>1. \A i \in 1 .. Len(scans[r]) : \E a, b \in scans[r][i] : a # b
    BY DEF TwinInv
  <2>2. ASSUME NEW i \in 1 .. Len(scans'[r]) PROVE \E a, b \in scans'[r][i] : a # b
    <3>1. CASE i <= Len(scans[r])
      BY <1>12, <1>13, <2>1, <3>1
    <3>2. CASE ~ (i <= Len(scans[r]))
      <4>1. i - Len(scans[r]) \in 1 .. Len(found)
        BY <1>13, <3>2
      <4>2. PICK p, q \in found[i - Len(scans[r])] : p # q
        BY <1>7, <4>1
      <4>3. scans'[r][i] = found[i - Len(scans[r])]
        BY <1>12, <3>2
      <4> QED
        BY <4>2, <4>3
    <3> QED
      BY <3>1, <3>2
  <2>3. ASSUME NEW q \in Scanners, NEW i \in 1 .. Len(scans'[q]) PROVE \E a, b \in scans'[q][i] : a # b
    <3>1. CASE q = r
      BY <2>2, <3>1
    <3>2. CASE q # r
      <4>1. scans'[q] = scans[q]
        BY <1>10, <3>2
      <4>2. i \in 1 .. Len(scans[q])
        BY <4>1
      <4>3. \E a, b \in scans[q][i] : a # b
        BY <4>2 DEF TwinInv
      <4> QED
        BY <4>1, <4>3
    <3> QED
      BY <3>1, <3>2
  <2> QED
    BY <2>3
<1>15. Finds(scans'[r]) = Finds(scans[r]) \cup Finds(found)
  <2>1. \A i \in 1 .. Len(scans[r]) : i \in 1 .. Len(scans'[r]) /\ scans'[r][i] = scans[r][i]
    BY <1>12, <1>13
  <2>2. ASSUME NEW i \in 1 .. Len(found)
        PROVE  \E j \in 1 .. Len(scans'[r]) : scans'[r][j] = found[i]
    <3>1. i + Len(scans[r]) \in 1 .. Len(scans'[r]) /\ ~ (i + Len(scans[r]) <= Len(scans[r]))
          /\ (i + Len(scans[r])) - Len(scans[r]) = i
      BY <1>13
    <3>2. scans'[r][i + Len(scans[r])] = found[i]
      BY <1>12, <3>1
    <3> QED
      BY <3>1, <3>2
  <2>3. \A i \in 1 .. Len(scans'[r]) : i \in 1 .. Len(scans[r]) \/ (i - Len(scans[r]) \in 1 .. Len(found)
                                        /\ scans'[r][i] = found[i - Len(scans[r])])
    BY <1>12, <1>13
  <2>4. Finds(scans[r]) \subseteq Finds(scans'[r])
    BY <2>1 DEF Finds
  <2>5. Finds(found) \subseteq Finds(scans'[r])
    BY <2>2 DEF Finds
  <2>6. Finds(scans'[r]) \subseteq Finds(scans[r]) \cup Finds(found)
    <3> SUFFICES ASSUME NEW i \in 1 .. Len(scans'[r]) PROVE scans'[r][i] \in Finds(scans[r]) \cup Finds(found)
      BY DEF Finds
    <3> QED
      BY <2>1, <2>3 DEF Finds
  <2> QED
    BY <2>4, <2>5, <2>6
<1>16. Complete(r, twinVersion, Twin!GroupsBy(Twin!FingerprintOf) \cup byTitle)'
  <2>1. Complete(r, twinVersion, Twin!GroupsBy(Twin!FingerprintOf))
    BY <1>1 DEF TwinInv
  <2> QED
    BY <1>1, <1>2, <1>5, <1>15, <2>1 DEF Complete
<1>17. \A q \in Scanners :
       /\ twinAt'[q] = "titles" => Complete(q, twinVersion, Twin!GroupsBy(Twin!FingerprintOf))'
       /\ twinAt'[q] = "load" => Complete(q, twinVersion, Twin!GroupsBy(Twin!FingerprintOf) \cup Twin!GroupsBy(Twin!Title))'
  BY <1>1, <1>2, <1>8, <1>10, <1>16 DEF TwinInv, Complete
<1> QED
  BY <1>1, <1>2, <1>11, <1>14, <1>17 DEF TwinInv, Apart

LEMMA TwinLoad ==
  ASSUME TwinInv, NEW r \in Scanners, Twin!Load(r)
  PROVE  TwinInv'
<1> DEFINE limit == twinAsked[r].limit
           all == Twin!Coalesce(scans[r])
<1>1. twin' = twin /\ twinVersion' = twinVersion /\ twinAt[r] = "load" /\ twinAsked' = twinAsked
      /\ scans' = scans /\ twinAt' = [twinAt EXCEPT ![r] = "done"]
  BY DEF Twin!Load
<1>2. /\ Twin!Components' = Twin!Components
      /\ Twin!GroupsBy(Twin!FingerprintOf)' = Twin!GroupsBy(Twin!FingerprintOf)
      /\ Twin!GroupsBy(Twin!Title)' = Twin!GroupsBy(Twin!Title)
  BY <1>1, SameTwins
<1>3. PICK taken \in SUBSET all :
        /\ taken = all \/ (Twin!Cardinality(taken) = limit /\ Twin!Cardinality(all) > limit)
        /\ Twin!Cardinality(taken) <= limit
        /\ LET groups == {S \in {{p \in T : twin[p] # Twin!Gone} : T \in taken} : Twin!Cardinality(S) > 1} IN
             /\ grouped' = [grouped EXCEPT ![r] = groups]
             /\ kept' = [kept EXCEPT ![limit] = [version |-> twinAsked[r].version, groups |-> groups]]
  BY DEF Twin!Load, Twin!Stamp
<1> DEFINE groups == {S \in {{p \in T : twin[p] # Twin!Gone} : T \in taken} : Twin!Cardinality(S) > 1}
<1>4. /\ grouped' = [grouped EXCEPT ![r] = groups]
      /\ kept' = [kept EXCEPT ![limit] = [version |-> twinAsked[r].version, groups |-> groups]]
  BY <1>3
<1>5. /\ Apart(groups)
      /\ twinAsked[r].version = twinVersion /\ Cardinality(Doubles) < 2 * limit =>
              /\ Twin!Cardinality(all) < limit
              /\ taken = all => groups = Twin!Components
  BY <1>1, LoadRight
<1>6. limit \in Limits /\ limit \in Nat /\ twinAsked[r].version \in 0 .. twinVersion /\ twinVersion \in Nat
  BY CatalogueAssumption DEF TwinInv, TwinTypes, Twin!DuplicatesTypeOK
<1>7. ASSUME twinAsked[r].version = twinVersion, Cardinality(Doubles) < 2 * limit PROVE groups = Twin!Components
  <2>1. Twin!Cardinality(all) < limit
    BY <1>5, <1>7
  <2>2. IsFiniteSet(all) /\ Cardinality(all) \in Nat
    <3>1. scans[r] \in Seq(SUBSET Doubles) /\ Len(scans[r]) \in Nat
          /\ \A i \in 1 .. Len(scans[r]) : scans[r][i] \in SUBSET Doubles
      BY DEF TwinInv, TwinTypes
    <3>2. FoldedRight(scans[r], Len(scans[r]), all)
      BY <3>1, CoalesceRight DEF TwinInv
    <3>3. all \subseteq SUBSET Doubles
      BY <3>1, <3>2 DEF FoldedRight
    <3> HIDE DEF all
    <3> QED
      BY <3>3, CatalogueAssumption, FS_SUBSET, FS_Subset, FS_CardinalityType
  <2>3. ~ (Twin!Cardinality(all) > limit)
    BY <1>6, <2>1, <2>2, TwinCount
  <2>4. taken = all
    BY <1>3, <2>3
  <2> QED
    BY <1>5, <1>7, <2>4
<1> HIDE DEF groups
<1>8. \A l \in Limits : kept[l].version \in -1 .. twinVersion /\ kept[l].groups \subseteq SUBSET Doubles
  BY DEF TwinInv, TwinTypes, Twin!DuplicatesTypeOK
<1>9. kept' = [l \in Limits |-> [version |-> kept'[l].version, groups |-> kept'[l].groups]]
      /\ kept'[limit].version = twinAsked[r].version /\ kept'[limit].groups = groups
      /\ \A l \in Limits \ {limit} : kept'[l] = kept[l]
  BY <1>4, <1>6 DEF TwinInv, TwinTypes
<1>10. \A l \in Limits : kept'[l].version \in -1 .. twinVersion /\ kept'[l].groups \subseteq SUBSET Doubles
                        /\ Apart(kept'[l].groups)
  BY <1>5, <1>6, <1>8, <1>9 DEF TwinInv, Apart
<1>11. \A l \in Limits : kept'[l].version = twinVersion /\ Cardinality(Doubles) < 2 * l
                        => kept'[l].groups = Twin!Components
  BY <1>6, <1>7, <1>9 DEF TwinInv
<1>12. grouped' = [q \in Scanners |-> grouped'[q]] /\ \A q \in Scanners : Apart(grouped'[q])
  BY <1>4, <1>5 DEF TwinInv, TwinTypes
<1>13. twinAt' \in [Scanners -> {"idle", "titles", "load", "done"}] /\ twinAt'[r] = "done"
       /\ \A q \in Scanners \ {r} : twinAt'[q] = twinAt[q]
  BY <1>1 DEF TwinInv, TwinTypes, Twin!DuplicatesTypeOK
<1>14. Twin!DuplicatesTypeOK'
  BY <1>1, <1>10, <1>13 DEF TwinInv, TwinTypes, Twin!DuplicatesTypeOK
<1>15. TwinTypes'
  BY <1>1, <1>9, <1>12, <1>14 DEF TwinInv, TwinTypes
<1>16. \A q \in Scanners :
       /\ twinAt'[q] = "titles" => Complete(q, twinVersion, Twin!GroupsBy(Twin!FingerprintOf))'
       /\ twinAt'[q] = "load" => Complete(q, twinVersion, Twin!GroupsBy(Twin!FingerprintOf) \cup Twin!GroupsBy(Twin!Title))'
  BY <1>1, <1>2, <1>13 DEF TwinInv, Complete
<1>17. \A q \in Scanners : \A i \in 1 .. Len(scans'[q]) : \E a, b \in scans'[q][i] : a # b
  BY <1>1 DEF TwinInv
<1>18. (\A q \in Scanners : Apart(grouped[q]))' /\ (\A l \in Limits : Apart(kept[l].groups))'
  BY <1>10, <1>12 DEF Apart
<1> QED
  BY <1>1, <1>2, <1>11, <1>15, <1>16, <1>17, <1>18 DEF TwinInv

LEMMA TwinReturn ==
  ASSUME TwinInv, NEW r \in Scanners, Twin!Return(r)
  PROVE  TwinInv'
<1>1. twin' = twin /\ twinVersion' = twinVersion /\ kept' = kept /\ twinAsked' = twinAsked
      /\ twinAt' = [twinAt EXCEPT ![r] = "idle"] /\ scans' = [scans EXCEPT ![r] = <<>>] /\ grouped' = [grouped EXCEPT ![r] = {}]
  BY DEF Twin!Return
<1>2. /\ Twin!Components' = Twin!Components
      /\ Twin!GroupsBy(Twin!FingerprintOf)' = Twin!GroupsBy(Twin!FingerprintOf)
      /\ Twin!GroupsBy(Twin!Title)' = Twin!GroupsBy(Twin!Title)
  BY <1>1, SameTwins
<1>3. twinAt' \in [Scanners -> {"idle", "titles", "load", "done"}] /\ twinAt'[r] = "idle"
      /\ \A q \in Scanners \ {r} : twinAt'[q] = twinAt[q]
  BY <1>1 DEF TwinInv, TwinTypes, Twin!DuplicatesTypeOK
<1>4. scans' \in [Scanners -> Seq(SUBSET Doubles)] /\ scans'[r] = <<>>
      /\ \A q \in Scanners \ {r} : scans'[q] = scans[q]
  BY <1>1 DEF TwinInv, TwinTypes
<1>5. grouped' = [q \in Scanners |-> grouped'[q]] /\ grouped'[r] = {}
      /\ \A q \in Scanners \ {r} : grouped'[q] = grouped[q]
  BY <1>1 DEF TwinInv, TwinTypes
<1>6. Twin!DuplicatesTypeOK'
  BY <1>1, <1>3 DEF TwinInv, TwinTypes, Twin!DuplicatesTypeOK
<1>7. TwinTypes'
  BY <1>1, <1>4, <1>5, <1>6 DEF TwinInv, TwinTypes
<1>8. \A q \in Scanners : \A i \in 1 .. Len(scans'[q]) : \E a, b \in scans'[q][i] : a # b
  BY <1>4 DEF TwinInv
<1>9. \A q \in Scanners : Apart(grouped'[q])
  BY <1>5 DEF TwinInv, Apart
<1>10. \A q \in Scanners :
       /\ twinAt'[q] = "titles" => Complete(q, twinVersion, Twin!GroupsBy(Twin!FingerprintOf))'
       /\ twinAt'[q] = "load" => Complete(q, twinVersion, Twin!GroupsBy(Twin!FingerprintOf) \cup Twin!GroupsBy(Twin!Title))'
  BY <1>1, <1>2, <1>3, <1>4 DEF TwinInv, Complete
<1>11. (\A q \in Scanners : Apart(grouped[q]))' /\ (\A l \in Limits : Apart(kept[l].groups))'
  BY <1>1, <1>9 DEF TwinInv, Apart
<1>12. \A l \in Limits : kept'[l].version = twinVersion' /\ Cardinality(Doubles) < 2 * l
                        => kept'[l].groups = Twin!Components'
  BY <1>1, <1>2 DEF TwinInv
<1> QED
  BY <1>7, <1>8, <1>10, <1>11, <1>12 DEF TwinInv

LEMMA TwinStep == TwinInv /\ [Twin!DuplicatesNext]_(Twin!vars) => TwinInv'
<1> SUFFICES ASSUME TwinInv, [Twin!DuplicatesNext]_(Twin!vars) PROVE TwinInv'
  OBVIOUS
<1>1. CASE Twin!DuplicatesNext
  BY <1>1, TwinWrite, TwinAsk, TwinTitles, TwinLoad, TwinReturn DEF Twin!DuplicatesNext
<1>2. CASE UNCHANGED Twin!vars
  <2>1. twin' = twin /\ twinVersion' = twinVersion /\ kept' = kept /\ twinAsked' = twinAsked /\ twinAt' = twinAt /\ scans' = scans
        /\ grouped' = grouped
    BY <1>2 DEF Twin!vars
  <2>2. /\ Twin!Components' = Twin!Components
        /\ Twin!GroupsBy(Twin!FingerprintOf)' = Twin!GroupsBy(Twin!FingerprintOf)
        /\ Twin!GroupsBy(Twin!Title)' = Twin!GroupsBy(Twin!Title)
    BY <2>1, SameTwins
  <2> QED
    BY <2>1, <2>2 DEF TwinInv, TwinTypes, Twin!DuplicatesTypeOK, Apart, Complete
<1> QED
  BY <1>1, <1>2

LEMMA TwinsAreRight == TwinInv => Twin!DuplicatesTypeOK /\ Twin!RememberedIsExact /\ Twin!InOneGroup
BY TwinCount DEF TwinInv, TwinTypes, Apart, Twin!RememberedIsExact, Twin!InOneGroup

LEMMA TwinInvariance == CatalogueSpec => []TwinInv
<1>1. CatalogueInit => TwinInv
  BY TwinInit DEF CatalogueInit
<1>2. [CatalogueNext]_<<part, vars, shelfVars, tagVars, workVars, noteVars, twinVars>> => [Twin!DuplicatesNext]_(Twin!vars)
  BY DEF CatalogueNext, twinVars, Twin!vars
<1> QED
  BY <1>1, <1>2, TwinStep, PTL DEF CatalogueSpec

\* retitle_note and apply_patch: a note whose text begins with something has a
\* title; duplicate_groups and coalesce: no paper is in two groups, and what is
\* remembered for the present version is every group there is.
THEOREM TitlesAndGroups == CatalogueSpec => []TitledAndGrouped
<1>1. NoteInv /\ TwinInv => TitledAndGrouped
  BY TwinsAreRight DEF NoteInv, NoteTypes, TitledAndGrouped
<1> QED
  BY <1>1, NoteInvariance, TwinInvariance, PTL

\* cached_count: both of the cache's promises, in every behaviour that the
\* parts are checked in together.
THEOREM TotalsStayRight == CatalogueSpec => []TotalsAreRight
<1>1. CatalogueInit => Init
  BY DEF CatalogueInit
<1>2. [CatalogueNext]_<<part, vars, shelfVars, tagVars, workVars, noteVars, twinVars>> => [Next]_vars
  BY DEF CatalogueNext
<1>3. TypeOK /\ CurrentEntryIsExact /\ AnsweredInTime => TotalsAreRight
  BY DEF TotalsAreRight
<1> QED
  BY <1>1, <1>2, <1>3, CacheExact, AnswersCorrect, PTL DEF CatalogueSpec, Spec

\* put: a computation that began earlier does not replace a later one; and
\* create_numbered_note: a number is given to one note of a paper, whatever is
\* renamed, deleted or merged in between.
THEOREM ListOnlyAdvances == CatalogueSpec => NeverGoesBack
<1>1. TagInv /\ [CatalogueNext]_<<part, vars, shelfVars, tagVars, workVars, noteVars, twinVars>>
        => Edits!Advances
  <2>1. ASSUME TagInv, UNCHANGED tagList PROVE Edits!Advances
    BY <2>1 DEF Edits!Advances, TagInv, TagTypes
  <2> SUFFICES ASSUME Edits!Next, tagList' # tagList PROVE Edits!Advances
    BY <2>1 DEF CatalogueNext, tagVars
  <2>2. CASE Edits!Clear
    BY <2>2 DEF Edits!Clear, Edits!Advances
  <2>3. ASSUME NEW r \in Readers, Edits!Put(r) PROVE tagList'.stamp >= tagList.stamp
    BY <2>3 DEF Edits!Put, Edits!Newer
  <2> QED
    BY <2>2, <2>3 DEF Edits!Next, Edits!ReadTags, Edits!WriteTags, Edits!Delete, Edits!SetColor, Edits!Rename,
      Edits!Write, Edits!ReadVersion, Edits!HandOut, Edits!Defer, Edits!Compute, Edits!Release, Edits!cache,
      Edits!Advances
<1>2. [CatalogueNext]_<<part, vars, shelfVars, tagVars, workVars, noteVars, twinVars>> => [Titling!NotesNext]_noteVars
  BY DEF CatalogueNext
<1>3. NoteInv /\ [Titling!NotesNext]_noteVars => Titling!NumberIsNew
  <2>1. CASE UNCHANGED noteVars
    BY <2>1 DEF Titling!NumberIsNew, noteVars
  <2> QED
    BY <2>1, NoteStep
<1>4. Edits!Advances /\ Titling!NumberIsNew
        => [Edits!Advances /\ Titling!NumberIsNew]_<<tagVars, noteVars>>
  OBVIOUS
<1>5. TagInv /\ NoteInv /\ [CatalogueNext]_<<part, vars, shelfVars, tagVars, workVars, noteVars, twinVars>>
        => [Edits!Advances /\ Titling!NumberIsNew]_<<tagVars, noteVars>>
  BY <1>1, <1>2, <1>3, <1>4
<1> QED
  BY <1>5, NoteInvariance, TagInvariance, PTL DEF CatalogueSpec, NeverGoesBack
=============================================================================
