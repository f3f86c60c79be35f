--------------------------- MODULE DataStoreProofs ---------------------------
(***************************************************************************)
(* Proofs about the Data Store, for any limits, retention periods, number  *)
(* of records and clock: the store stays sound whatever is interrupted,    *)
(* eviction is exact, and a sample is faithful to its range.               *)
(***************************************************************************)
EXTENDS DataStore, FiniteSetTheorems, WellFoundedInduction, TLAPS

RecordType == [id : Nat, collection : Names, timestamp : Times]
Collections == UNION {[D -> Retentions] : D \in SUBSET Names}
Database == [collections : Collections, records : SUBSET RecordType, next : Nat, config : Configs]

\* What a database holds, whoever wrote it and wherever the writer was interrupted.
Sound(d) ==
    /\ d \in Database
    /\ IsFiniteSet(d.records)
    /\ d.next \in 1..MaxRecords + 1
    /\ \A r \in d.records : r.id < d.next /\ r.id > 0 /\ r.collection \in DOMAIN d.collections
    /\ \A q, r \in d.records : q.id = r.id => q = r

\* The inductive invariant.
StoreState ==
    /\ now \in Times /\ timer \in BOOLEAN /\ unsaved \in BOOLEAN /\ config \in Configs
    /\ ~unsaved => db.config = config
    /\ Sound(db)

-----------------------------------------------------------------------------
(* Numbers and finite sets. *)

LEMMA LeastNumber ==
    ASSUME NEW T, T \subseteq Nat, T # {}
    PROVE  \E x \in T : \A y \in T : x <= y
<1> DEFINE R == OpToRel(<, Nat)
<1>1. IsWellFoundedOn(R, Nat) BY NatLessThanWellFounded, Zenon
<1> HIDE DEF R
<1>2. PICK x \in T : \A y \in T : ~(<<y, x>> \in R) BY <1>1, WFMin, Zenon
<1>3. \A y \in Nat : y < x => <<y, x>> \in R BY <1>2 DEF R, OpToRel
<1>4. \A y \in T : y \in Nat /\ ~(y < x) BY <1>2, <1>3, Zenon
<1>5. x \in Nat OBVIOUS
<1>6. \A y \in T : x <= y BY <1>4, <1>5
<1> QED BY <1>2, <1>6

LEMMA CeilDivIsExact ==
    ASSUME NEW span \in Nat \ {0}, NEW points \in Nat \ {0}
    PROVE  /\ CeilDiv(span, points) \in Nat \ {0}
           /\ span <= CeilDiv(span, points) * points
           /\ (CeilDiv(span, points) - 1) * points <= span - 1
BY SMTT(30) DEF CeilDiv

LEMMA BucketIsBounded ==
    ASSUME NEW x \in Nat, NEW w \in Nat \ {0}, NEW p \in Nat, x < w * p
    PROVE  x \div w \in Nat /\ x \div w < p
BY SMTT(30)

LEMMA SameBucketIsNear ==
    ASSUME NEW x \in Nat, NEW y \in Nat, NEW w \in Nat \ {0}, x \div w = y \div w
    PROVE  y - x <= w - 1
BY SMTT(30)

-----------------------------------------------------------------------------
(* The database as a record. *)

LEMMA CollectionsAreFunctions ==
    ASSUME NEW f
    PROVE  f \in Collections <=> DOMAIN f \subseteq Names /\ f \in [DOMAIN f -> Retentions]
BY DEF Collections

LEMMA WithRecords ==
    ASSUME NEW d \in Database, NEW R \in SUBSET RecordType, NEW e, e = [d EXCEPT !.records = R]
    PROVE  /\ e \in Database /\ e.records = R
           /\ e.collections = d.collections /\ e.next = d.next /\ e.config = d.config
BY DEF Database

LEMMA WithCollections ==
    ASSUME NEW d \in Database, NEW f \in Collections, NEW e, e = [d EXCEPT !.collections = f]
    PROVE  /\ e \in Database /\ e.records = d.records
           /\ e.collections = f /\ e.next = d.next /\ e.config = d.config
BY DEF Database

LEMMA WithConfig ==
    ASSUME NEW d \in Database, NEW c \in Configs, NEW e, e = [d EXCEPT !.config = c]
    PROVE  /\ e \in Database /\ e.records = d.records
           /\ e.collections = d.collections /\ e.next = d.next /\ e.config = c
BY DEF Database

LEMMA DatabaseFields ==
    ASSUME NEW d \in Database
    PROVE  /\ d.collections \in Collections /\ d.records \subseteq RecordType
           /\ d.next \in Nat /\ d.config \in Configs
BY DEF Database

\* Dropping records keeps a database sound.
LEMMA DroppingIsSound ==
    ASSUME NEW d, Sound(d), NEW R \in SUBSET d.records, NEW e, e = [d EXCEPT !.records = R]
    PROVE  /\ Sound(e) /\ e.records = R
           /\ e.collections = d.collections /\ e.next = d.next /\ e.config = d.config
<1>1. d \in Database /\ d.records \subseteq RecordType BY DatabaseFields DEF Sound
<1>2. /\ e \in Database /\ e.records = R
      /\ e.collections = d.collections /\ e.next = d.next /\ e.config = d.config
  BY <1>1, WithRecords
<1>3. IsFiniteSet(R) BY FS_Subset DEF Sound
<1> QED BY <1>2, <1>3 DEF Sound

-----------------------------------------------------------------------------
(* Eviction. *)

Before(q, r) == q.timestamp < r.timestamp \/ (q.timestamp = r.timestamp /\ q.id < r.id)
Earlier(S, r) == {q \in S : Before(q, r)}

LEMMA BeforeIsTotal ==
    ASSUME NEW S, S \subseteq RecordType, \A q, r \in S : q.id = r.id => q = r
    PROVE  /\ \A r \in S : ~Before(r, r)
           /\ \A q, r \in S : q = r \/ Before(q, r) \/ Before(r, q)
           /\ \A p, q, r \in S : Before(p, q) /\ Before(q, r) => Before(p, r)
<1>1. \A r \in S : r.id \in Nat /\ r.timestamp \in Int
  BY StoreAssumption DEF RecordType, Times
<1>2. \A r \in S : ~Before(r, r) BY <1>1 DEF Before
<1>3. \A q, r \in S : q = r \/ Before(q, r) \/ Before(r, q) BY <1>1 DEF Before
<1>4. \A p, q, r \in S : Before(p, q) /\ Before(q, r) => Before(p, r) BY <1>1 DEF Before
<1> QED BY <1>2, <1>3, <1>4

\* The rank of a record: a bijection of the set and an initial segment of the numbers.
LEMMA RanksAreDistinct ==
    ASSUME NEW S, IsFiniteSet(S), S \subseteq RecordType,
           \A q, r \in S : q.id = r.id => q = r,
           NEW q \in S, NEW r \in S, Before(q, r)
    PROVE  /\ Cardinality(Earlier(S, q)) \in Nat /\ Cardinality(Earlier(S, r)) \in Nat
           /\ Cardinality(Earlier(S, q)) < Cardinality(Earlier(S, r))
<1>1. Earlier(S, q) \subseteq Earlier(S, r) BY BeforeIsTotal DEF Earlier
<1>2. q \in Earlier(S, r) /\ q \notin Earlier(S, q) BY BeforeIsTotal DEF Earlier
<1>3. IsFiniteSet(Earlier(S, r)) /\ IsFiniteSet(Earlier(S, q)) BY FS_Subset DEF Earlier
<1>4. Cardinality(Earlier(S, q)) <= Cardinality(Earlier(S, r))
      /\ Cardinality(Earlier(S, q)) # Cardinality(Earlier(S, r))
  BY <1>1, <1>2, <1>3, FS_Subset
<1>5. Cardinality(Earlier(S, q)) \in Nat /\ Cardinality(Earlier(S, r)) \in Nat
  BY <1>3, FS_CardinalityType
<1> QED BY <1>4, <1>5

LEMMA RankIsBijective ==
    ASSUME NEW S, IsFiniteSet(S), S \subseteq RecordType,
           \A q, r \in S : q.id = r.id => q = r,
           NEW f, f = [r \in S |-> Cardinality(Earlier(S, r))]
    PROVE  f \in Bijection(S, 0..Cardinality(S) - 1)
<1> DEFINE N == 0..Cardinality(S) - 1
<1>1. Cardinality(S) \in Nat BY FS_CardinalityType
<1>2. \A r \in S : f[r] \in N
  <2>1. TAKE r \in S
  <2>2. Earlier(S, r) \subseteq S \ {r} BY BeforeIsTotal DEF Earlier
  <2>3. IsFiniteSet(S \ {r}) /\ Cardinality(S \ {r}) = Cardinality(S) - 1 BY FS_RemoveElement
  <2>4. IsFiniteSet(Earlier(S, r)) /\ Cardinality(Earlier(S, r)) <= Cardinality(S) - 1
    BY <2>2, <2>3, FS_Subset
  <2>5. Cardinality(Earlier(S, r)) \in Nat BY <2>4, FS_CardinalityType
  <2> QED BY <1>1, <2>4, <2>5
<1>3. \A q, r \in S : f[q] = f[r] => q = r
  <2>1. SUFFICES ASSUME NEW q \in S, NEW r \in S, q # r PROVE f[q] # f[r]
    OBVIOUS
  <2>2. Before(q, r) \/ Before(r, q) BY <2>1, BeforeIsTotal
  <2>3. CASE Before(q, r) BY <2>3, RanksAreDistinct
  <2>4. CASE Before(r, q) BY <2>4, RanksAreDistinct
  <2> QED BY <2>2, <2>3, <2>4
<1>4. f \in [S -> N] BY <1>2
<1>5. f \in Injection(S, N) BY <1>3, <1>4 DEF Injection, IsInjective
<1>6. IsFiniteSet(N) /\ Cardinality(N) = Cardinality(S)
  <2>1. Cardinality(S) - 1 \in Int BY <1>1
  <2>2. /\ IsFiniteSet(N)
        /\ Cardinality(N) = IF 0 > Cardinality(S) - 1 THEN 0 ELSE Cardinality(S) - 1 - 0 + 1
    BY <2>1, FS_Interval
  <2> QED BY <1>1, <2>2
<1>7. f \in Surjection(S, N) BY <1>5, <1>6, FS_Injection
<1> QED BY <1>5, <1>7 DEF Bijection

\* SELECT ... ORDER BY timestamp ASC, id ASC LIMIT n selects n records, none younger than
\* one it leaves.
LEMMA OldestIsExact ==
    ASSUME NEW S, IsFiniteSet(S), S \subseteq RecordType,
           \A q, r \in S : q.id = r.id => q = r,
           NEW n \in Nat, n <= Cardinality(S)
    PROVE  /\ Cardinality(Oldest(S, n)) = n
           /\ \A e \in Oldest(S, n), k \in S \ Oldest(S, n) : e.timestamp <= k.timestamp
<1> DEFINE f == [r \in S |-> Cardinality(Earlier(S, r))]
           T == Oldest(S, n)
<1>1. f \in Bijection(S, 0..Cardinality(S) - 1) BY RankIsBijective
<1>2. T = {r \in S : f[r] < n} BY DEF Oldest, Earlier, Before
<1>3. Cardinality(S) \in Nat BY FS_CardinalityType
<1>4. \A r \in S : f[r] \in 0..Cardinality(S) - 1
  BY <1>1 DEF Bijection, Injection
<1>5. Cardinality(T) = n
  <2> DEFINE g == [r \in T |-> f[r]]
  <2> HIDE DEF f, T
  <2>1. \A r \in T : r \in S /\ f[r] \in 0..n - 1 BY <1>2, <1>3, <1>4
  <2>2. \A q, r \in S : f[q] = f[r] => q = r BY <1>1 DEF Bijection, Injection, IsInjective
  <2>3. \A i \in 0..n - 1 : \E r \in T : f[r] = i
    <3>1. TAKE i \in 0..n - 1
    <3>2. i \in 0..Cardinality(S) - 1 BY <1>3
    <3>3. PICK r \in S : f[r] = i BY <1>1, <3>2 DEF Bijection, Surjection
    <3> QED BY <1>2, <3>3
  <2>4. g \in Bijection(T, 0..n - 1)
    BY <2>1, <2>2, <2>3 DEF Bijection, Injection, Surjection, IsInjective
  <2>5. IsFiniteSet(T) BY <1>2, FS_Subset
  <2>6. Cardinality(0..n - 1) = Cardinality(T)
    BY <2>4, <2>5, FS_Bijection DEF ExistsBijection
  <2>7. Cardinality(0..n - 1) = n BY FS_Interval
  <2> QED BY <2>6, <2>7
<1>6. ASSUME NEW e \in T, NEW k \in S \ T PROVE e.timestamp <= k.timestamp
  <2>1. e \in S /\ k \in S /\ f[e] < n /\ ~(f[k] < n) BY <1>2
  <2>2. ~Before(k, e)
    <3>1. SUFFICES ASSUME Before(k, e) PROVE FALSE OBVIOUS
    <3>2. f[k] < f[e] /\ f[k] \in Nat /\ f[e] \in Nat BY <2>1, <3>1, RanksAreDistinct
    <3> QED BY <2>1, <3>2
  <2>3. e.timestamp \in Int /\ k.timestamp \in Int
    BY <2>1, StoreAssumption DEF RecordType, Times
  <2> QED BY <2>2, <2>3 DEF Before
<1> QED BY <1>5, <1>6

\* The limits in force are positive numbers.
LEMMA LimitsAreNumbers ==
    ASSUME config \in Configs
    PROVE  /\ config.limits \in Limits /\ config.limits.records \in Nat \ {0}
           /\ MaxRecordsByStorage \in Nat
<1>1. config.limits \in Limits BY DEF Configs
<1>2. config.limits.records \in Nat \ {0} /\ config.limits.storage \in Nat \ {0}
  BY <1>1, StoreAssumption DEF Limits
<1>3. MbBytes \in Nat \ {0} /\ RecordBytes \in Nat \ {0} BY StoreAssumption
<1>4. config.limits.storage * MbBytes \in Nat BY <1>2, <1>3
<1>5. MaxRecordsByStorage \in Nat BY <1>3, <1>4 DEF MaxRecordsByStorage
<1> QED BY <1>1, <1>2, <1>5

\* After the global eviction there is room for one record, and no more was made than that.
LEMMA GlobalEviction ==
    ASSUME config \in Configs, MaxRecordsByStorage >= 1, NEW d, Sound(d), NEW e, e = EvictGlobally(d)
    PROVE  /\ Sound(e) /\ e.records \subseteq d.records
           /\ e.collections = d.collections /\ e.next = d.next /\ e.config = d.config
           /\ Cardinality(e.records) <= MaxRecordsByStorage - 1
           /\ e.records # d.records => Cardinality(e.records) = MaxRecordsByStorage - 1
           /\ \A x \in d.records \ e.records, k \in e.records : x.timestamp <= k.timestamp
<1> DEFINE B == MaxRecordsByStorage
           excess == Cardinality(d.records) - B + 1
<1>1. B \in Nat /\ B >= 1 BY LimitsAreNumbers
<1>2. /\ IsFiniteSet(d.records) /\ Cardinality(d.records) \in Nat
      /\ d.records \subseteq RecordType /\ \A q, r \in d.records : q.id = r.id => q = r
  BY FS_CardinalityType, DatabaseFields DEF Sound
<1> HIDE DEF B
<1>3. CASE excess < 1
  <2>1. e = d BY <1>3 DEF EvictGlobally, B
  <2> QED BY <1>1, <1>2, <1>3, <2>1 DEF B
<1>4. CASE ~(excess < 1)
  <2> DEFINE O == Oldest(d.records, excess)
             R == d.records \ O
  <2>1. excess \in Nat /\ excess <= Cardinality(d.records) BY <1>1, <1>2, <1>4
  <2>2. e = [d EXCEPT !.records = R] BY <1>4 DEF EvictGlobally, B
  <2>3. O \subseteq d.records BY DEF Oldest
  <2>4. /\ Cardinality(O) = excess
        /\ \A x \in O, k \in d.records \ O : x.timestamp <= k.timestamp
    <3> HIDE DEF excess
    <3> QED BY <1>2, <2>1, OldestIsExact
  <2> HIDE DEF O
  <2>5. /\ Sound(e) /\ e.records = R
        /\ e.collections = d.collections /\ e.next = d.next /\ e.config = d.config
    BY <2>2, DroppingIsSound
  <2>6. d.records \cap O = O BY <2>3
  <2>7. Cardinality(R) = Cardinality(d.records) - Cardinality(O)
    BY <1>2, <2>6, FS_Difference, Zenon
  <2>8. Cardinality(R) = B - 1 BY <1>1, <1>2, <2>4, <2>7
  <2>9. \A x \in d.records \ e.records, k \in e.records : x.timestamp <= k.timestamp
    BY <2>3, <2>4, <2>5
  <2> QED BY <1>1, <2>5, <2>8, <2>9 DEF B
<1> QED BY <1>3, <1>4

LEMMA AutoCreation ==
    ASSUME NEW d, Sound(d), NEW c \in Names, NEW e, e = AutoCreate(d, c)
    PROVE  /\ Sound(e) /\ e.records = d.records /\ c \in DOMAIN e.collections
           /\ e.next = d.next /\ e.config = d.config
<1>1. CASE c \in DOMAIN d.collections BY <1>1 DEF AutoCreate
<1>2. CASE c \notin DOMAIN d.collections
  <2> DEFINE f == [n \in (DOMAIN d.collections) \cup {c} |-> IF n = c THEN 0 ELSE d.collections[n]]
  <2>1. e = [d EXCEPT !.collections = f] BY <1>2 DEF AutoCreate
  <2>2. d \in Database /\ d.collections \in Collections BY DatabaseFields DEF Sound
  <2>3. /\ DOMAIN d.collections \subseteq Names
        /\ d.collections \in [DOMAIN d.collections -> Retentions]
    BY <2>2, CollectionsAreFunctions
  <2>4. DOMAIN f = (DOMAIN d.collections) \cup {c} OBVIOUS
  <2>5. f \in [DOMAIN f -> Retentions] BY <2>3, StoreAssumption
  <2>6. f \in Collections BY <2>3, <2>4, <2>5, CollectionsAreFunctions
  <2> HIDE DEF f
  <2>7. /\ e \in Database /\ e.records = d.records
        /\ e.collections = f /\ e.next = d.next /\ e.config = d.config
    BY <2>1, <2>2, <2>6, WithCollections
  <2> QED BY <2>4, <2>7 DEF Sound
<1> QED BY <1>1, <1>2

\* The same for the eviction from one collection.
LEMMA CollectionEviction ==
    ASSUME config \in Configs, NEW d, Sound(d), NEW c, NEW E \in EvictionsFrom(d, c)
    PROVE  /\ E \subseteq In(d, c)
           /\ Cardinality(In(d, c) \ E) <= config.limits.records - 1
           /\ E # {} => Cardinality(In(d, c) \ E) = config.limits.records - 1
           /\ \A x \in E, k \in In(d, c) \ E : x.timestamp <= k.timestamp
<1> DEFINE S == In(d, c)
           cap == config.limits.records
           excess == Cardinality(S) - cap + 1
<1>1. cap \in Nat \ {0} BY LimitsAreNumbers
<1>2. IsFiniteSet(S) /\ Cardinality(S) \in Nat
  <2>1. S \subseteq d.records BY DEF In
  <2> QED BY <2>1, FS_Subset, FS_CardinalityType DEF Sound
<1> HIDE DEF cap, S
<1>3. CASE excess < 1
  <2>1. E = {} BY <1>3 DEF EvictionsFrom, S, cap
  <2>2. S \ E = S BY <2>1
  <2> QED BY <1>1, <1>2, <1>3, <2>1, <2>2 DEF S, cap
<1>4. CASE ~(excess < 1)
  <2>1. E \in Candidates(S, excess) BY <1>4 DEF EvictionsFrom, S, cap
  <2>2. /\ E \subseteq S /\ Cardinality(E) = excess
        /\ \A x \in E, k \in S \ E : x.timestamp <= k.timestamp
    BY <2>1 DEF Candidates
  <2>3. S \cap E = E BY <2>2
  <2>4. Cardinality(S \ E) = Cardinality(S) - Cardinality(E) BY <1>2, <2>3, FS_Difference, Zenon
  <2>5. Cardinality(S \ E) = cap - 1 BY <1>1, <1>2, <2>2, <2>4
  <2> QED BY <1>1, <2>2, <2>5 DEF S, cap
<1> QED BY <1>3, <1>4

LEMMA Insertion ==
    ASSUME NEW d, Sound(d), d.next <= MaxRecords, NEW c \in DOMAIN d.collections, NEW t \in Times,
           NEW e, e = Insert(d, c, t),
           NEW new, new = [id |-> d.next, collection |-> c, timestamp |-> t]
    PROVE  /\ Sound(e) /\ e.records = d.records \cup {new} /\ new \notin d.records
           /\ e.collections = d.collections /\ e.config = d.config
<1>1. /\ d \in Database /\ d.collections \in Collections /\ d.records \subseteq RecordType
      /\ d.next \in Nat /\ MaxRecords \in Nat
  BY DatabaseFields, StoreAssumption DEF Sound
<1>2. c \in Names BY <1>1, CollectionsAreFunctions
<1>3. new \in RecordType BY <1>1, <1>2 DEF RecordType
<1>4. new \notin d.records BY <1>1 DEF Sound
<1>5. e = [d EXCEPT !.records = d.records \cup {new}, !.next = d.next + 1] BY DEF Insert
<1>6. /\ e \in Database /\ e.records = d.records \cup {new} /\ e.next = d.next + 1
      /\ e.collections = d.collections /\ e.config = d.config
  <2> DEFINE R == d.records \cup {new}
             n == d.next + 1
  <2>1. R \in SUBSET RecordType /\ n \in Nat BY <1>1, <1>3
  <2>2. e = [d EXCEPT !.records = R, !.next = n] BY <1>5
  <2> HIDE DEF R, n
  <2>3. /\ e \in Database /\ e.records = R /\ e.next = n
        /\ e.collections = d.collections /\ e.config = d.config
    BY <1>1, <2>1, <2>2, Zenon DEF Database
  <2> QED BY <2>3 DEF R, n
<1>7. IsFiniteSet(e.records) BY <1>6, FS_AddElement DEF Sound
<1>8. e.next \in 1..MaxRecords + 1 BY <1>1, <1>6
<1>9. \A r \in e.records : r.id < e.next /\ r.id > 0 /\ r.collection \in DOMAIN e.collections
  <2>1. TAKE r \in e.records
  <2>2. CASE r \in d.records
    <3>1. r.id < d.next /\ r.id > 0 /\ r.collection \in DOMAIN d.collections /\ r.id \in Nat
      BY <1>1, <2>2 DEF Sound, RecordType
    <3> QED BY <1>1, <1>6, <3>1
  <2>3. CASE r = new BY <1>1, <1>6, <2>3 DEF Sound
  <2> QED BY <1>6, <2>2, <2>3
<1>10. \A q, r \in e.records : q.id = r.id => q = r
  <2>1. \A r \in d.records : r.id \in Nat /\ r.id < d.next BY <1>1 DEF Sound, RecordType
  <2>2. \A r \in d.records : r.id # new.id BY <1>1, <2>1
  <2> QED BY <1>6, <2>2 DEF Sound
<1> QED BY <1>4, <1>6, <1>7, <1>8, <1>9, <1>10 DEF Sound

\* First in, first out, from one database to another.
Fifo(d, e) ==
    \A x \in d.records \ e.records, k \in d.records \cap e.records :
        x.collection = k.collection => x.timestamp <= k.timestamp

\* The state of write() before its INSERT.
LEMMA RoomIsMade ==
    ASSUME config \in Configs, Sound(db), MaxRecordsByStorage >= 1, NEW c \in Names,
           NEW d1, d1 = EvictGlobally(db), NEW d2, d2 = AutoCreate(d1, c),
           NEW E \in EvictionsFrom(d2, c), NEW d3, d3 = [d2 EXCEPT !.records = @ \ E]
    PROVE  /\ Sound(d3) /\ d3.config = db.config /\ d3.next = db.next /\ c \in DOMAIN d3.collections
           /\ d3.records \subseteq db.records /\ Fifo(db, d3)
           /\ Cardinality(d3.records) <= MaxRecordsByStorage - 1
           /\ Cardinality(In(d3, c)) <= config.limits.records - 1
           /\ \/ d3.records = db.records \/ Cardinality(d3.records) = MaxRecordsByStorage - 1
              \/ Cardinality(In(d3, c)) = config.limits.records - 1
<1>1. /\ Sound(d1) /\ d1.records \subseteq db.records
      /\ d1.next = db.next /\ d1.config = db.config
      /\ Cardinality(d1.records) <= MaxRecordsByStorage - 1
      /\ d1.records # db.records => Cardinality(d1.records) = MaxRecordsByStorage - 1
      /\ \A x \in db.records \ d1.records, k \in d1.records : x.timestamp <= k.timestamp
  BY GlobalEviction
<1>2. /\ Sound(d2) /\ d2.records = d1.records /\ c \in DOMAIN d2.collections
      /\ d2.next = d1.next /\ d2.config = d1.config
  BY <1>1, AutoCreation
<1>3. /\ E \subseteq In(d2, c)
      /\ Cardinality(In(d2, c) \ E) <= config.limits.records - 1
      /\ E # {} => Cardinality(In(d2, c) \ E) = config.limits.records - 1
      /\ \A x \in E, k \in In(d2, c) \ E : x.timestamp <= k.timestamp
  BY <1>2, CollectionEviction
<1>4. /\ Sound(d3) /\ d3.records = d2.records \ E
      /\ d3.collections = d2.collections /\ d3.next = d2.next /\ d3.config = d2.config
  BY <1>2, DroppingIsSound
<1>5. In(d3, c) = In(d2, c) \ E BY <1>4 DEF In
<1>6. Fifo(db, d3)
  <2>1. SUFFICES ASSUME NEW x \in db.records \ d3.records, NEW k \in db.records \cap d3.records,
                        x.collection = k.collection
                 PROVE  x.timestamp <= k.timestamp
    BY DEF Fifo
  <2>2. CASE x \notin d1.records BY <1>1, <1>2, <1>4, <2>1, <2>2
  <2>3. CASE x \in d1.records
    <3>1. x \in E BY <1>2, <1>4, <2>1, <2>3
    <3>2. x.collection = c BY <1>3, <3>1 DEF In
    <3>3. k \in In(d2, c) \ E BY <1>4, <2>1, <3>2, Zenon DEF In
    <3> QED BY <1>3, <3>1, <3>3
  <2> QED BY <2>2, <2>3
<1>7. Cardinality(d3.records) <= MaxRecordsByStorage - 1
  <2>1. IsFiniteSet(d1.records) /\ d3.records \subseteq d1.records BY <1>1, <1>2, <1>4 DEF Sound
  <2>2. /\ IsFiniteSet(d3.records) /\ Cardinality(d3.records) <= Cardinality(d1.records)
    BY <2>1, FS_Subset
  <2>3. Cardinality(d3.records) \in Nat /\ Cardinality(d1.records) \in Nat
    BY <2>1, <2>2, FS_CardinalityType
  <2>4. MaxRecordsByStorage \in Nat BY LimitsAreNumbers
  <2> QED BY <1>1, <2>2, <2>3, <2>4
<1>8. \/ d3.records = db.records \/ Cardinality(d3.records) = MaxRecordsByStorage - 1
      \/ Cardinality(In(d3, c)) = config.limits.records - 1
  <2>1. CASE E = {}
    <3>1. d3.records = d1.records BY <1>2, <1>4, <2>1
    <3> QED BY <1>1, <3>1, Zenon
  <2>2. CASE E # {} BY <1>3, <1>5, <2>2, Zenon
  <2> QED BY <2>1, <2>2
<1> QED BY <1>1, <1>2, <1>3, <1>4, <1>5, <1>6, <1>7, <1>8, Zenon

\* What a write leaves that was refused or cut off.
LEMMA InterruptedWrite ==
    ASSUME config \in Configs, Sound(db), MaxRecordsByStorage >= 1, NEW c \in Names, NEW t,
           NEW e \in Writes(c, t).partial
    PROVE  Sound(e) /\ e.config = db.config /\ e.records \subseteq db.records /\ Fifo(db, e)
<1> DEFINE d1 == EvictGlobally(db)
           d2 == AutoCreate(d1, c)
           kept == {[d2 EXCEPT !.records = @ \ E] : E \in EvictionsFrom(d2, c)}
<1>1. e \in {db, d1, d2} \cup kept BY DEF Writes
<1>2. /\ Sound(d1) /\ d1.records \subseteq db.records /\ d1.config = db.config
      /\ \A x \in db.records \ d1.records, k \in d1.records : x.timestamp <= k.timestamp
  BY GlobalEviction
<1>3. Sound(d2) /\ d2.records = d1.records /\ d2.config = d1.config
  BY <1>2, AutoCreation
<1>4. CASE e = db BY <1>4 DEF Fifo
<1>5. CASE e \in {d1, d2} BY <1>2, <1>3, <1>5 DEF Fifo
<1>6. CASE e \in kept
  <2>1. PICK E \in EvictionsFrom(d2, c) : e = [d2 EXCEPT !.records = @ \ E] BY <1>6
  <2> HIDE DEF d1, d2
  <2> QED BY <2>1, RoomIsMade, ZenonT(60) DEF d1, d2
<1> QED BY <1>1, <1>4, <1>5, <1>6

-----------------------------------------------------------------------------
(* Steps. *)

\* Retention spares what has not outlived its collection's period.
LEMMA RetentionSpares ==
    ASSUME StoreState, FailInRetention
    PROVE  /\ \A r \in db.records \ db'.records :
                  r.timestamp + db.collections[r.collection] * DayMs < now
           /\ Sound(db') /\ db'.config = db.config /\ db'.records \subseteq db.records /\ Fifo(db, db')
<1>0. PICK C \in SUBSET Retained : Prune(C) BY Zenon DEF FailInRetention
<1> DEFINE Pruned == UNION {Expired(c) : c \in C}
<1>1. Sound(db) /\ db.records \ Pruned \in SUBSET db.records BY DEF StoreState
<1>2. db' = [db EXCEPT !.records = db.records \ Pruned] BY <1>0 DEF Prune
<1>3. Sound(db') /\ db'.records = db.records \ Pruned /\ db'.config = db.config
  <2> DEFINE R == db.records \ Pruned
  <2>1. R \in SUBSET db.records /\ db' = [db EXCEPT !.records = R] BY <1>2
  <2> HIDE DEF R
  <2>2. Sound(db') /\ db'.records = R /\ db'.config = db.config BY <1>1, <2>1, DroppingIsSound
  <2> QED BY <2>2 DEF R
<1>4. \A r \in db.records : /\ r.timestamp \in Int
                            /\ db.collections[r.collection] \in Int /\ DayMs \in Int /\ now \in Int
  <2>1. db.collections \in [DOMAIN db.collections -> Retentions] /\ db.records \subseteq RecordType
    BY <1>1, DatabaseFields, CollectionsAreFunctions DEF Sound
  <2>2. \A r \in db.records : r.timestamp \in Times /\ r.collection \in DOMAIN db.collections
    BY <1>1, <2>1 DEF Sound, RecordType
  <2>3. Times \subseteq Int /\ Retentions \subseteq Int /\ DayMs \in Int
    BY StoreAssumption DEF Times
  <2>4. now \in Times BY DEF StoreState
  <2> QED BY <2>1, <2>2, <2>3, <2>4, Zenon
<1>5. \A r \in db.records : LET age == db.collections[r.collection] * DayMs
                            IN  age \in Int /\ (r \in Pruned <=> /\ r.collection \in C
                                                                 /\ r.timestamp < now - age)
  <2>1. TAKE r \in db.records
  <2>2. db.collections[r.collection] * DayMs \in Int BY <1>4
  <2>3. r.collection \in DOMAIN db.collections BY <1>1 DEF Sound
  <2>4. r \in Pruned <=> /\ r.collection \in C
                         /\ r.timestamp < now - db.collections[r.collection] * DayMs
    BY DEF Expired, In
  <2> HIDE DEF Pruned
  <2> QED BY <2>2, <2>4
<1> HIDE DEF Pruned
<1>6. ASSUME NEW r \in db.records \ db'.records
      PROVE  r.timestamp + db.collections[r.collection] * DayMs < now
  <2>1. r \in db.records /\ r \in Pruned BY <1>3, <1>6
  <2> QED BY <1>4, <1>5, <2>1
<1>7. Fifo(db, db')
  <2>1. SUFFICES ASSUME NEW x \in db.records \ db'.records, NEW k \in db.records \cap db'.records,
                        x.collection = k.collection
                 PROVE  x.timestamp <= k.timestamp
    BY DEF Fifo
  <2>2. x \in db.records /\ x \in Pruned /\ k \in db.records /\ k \notin Pruned BY <1>3, <2>1
  <2> DEFINE age == db.collections[x.collection] * DayMs
  <2>3. age \in Int /\ x.timestamp < now - age /\ ~(k.timestamp < now - age) BY <1>5, <2>1, <2>2
  <2>4. x.timestamp \in Int /\ k.timestamp \in Int /\ now \in Int BY <1>4, <2>2
  <2> HIDE DEF age
  <2> QED BY <2>3, <2>4
<1> QED BY <1>3, <1>6, <1>7

\* A step that only drops records.
LEMMA QuietStep ==
    ASSUME StoreState, db'.records \subseteq db.records, Fifo(db, db')
    PROVE  EvictsExactly
BY RetentionSpares DEF EvictsExactly, Written, Fifo

\* A step of the administrator leaves the records alone.
LEMMA UntouchedRecords == ASSUME db'.records = db.records PROVE Fifo(db, db')
BY DEF Fifo

LEMMA WriteStep ==
    ASSUME StoreState, NEW c \in Names, NEW t \in Given \cup {now}, Write(c, t)
    PROVE  StoreState' /\ EvictsExactly
<1> DEFINE B == MaxRecordsByStorage
           cap == config.limits.records
           d1 == EvictGlobally(db)
           d2 == AutoCreate(d1, c)
           kept == {[d2 EXCEPT !.records = @ \ E] : E \in EvictionsFrom(d2, c)}
<1>1. /\ config \in Configs /\ Sound(db) /\ B >= 1 /\ db.next <= MaxRecords
      /\ t \in Times /\ db' \in Writes(c, t).done /\ UNCHANGED <<config, unsaved, timer, now>>
  BY StoreAssumption DEF StoreState, Write, CanWrite, Times
<1>2. B \in Nat /\ cap \in Nat \ {0} BY <1>1, LimitsAreNumbers
<1>3. CASE c \notin DOMAIN d1.collections /\ CollectionsFull(d1)
  <2>1. db' \in Writes(c, t).partial BY <1>1, <1>3 DEF Writes
  <2>2. Sound(db') /\ db'.config = db.config /\ db'.records \subseteq db.records /\ Fifo(db, db')
    BY <1>1, <2>1, InterruptedWrite
  <2> QED BY <1>1, <2>2, QuietStep DEF StoreState
<1>4. CASE ~(c \notin DOMAIN d1.collections /\ CollectionsFull(d1))
  <2>1. PICK E \in EvictionsFrom(d2, c) : db' = Insert([d2 EXCEPT !.records = @ \ E], c, t)
    BY <1>1, <1>4, Zenon DEF Writes
  <2> DEFINE d3 == [d2 EXCEPT !.records = @ \ E]
             new == [id |-> d3.next, collection |-> c, timestamp |-> t]
  <2>2. /\ Sound(d3) /\ d3.config = db.config /\ d3.next = db.next /\ c \in DOMAIN d3.collections
        /\ d3.records \subseteq db.records /\ Fifo(db, d3)
        /\ Cardinality(d3.records) <= B - 1 /\ Cardinality(In(d3, c)) <= cap - 1
        /\ \/ d3.records = db.records \/ Cardinality(d3.records) = B - 1
           \/ Cardinality(In(d3, c)) = cap - 1
    <3>1. MaxRecordsByStorage >= 1 BY <1>1
    <3> HIDE DEF d1, d2, d3, B, cap
    <3>2. /\ Sound(d3) /\ d3.config = db.config /\ d3.next = db.next /\ c \in DOMAIN d3.collections
          /\ d3.records \subseteq db.records /\ Fifo(db, d3)
          /\ Cardinality(d3.records) <= MaxRecordsByStorage - 1
          /\ Cardinality(In(d3, c)) <= config.limits.records - 1
          /\ \/ d3.records = db.records \/ Cardinality(d3.records) = MaxRecordsByStorage - 1
             \/ Cardinality(In(d3, c)) = config.limits.records - 1
      BY <1>1, <3>1, RoomIsMade, Zenon DEF d1, d2, d3
    <3> QED BY <3>2 DEF B, cap
  <2> HIDE DEF d3, B, cap
  <2>3. db' = Insert(d3, c, t) BY <2>1 DEF d3
  <2>4. /\ Sound(db') /\ db'.records = d3.records \cup {new} /\ new \notin d3.records
        /\ db'.config = d3.config
    BY <1>1, <2>2, <2>3, Insertion
  <2>5. StoreState' BY <1>1, <2>2, <2>4 DEF StoreState
  <2>6. new.collection = c /\ new.id = db.next BY <2>2
  <2> HIDE DEF new
  <2>7. new \notin db.records
    <3>1. \A r \in db.records : r.id \in Nat /\ r.id < db.next /\ db.next \in Nat
      BY <1>1, DatabaseFields DEF Sound, RecordType
    <3> QED BY <2>6, <3>1
  <2>8. IsFiniteSet(d3.records) /\ Cardinality(db'.records) = Cardinality(d3.records) + 1
    BY <2>2, <2>4, FS_AddElement DEF Sound
  <2>9. Cardinality(In(db', c)) = Cardinality(In(d3, c)) + 1
    <3>1. In(db', c) = In(d3, c) \cup {new} BY <2>4, <2>6 DEF In
    <3>2. IsFiniteSet(In(d3, c)) /\ new \notin In(d3, c) BY <2>4, <2>8, FS_Subset DEF In
    <3> QED BY <3>1, <3>2, FS_AddElement, Zenon
  <2>10. Cardinality(d3.records) \in Nat /\ Cardinality(In(d3, c)) \in Nat
    <3>1. IsFiniteSet(In(d3, c)) BY <2>8, FS_Subset DEF In
    <3> QED BY <2>8, <3>1, FS_CardinalityType
  <2>11. ASSUME NEW r \in Written
         PROVE  /\ r.collection = c
                /\ Cardinality(db'.records) <= B /\ Cardinality(In(db', c)) <= cap
                /\ \/ db.records \subseteq db'.records
                   \/ Cardinality(db'.records) = B \/ Cardinality(In(db', c)) = cap
    <3>1. r = new BY <2>2, <2>4, <2>11, SMTT(30) DEF Written
    <3>2. Cardinality(db'.records) <= B /\ Cardinality(In(db', c)) <= cap
      BY <1>2, <2>2, <2>8, <2>9, <2>10
    <3>3. CASE d3.records = db.records BY <2>4, <2>6, <3>1, <3>2, <3>3
    <3>4. CASE Cardinality(d3.records) = B - 1 BY <1>2, <2>6, <2>8, <3>1, <3>2, <3>4
    <3>5. CASE Cardinality(In(d3, c)) = cap - 1 BY <1>2, <2>6, <2>9, <3>1, <3>2, <3>5, SMTT(30)
    <3> QED BY <2>2, <3>3, <3>4, <3>5
  <2>12. Fifo(db, db') BY <2>2, <2>4, <2>7 DEF Fifo
  <2> QED BY <2>5, <2>11, <2>12, RetentionSpares DEF EvictsExactly, Fifo, B, cap
<1> QED BY <1>3, <1>4

\* A step that changes nothing but the collections, and drops records.
LEMMA DroppingStep ==
    ASSUME StoreState, Sound(db'), db'.records \subseteq db.records, Fifo(db, db'),
           db'.config = db.config, UNCHANGED <<config, unsaved, timer, now>>
    PROVE  StoreState' /\ EvictsExactly
BY QuietStep DEF StoreState

LEMMA FailInWriteStep ==
    ASSUME StoreState, NEW c \in Names, NEW t, FailInWrite(c, t)
    PROVE  StoreState' /\ EvictsExactly
<1>1. /\ config \in Configs /\ Sound(db) /\ MaxRecordsByStorage >= 1
      /\ db' \in Writes(c, t).partial /\ UNCHANGED <<config, unsaved, timer, now>>
  BY DEF StoreState, FailInWrite, CanWrite
<1>2. Sound(db') /\ db'.config = db.config /\ db'.records \subseteq db.records /\ Fifo(db, db')
  BY <1>1, InterruptedWrite
<1> QED BY <1>1, <1>2, DroppingStep

LEMMA RetentionStep ==
    ASSUME StoreState, EnforceRetention \/ FailInRetention
    PROVE  StoreState' /\ EvictsExactly
<1>1. FailInRetention BY Zenon DEF EnforceRetention, FailInRetention
<1>2. Sound(db') /\ db'.config = db.config /\ db'.records \subseteq db.records /\ Fifo(db, db')
  BY <1>1, RetentionSpares
<1>3. UNCHANGED <<config, unsaved, timer, now>> BY <1>1, Zenon DEF FailInRetention, Prune
<1> QED BY <1>2, <1>3, DroppingStep

\* createCollection() and updateCollection() give a retention to a collection there is.
LEMMA RetentionIsSet ==
    ASSUME NEW d, Sound(d), NEW f \in [DOMAIN d.collections -> Retentions],
           NEW e, e = [d EXCEPT !.collections = f]
    PROVE  Sound(e) /\ e.records = d.records /\ e.config = d.config
<1>1. d \in Database /\ d.collections \in Collections BY DatabaseFields DEF Sound
<1>2. DOMAIN d.collections \subseteq Names BY <1>1, CollectionsAreFunctions
<1>3. DOMAIN f = DOMAIN d.collections OBVIOUS
<1>4. f \in Collections BY <1>2, <1>3, CollectionsAreFunctions
<1>5. /\ e \in Database /\ e.records = d.records
      /\ e.collections = f /\ e.next = d.next /\ e.config = d.config
  BY <1>1, <1>4, WithCollections
<1> QED BY <1>3, <1>5 DEF Sound

LEMMA CollectionStep ==
    ASSUME StoreState, NEW c \in Names, NEW r \in Retentions,
           CreateCollection(c, r) \/ UpdateCollection(c, r)
    PROVE  StoreState' /\ EvictsExactly
<1>1. Sound(db) BY DEF StoreState
<1>2. Sound(db') /\ db'.records = db.records /\ db'.config = db.config
  <2>1. CASE CreateCollection(c, r)
    <3> DEFINE d == AutoCreate(db, c)
               f == [d.collections EXCEPT ![c] = r]
    <3>1. db' = [d EXCEPT !.collections = f] BY <2>1 DEF CreateCollection
    <3>2. Sound(d) /\ d.records = db.records /\ c \in DOMAIN d.collections /\ d.config = db.config
      BY <1>1, AutoCreation
    <3>3. d.collections \in Collections BY <3>2, DatabaseFields DEF Sound
    <3> HIDE DEF d
    <3>4. f \in [DOMAIN d.collections -> Retentions] BY <3>3, CollectionsAreFunctions, Zenon
    <3> HIDE DEF f
    <3> QED BY <3>1, <3>2, <3>4, RetentionIsSet
  <2>2. CASE UpdateCollection(c, r)
    <3> DEFINE f == [db.collections EXCEPT ![c] = r]
    <3>1. db' = [db EXCEPT !.collections = f] BY <2>2 DEF UpdateCollection
    <3>2. db.collections \in Collections BY <1>1, DatabaseFields DEF Sound
    <3>3. f \in [DOMAIN db.collections -> Retentions] BY <3>2, CollectionsAreFunctions, Zenon
    <3> HIDE DEF f
    <3> QED BY <1>1, <3>1, <3>3, RetentionIsSet
  <2> QED BY <2>1, <2>2
<1>3. UNCHANGED <<config, unsaved, timer, now>> BY DEF CreateCollection, UpdateCollection
<1> QED BY <1>2, <1>3, UntouchedRecords, DroppingStep

LEMMA DeleteStep ==
    ASSUME StoreState, NEW c \in Names, DeleteCollection(c) \/ FailInDelete(c)
    PROVE  StoreState' /\ EvictsExactly
<1> DEFINE R == db.records \ In(db, c)
           f == [n \in (DOMAIN db.collections) \ {c} |-> db.collections[n]]
           d == [db EXCEPT !.records = R]
<1>1. Sound(db) /\ R \in SUBSET db.records BY DEF StoreState
<1>2. Sound(d) /\ d.records = R /\ d.config = db.config /\ d.collections = db.collections
  <2> HIDE DEF R
  <2> QED BY <1>1, DroppingIsSound
<1>3. db' = d \/ db' = [d EXCEPT !.collections = f]
  <2>1. CASE FailInDelete(c) BY <2>1 DEF FailInDelete, DropRecords
  <2>2. CASE DeleteCollection(c)
    <3>1. /\ DropRecords(db, c) = d
          /\ db' = [DropRecords(d, c) EXCEPT !.collections =
                        [n \in (DOMAIN DropRecords(d, c).collections) \ {c}
                            |-> DropRecords(d, c).collections[n]]]
      BY <2>2, Zenon DEF DeleteCollection, DropRecords, DropCollection
    <3>2. DropRecords(d, c) = d
      <4>1. d.records \ In(d, c) = d.records BY <1>2 DEF In
      <4>2. DropRecords(d, c) = [d EXCEPT !.records = d.records] BY <4>1, Zenon DEF DropRecords
      <4>3. d \in Database BY <1>2 DEF Sound
      <4> HIDE DEF d
      <4> QED BY <4>2, <4>3 DEF Database
    <3> QED BY <1>2, <3>1, <3>2, Zenon
  <2> QED BY <2>1, <2>2
<1>4. Sound(db') /\ db'.records = R /\ db'.config = db.config
  <2>1. CASE db' = d BY <1>2, <2>1
  <2>2. CASE db' = [d EXCEPT !.collections = f]
    <3>1. d \in Database /\ d.collections \in Collections BY <1>2, DatabaseFields, Zenon DEF Sound
    <3>2. /\ DOMAIN db.collections \subseteq Names
          /\ db.collections \in [DOMAIN db.collections -> Retentions]
      BY <1>2, <3>1, CollectionsAreFunctions
    <3>3. DOMAIN f = (DOMAIN db.collections) \ {c} /\ f \in [DOMAIN f -> Retentions] BY <3>2
    <3>4. f \in Collections BY <3>2, <3>3, CollectionsAreFunctions
    <3>5. \A r \in R : r.collection # c BY DEF In
    <3> HIDE DEF f, d, R
    <3>6. /\ db' \in Database /\ db'.records = d.records
          /\ db'.collections = f /\ db'.next = d.next /\ db'.config = d.config
      BY <2>2, <3>1, <3>4, WithCollections
    <3> QED BY <1>2, <3>3, <3>5, <3>6 DEF Sound
  <2> QED BY <1>3, <2>1, <2>2
<1>5. Fifo(db, db') BY <1>4 DEF Fifo, In
<1>6. UNCHANGED <<config, unsaved, timer, now>> BY DEF DeleteCollection, FailInDelete
<1> HIDE DEF R
<1> QED BY <1>1, <1>4, <1>5, <1>6, DroppingStep

\* A configuration that replaces the stored one.
LEMMA ConfigIsStored ==
    ASSUME StoreState, NEW new \in Configs, db' = [db EXCEPT !.config = new]
    PROVE  Sound(db') /\ db'.config = new /\ db'.records = db.records
<1>1. Sound(db) /\ db \in Database BY DEF StoreState, Sound
<1>2. /\ db' \in Database /\ db'.records = db.records
      /\ db'.collections = db.collections /\ db'.next = db.next /\ db'.config = new
  BY <1>1, WithConfig
<1> QED BY <1>1, <1>2 DEF Sound

\* What persistConfig() saves before it stops is a configuration; all of it, the new one.
LEMMA SavedIsConfig ==
    ASSUME NEW old \in Configs, NEW new \in Configs, NEW keys \in 0..4
    PROVE  Saved(old, new, keys) \in Configs /\ (keys = 4 => Saved(old, new, keys) = new)
<1>1. /\ old.enabled \in BOOLEAN /\ new.enabled \in BOOLEAN
      /\ old.limits \in Limits /\ new.limits \in Limits
  BY DEF Configs
<1>2. /\ old.limits.storage \in Storages /\ new.limits.storage \in Storages
      /\ old.limits.records \in RecordCaps /\ new.limits.records \in RecordCaps
      /\ old.limits.collections \in CollectionCaps /\ new.limits.collections \in CollectionCaps
  BY <1>1 DEF Limits
<1>3. Saved(old, new, keys) \in Configs
  <2>1. /\ (IF keys > 0 THEN new.enabled ELSE old.enabled) \in BOOLEAN
        /\ (IF keys > 1 THEN new ELSE old).limits.storage \in Storages
        /\ (IF keys > 2 THEN new ELSE old).limits.records \in RecordCaps
        /\ (IF keys > 3 THEN new ELSE old).limits.collections \in CollectionCaps
    BY <1>1, <1>2, Zenon
  <2> QED BY <2>1, Zenon DEF Saved, Configs, Limits
<1>4. ASSUME keys = 4 PROVE Saved(old, new, keys) = new
  <2>1. keys > 0 /\ keys > 1 /\ keys > 2 /\ keys > 3 BY <1>4
  <2>2. Saved(old, new, keys) =
            [enabled |-> new.enabled,
             limits |-> [storage |-> new.limits.storage, records |-> new.limits.records,
                         collections |-> new.limits.collections]]
    BY <2>1, Zenon DEF Saved
  <2>3. new.limits = [storage |-> new.limits.storage, records |-> new.limits.records,
                      collections |-> new.limits.collections]
    BY <1>1 DEF Limits
  <2>4. new = [enabled |-> new.enabled, limits |-> new.limits] BY DEF Configs
  <2> QED BY <2>2, <2>3, <2>4, Zenon
<1> QED BY <1>3, <1>4

\* A configuration replaces the stored one, in whole or in part.
LEMMA SavingStep ==
    ASSUME StoreState, NEW stored \in Configs, db' = [db EXCEPT !.config = stored],
           config' \in Configs, unsaved' \in BOOLEAN, ~unsaved' => stored = config',
           UNCHANGED <<timer, now>>
    PROVE  StoreState' /\ EvictsExactly
<1>1. Sound(db') /\ db'.config = stored /\ db'.records = db.records BY ConfigIsStored
<1>2. StoreState' BY <1>1 DEF StoreState
<1> QED BY <1>1, <1>2, UntouchedRecords, QuietStep

LEMMA ConfigureStep ==
    ASSUME StoreState, Enable \/ Disable \/ UpdateConfig
    PROVE  StoreState' /\ EvictsExactly
<1>1. /\ config \in Configs /\ db.config \in Configs /\ unsaved \in BOOLEAN
      /\ ~unsaved => db.config = config
  BY DatabaseFields DEF StoreState, Sound
<1>2. ASSUME NEW new \in Configs, Configure(new) PROVE StoreState' /\ EvictsExactly
  <2>1. PICK keys \in 0..4 : /\ db' = [db EXCEPT !.config = Saved(@, new, keys)]
                             /\ unsaved' = (keys # 4)
    BY <1>2, Zenon DEF Configure
  <2> DEFINE stored == Saved(db.config, new, keys)
  <2>2. config' = new /\ UNCHANGED <<timer, now>> BY <1>2, Zenon DEF Configure
  <2>3. stored \in Configs /\ (keys = 4 => stored = new) BY <1>1, SavedIsConfig, Zenon
  <2>4. db' = [db EXCEPT !.config = stored] BY <2>1, Zenon
  <2>5. unsaved' \in BOOLEAN /\ (~unsaved' => keys = 4) BY <2>1, Zenon
  <2> HIDE DEF stored
  <2> QED BY <2>2, <2>3, <2>4, <2>5, SavingStep
<1>3. Offered \subseteq Limits BY StoreAssumption DEF Limits
<1>4. CASE Enable
  <2>1. PICK l \in Offered : Configure([enabled |-> TRUE, limits |-> l]) BY <1>4, Zenon DEF Enable
  <2>2. [enabled |-> TRUE, limits |-> l] \in Configs BY <1>3 DEF Configs
  <2> QED BY <1>2, <2>1, <2>2
<1>5. CASE UpdateConfig
  <2>1. PICK l \in Offered : Configure([config EXCEPT !.limits = l]) BY <1>5, Zenon DEF UpdateConfig
  <2>2. [config EXCEPT !.limits = l] \in Configs BY <1>1, <1>3 DEF Configs
  <2> QED BY <1>2, <2>1, <2>2
<1>6. CASE Disable
  <2> DEFINE new == [config EXCEPT !.enabled = FALSE]
  <2>1. PICK keys \in 0..1 : /\ db' = [db EXCEPT !.config = Saved(@, new, keys)]
                             /\ unsaved' = (unsaved \/ keys = 0)
    BY <1>6, Zenon DEF Disable
  <2>2. config' = new /\ UNCHANGED <<timer, now>> BY <1>6, Zenon DEF Disable
  <2>3. new \in Configs /\ new.limits = config.limits /\ new.enabled = FALSE BY <1>1 DEF Configs
  <2> HIDE DEF new
  <2> DEFINE stored == Saved(db.config, new, keys)
  <2>4. stored \in Configs BY <1>1, <2>3, SavedIsConfig
  <2>5. db' = [db EXCEPT !.config = stored] BY <2>1, Zenon
  <2>6. unsaved' \in BOOLEAN /\ (~unsaved' => ~unsaved /\ keys = 1)
    <3>1. keys = 0 \/ keys = 1 OBVIOUS
    <3> QED BY <2>1, <3>1, Zenon
  <2>7. ASSUME ~unsaved' PROVE stored = new
    <3>1. db.config = config /\ keys > 0 /\ ~(keys > 1) /\ ~(keys > 2) /\ ~(keys > 3)
      BY <1>1, <2>6, <2>7
    <3>2. stored = [enabled |-> new.enabled,
                    limits |-> [storage |-> new.limits.storage, records |-> new.limits.records,
                                collections |-> new.limits.collections]]
      BY <2>3, <3>1, Zenon DEF Saved
    <3>3. Saved(new, new, 4) = new BY <2>3, SavedIsConfig
    <3>4. Saved(new, new, 4) =
              [enabled |-> new.enabled,
               limits |-> [storage |-> new.limits.storage, records |-> new.limits.records,
                           collections |-> new.limits.collections]]
      BY Zenon DEF Saved
    <3> QED BY <3>2, <3>3, <3>4, Zenon
  <2> HIDE DEF stored
  <2> QED BY <2>2, <2>3, <2>4, <2>5, <2>6, <2>7, SavingStep
<1> QED BY <1>4, <1>5, <1>6

LEMMA IdleStep ==
    ASSUME StoreState, Restart \/ Tick \/ UNCHANGED vars
    PROVE  StoreState' /\ EvictsExactly
<1>1. UNCHANGED db BY DEF Restart, Tick, vars
<1>2. EvictsExactly BY <1>1, UntouchedRecords, QuietStep
<1>3. Sound(db') BY <1>1 DEF StoreState, Sound
<1>4. CASE Restart
  <2>1. db.config \in Configs BY DatabaseFields DEF StoreState, Sound
  <2>2. db.config.enabled \in BOOLEAN BY <2>1 DEF Configs
  <2> QED BY <1>1, <1>2, <1>3, <1>4, <2>1, <2>2 DEF StoreState, Restart
<1>5. CASE Tick
  <2>1. now' \in Times BY <1>5, StoreAssumption DEF StoreState, Tick, Times
  <2> QED BY <1>1, <1>2, <1>3, <1>5, <2>1 DEF StoreState, Tick
<1>6. CASE UNCHANGED vars BY <1>1, <1>2, <1>3, <1>6 DEF StoreState, vars
<1> QED BY <1>2, <1>4, <1>5, <1>6

\* One step of the store, whichever it is.
LEMMA StoreStep == ASSUME StoreState, [Next]_vars PROVE StoreState' /\ EvictsExactly
<1>1. CASE \E c \in Names, t \in Given \cup {now} : Write(c, t) BY <1>1, WriteStep
<1>2. CASE \E c \in Names, t \in Given \cup {now} : FailInWrite(c, t) BY <1>2, FailInWriteStep
<1>3. CASE \E c \in Names, r \in Retentions : CreateCollection(c, r) \/ UpdateCollection(c, r)
  BY <1>3, CollectionStep
<1>4. CASE \E c \in Names : DeleteCollection(c) \/ FailInDelete(c) BY <1>4, DeleteStep
<1>5. CASE Enable \/ Disable \/ UpdateConfig BY <1>5, ConfigureStep
<1>6. CASE EnforceRetention \/ FailInRetention BY <1>6, RetentionStep
<1>7. CASE Restart \/ Tick \/ UNCHANGED vars BY <1>7, IdleStep
<1> QED BY <1>1, <1>2, <1>3, <1>4, <1>5, <1>6, <1>7 DEF Next

-----------------------------------------------------------------------------
(* Theorems. *)

LEMMA StoreInit == ASSUME Init PROVE StoreState
<1> DEFINE f == [c \in {} |-> 0]
<1>1. /\ now = 0 /\ config \in Configs /\ timer = config.enabled /\ unsaved = FALSE
      /\ db = [collections |-> f, records |-> {}, next |-> 1, config |-> config]
  <2>1. Offered \subseteq Limits BY StoreAssumption DEF Limits
  <2> QED BY <2>1 DEF Init, Configs
<1>2. f \in Collections BY CollectionsAreFunctions, Zenon
<1> HIDE DEF f
<1>3. db \in Database BY <1>1, <1>2 DEF Database
<1>4. IsFiniteSet({}) BY FS_EmptySet
<1>5. Sound(db) BY <1>1, <1>3, <1>4, StoreAssumption DEF Sound
<1>6. now \in Times BY <1>1, StoreAssumption DEF Times
<1>7. timer \in BOOLEAN BY <1>1 DEF Configs
<1> QED BY <1>1, <1>5, <1>6, <1>7 DEF StoreState

\* The store is sound in every reachable state, wherever an operation stopped between two of
\* its SQL statements: the stored configuration is the one in force unless the last save of it
\* threw, ids are unique and below the next one, no record is left without its collection.
THEOREM StoreInvariant == Spec => []StoreState
<1>1. Init => StoreState BY StoreInit
<1>2. StoreState /\ [Next]_vars => StoreState' BY StoreStep
<1> QED BY <1>1, <1>2, PTL DEF Spec

\* The type of the state, the agreement of the stored configuration with the one in force,
\* and the integrity of the records (StoreInv) hold for any constants.
THEOREM StoreStaysSound == Spec => []StoreInv
<1>1. StoreState => StoreInv
  <2>1. SUFFICES ASSUME StoreState PROVE StoreInv OBVIOUS
  <2>2. /\ Sound(db) /\ db.next \in Nat
        /\ DOMAIN db.collections \subseteq Names
        /\ db.collections \in [DOMAIN db.collections -> Retentions]
        /\ db.records \subseteq RecordType
    BY <2>1, DatabaseFields, CollectionsAreFunctions DEF StoreState, Sound
  <2>3. ASSUME NEW r \in db.records
        PROVE  /\ r.id \in 1..db.next - 1 /\ r.timestamp \in Times
               /\ r.collection \in DOMAIN db.collections
    <3>1. r.id \in Nat /\ r.timestamp \in Times BY <2>2, <2>3 DEF RecordType
    <3>2. r.id < db.next /\ r.id > 0 /\ r.collection \in DOMAIN db.collections
      BY <2>2, <2>3 DEF Sound
    <3> QED BY <2>2, <3>1, <3>2
  <2>4. db.config \in Configs BY <2>2, DatabaseFields DEF Sound
  <2> QED BY <2>1, <2>2, <2>3, <2>4 DEF StoreInv, StoreState, Sound
<1> QED BY <1>1, StoreInvariant, PTL

\* write() evicts what it must and no more, oldest first, whether it is accepted, refused
\* or cut off, and enforceRetention() spares what has not outlived its period.
THEOREM EvictionExact == Spec => EvictionIsExact
<1>1. StoreState /\ [Next]_vars => [EvictsExactly]_vars BY StoreStep
<1> QED BY <1>1, StoreInvariant, PTL DEF Spec, EvictionIsExact

-----------------------------------------------------------------------------
(* Sampling. *)

LEMMA Monotone ==
    ASSUME NEW a \in Nat, NEW b \in Nat, NEW p \in Nat, a <= b
    PROVE  a * p \in Nat /\ b * p \in Nat /\ a * p <= b * p
BY SMTT(30)

InRange(S, start, end) ==
    \A r \in S : r.timestamp \in Nat /\ start <= r.timestamp /\ r.timestamp <= end

\* T takes one record of each bucket, B being the buckets of S.
TakesOneEach(T, S, B, start, width) ==
    /\ T \subseteq Representatives(S, start, width)
    /\ \A b \in B : \E r \in S : b = Bucket(r, start, width)
    /\ \A r \in S : \E s \in T : Bucket(s, start, width) = Bucket(r, start, width)
    /\ Cardinality(T) = Cardinality(B)

\* T stands for S: length is that of the range.
StandsFor(T, S, points, length) ==
    /\ T \subseteq S /\ Cardinality(T) <= points
    /\ \A r \in S : \E s \in T :
          /\ r.timestamp <= s.timestamp
          /\ (s.timestamp - r.timestamp) * points < length + points

\* One record of each bucket: no more of them than points, and none far from what it stands for.
LEMMA SampleOfRange ==
    ASSUME NEW S, IsFiniteSet(S), NEW points \in Nat \ {0},
           NEW start \in Nat, NEW end \in Nat, start <= end, InRange(S, start, end),
           NEW width, width = BucketWidthMs(start, end, points),
           NEW T, NEW B, TakesOneEach(T, S, B, start, width)
    PROVE  StandsFor(T, S, points, end - start)
<1> DEFINE span == end - start + 1
<1>1. span \in Nat \ {0} OBVIOUS
<1>2. /\ width \in Nat \ {0} /\ span <= width * points
      /\ (width - 1) * points <= span - 1
  <2>1. width = CeilDiv(span, points) \/ (CeilDiv(span, points) < 1 /\ width = 1)
    BY <1>1 DEF BucketWidthMs
  <2> HIDE DEF span
  <2>2. /\ CeilDiv(span, points) \in Nat \ {0} /\ span <= CeilDiv(span, points) * points
        /\ (CeilDiv(span, points) - 1) * points <= span - 1
    BY <1>1, CeilDivIsExact
  <2>3. width = CeilDiv(span, points) BY <2>1, <2>2
  <2> QED BY <2>2, <2>3
<1>3. T \subseteq S BY DEF Representatives, TakesOneEach
<1>4. \A r \in S : r.timestamp - start \in Nat /\ r.timestamp - start < span BY DEF InRange
<1>5. Cardinality(T) <= points
  <2>1. ASSUME NEW r \in S PROVE Bucket(r, start, width) \in 0..points - 1
    <3> DEFINE x == r.timestamp - start
    <3>1. width * points \in Nat BY <1>2
    <3>2. x \in Nat /\ x < span BY <1>4, <2>1
    <3> HIDE DEF x, span
    <3>3. x < width * points BY <1>1, <1>2, <3>1, <3>2
    <3>4. x \div width \in Nat /\ x \div width < points BY <1>2, <3>2, <3>3, BucketIsBounded
    <3> QED BY <3>4 DEF Bucket, x
  <2> DEFINE I == 0..points - 1
  <2>2. B \subseteq I BY <2>1 DEF TakesOneEach
  <2>3. IsFiniteSet(I) /\ Cardinality(I) = points
    <3>1. points - 1 \in Int OBVIOUS
    <3>2. /\ IsFiniteSet(I)
          /\ Cardinality(I) = IF 0 > points - 1 THEN 0 ELSE points - 1 - 0 + 1
      BY <3>1, FS_Interval
    <3> QED BY <3>2
  <2> HIDE DEF I
  <2>4. Cardinality(B) <= points BY <2>2, <2>3, FS_Subset
  <2> QED BY <2>4 DEF TakesOneEach
<1>6. ASSUME NEW r \in S
      PROVE  \E s \in T : /\ r.timestamp <= s.timestamp
                          /\ (s.timestamp - r.timestamp) * points < end - start + points
  <2>1. PICK s \in T : Bucket(s, start, width) = Bucket(r, start, width)
    BY <1>6 DEF TakesOneEach
  <2>2. s \in S /\ r.timestamp <= s.timestamp BY <1>3, <2>1 DEF Representatives, TakesOneEach
  <2> DEFINE x == r.timestamp - start
             y == s.timestamp - start
             gap == s.timestamp - r.timestamp
  <2>3. x \in Nat /\ y \in Nat /\ gap \in Nat /\ gap = y - x BY <1>4, <2>2 DEF InRange
  <2>4. x \div width = y \div width BY <2>1 DEF Bucket
  <2> HIDE DEF x, y, gap
  <2>5. y - x <= width - 1 BY <1>2, <2>3, <2>4, SameBucketIsNear, Zenon
  <2>6. width - 1 \in Nat /\ gap <= width - 1 BY <1>2, <2>3, <2>5
  <2>7. gap * points \in Nat /\ (width - 1) * points \in Nat /\ gap * points <= (width - 1) * points
    BY <2>3, <2>6, Monotone
  <2>8. gap * points < end - start + points BY <1>2, <2>7
  <2> QED BY <2>2, <2>8 DEF gap
<1> QED BY <1>3, <1>5, <1>6 DEF StandsFor

\* query() with maxPoints returns at most that many records, all of the range asked for,
\* and for each record of the range a later one less than a bucket away; a range that fits
\* is returned whole.  For any range, stored records and number of points.
THEOREM SamplesAreFaithful == Spec => []SampleIsFaithful
<1>1. ASSUME StoreState, NEW c \in DOMAIN db.collections, NEW from \in {-1} \cup Times,
             NEW to \in Times, NEW points \in Points, from <= to,
             NEW T \in Samples(c, from, to, points),
             NEW first, first = IF from = -1 THEN 0 ELSE from
      PROVE  /\ T \subseteq Matching(c, from, to) /\ Cardinality(T) <= points
             /\ Cardinality(Matching(c, from, to)) <= points => T = Matching(c, from, to)
             /\ \A r \in Matching(c, from, to) : \E s \in T :
                   /\ r.timestamp <= s.timestamp
                   /\ (s.timestamp - r.timestamp) * points < to - first + points
  <2> DEFINE S == Matching(c, from, to)
  <2>1. /\ points \in Nat \ {0} /\ to \in Nat /\ first \in Nat /\ first <= to
        /\ from \in Int /\ Times \subseteq Nat
    BY <1>1, StoreAssumption DEF Times
  <2>2. /\ IsFiniteSet(S) /\ Cardinality(S) \in Nat
        /\ \A r \in S : r.timestamp \in Nat /\ from <= r.timestamp /\ r.timestamp <= to
    <3>1. IsFiniteSet(db.records) /\ db.records \subseteq RecordType
      BY <1>1, DatabaseFields DEF StoreState, Sound
    <3>2. S \subseteq db.records BY <1>1 DEF Matching, In
    <3>3. IsFiniteSet(S) BY <3>1, <3>2, FS_Subset
    <3>4. \A r \in S : r.timestamp \in Nat /\ from <= r.timestamp /\ r.timestamp <= to
      BY <1>1, <2>1, <3>1, <3>2, Zenon DEF Matching, RecordType
    <3> QED BY <3>3, <3>4, FS_CardinalityType
  <2>3. CASE Cardinality(S) <= points
    <3>1. T = S BY <1>1, <2>3 DEF Samples
    <3>2. \A r \in S : (r.timestamp - r.timestamp) * points < to - first + points
      <4>1. TAKE r \in S
      <4>2. (r.timestamp - r.timestamp) * points = 0 BY <2>1, <2>2
      <4> QED BY <2>1, <4>2
    <3> QED BY <2>2, <2>3, <3>1, <3>2
  <2>4. CASE ~(Cardinality(S) <= points)
    <3> DEFINE oldest == CHOOSE r \in S : \A q \in S : r.timestamp <= q.timestamp
               start == IF from = -1 THEN oldest.timestamp ELSE from
               end == IF to < start THEN start ELSE to
               width == BucketWidthMs(start, end, points)
    <3>1. S # {} BY <2>1, <2>4, FS_EmptySet
    <3>2. oldest \in S /\ \A q \in S : oldest.timestamp <= q.timestamp
      <4> DEFINE N == {r.timestamp : r \in S}
      <4>1. N \subseteq Nat /\ N # {} BY <2>2, <3>1
      <4>2. \E x \in N : \A y \in N : x <= y BY <4>1, LeastNumber, Zenon
      <4>3. \E r \in S : \A q \in S : r.timestamp <= q.timestamp BY <4>2
      <4> QED BY <4>3
    <3>3. /\ start \in Nat /\ first <= start /\ start <= to /\ end = to
          /\ \A r \in S : start <= r.timestamp
      <4> HIDE DEF oldest
      <4>1. CASE from = -1 BY <1>1, <2>1, <2>2, <3>2, <4>1
      <4>2. CASE from # -1 BY <1>1, <2>1, <2>2, <4>2
      <4> QED BY <4>1, <4>2
    <3>4. /\ T \subseteq Representatives(S, start, width)
          /\ {Bucket(r, start, width) : r \in T} = {Bucket(r, start, width) : r \in S}
          /\ Cardinality(T) = Cardinality({Bucket(r, start, width) : r \in S})
      BY <1>1, <2>4, Zenon DEF Samples
    <3> DEFINE B == {Bucket(r, start, width) : r \in S}
    <3> HIDE DEF S, start, end
    <3>5. /\ end \in Nat /\ start \in Nat /\ start <= end /\ InRange(S, start, end)
      BY <2>1, <2>2, <3>3 DEF InRange
    <3>6. width = BucketWidthMs(start, end, points) OBVIOUS
    <3> HIDE DEF width
    <3>7. TakesOneEach(T, S, B, start, width) BY <3>4 DEF TakesOneEach
    <3> HIDE DEF B
    <3>8. StandsFor(T, S, points, end - start)
      BY <2>1, <2>2, <3>5, <3>6, <3>7, SampleOfRange
    <3>9. \A r, s \in S : (s.timestamp - r.timestamp) * points \in Int BY <2>1, <2>2
    <3>10. \A r, s \in S : (s.timestamp - r.timestamp) * points < end - start + points
                          => (s.timestamp - r.timestamp) * points < to - first + points
      BY <2>1, <3>3, <3>9
    <3> QED BY <2>4, <3>10, <3>8 DEF S, StandsFor
  <2> QED BY <2>3, <2>4
<1>2. StoreState => SampleIsFaithful BY <1>1 DEF SampleIsFaithful
<1> QED BY <1>2, StoreInvariant, PTL
=============================================================================
