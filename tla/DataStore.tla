------------------------------ MODULE DataStore ------------------------------
(***************************************************************************)
(* The historical Data Store (src/data-store/data-store.ts): bounded       *)
(* collections of timestamped records, their eviction and retention, and   *)
(* the sampling of a time range.                                           *)
(*                                                                         *)
(* Every SQL statement commits by itself, so that an operation may stop    *)
(* between two of its statements, because one throws or because the        *)
(* process dies (then Restart follows); db is what the database holds.     *)
(* The payload and the tags of a record are left out.  A retention of 0    *)
(* stands for NULL.                                                        *)
(***************************************************************************)
EXTENDS Integers, FiniteSets

CONSTANTS
    Names,        \* names of collections
    MbBytes,      \* bytes in one unit of maxStorageMb
    RecordBytes,  \* the estimate of one record's size
    DayMs,        \* one day of retention
    Storages, RecordCaps, CollectionCaps,  \* the values of the limits
    Offered,      \* the limits an administrator sets together
    Retentions,   \* the retention periods, in days; 0 for none
    Points,       \* the values of maxPoints that are asked for
    MaxRecords,   \* bound: records ever written
    Given,        \* bound: timestamps given with a write instead of the clock's
    MaxTime       \* bound: the clock

ASSUME StoreAssumption ==
    /\ {MbBytes, RecordBytes, DayMs} \subseteq Nat \ {0} /\ {MaxTime, MaxRecords} \subseteq Nat
    /\ Given \subseteq 0..MaxTime
    /\ Points \subseteq Nat \ {0} /\ Retentions \subseteq Nat /\ 0 \in Retentions
    /\ Storages \cup RecordCaps \cup CollectionCaps \subseteq Nat \ {0}
    /\ Offered \subseteq [storage : Storages, records : RecordCaps, collections : CollectionCaps]

VARIABLES
    db,      \* ds_collections, ds_records, the next id, and ds_config
    config,  \* this.config
    unsaved, \* did the last save of the configuration throw? (history)
    timer,   \* is the retention timer running?
    now      \* the clock

vars == <<db, config, unsaved, timer, now>>

Times == 0..MaxTime
Limits == [storage : Storages, records : RecordCaps, collections : CollectionCaps]
Configs == [enabled : BOOLEAN, limits : Limits]

Init ==
    /\ now = 0
    /\ config \in [enabled : BOOLEAN, limits : Offered] /\ unsaved = FALSE /\ timer = config.enabled
    /\ db = [collections |-> [c \in {} |-> 0], records |-> {}, next |-> 1, config |-> config]
-----------------------------------------------------------------------------
(* The statements of write(). *)

In(d, c) == {r \in d.records : r.collection = c}

\* How many records the budget holds; one that holds none refuses every write.
MaxRecordsByStorage == (config.limits.storage * MbBytes) \div RecordBytes

\* SELECT ... ORDER BY timestamp ASC, id ASC LIMIT n
Oldest(S, n) ==
    {r \in S : Cardinality({q \in S : \/ q.timestamp < r.timestamp
                                      \/ q.timestamp = r.timestamp /\ q.id < r.id}) < n}

EvictGlobally(d) ==
    LET excess == Cardinality(d.records) - MaxRecordsByStorage + 1
    IN  IF excess < 1 THEN d ELSE [d EXCEPT !.records = @ \ Oldest(@, excess)]

AutoCreate(d, c) ==
    IF c \in DOMAIN d.collections THEN d
    ELSE [d EXCEPT !.collections = [n \in (DOMAIN @) \cup {c} |-> IF n = c THEN 0 ELSE @[n]]]

\* SELECT ... WHERE collection = ? ORDER BY timestamp ASC LIMIT n: ties may fall either way.
Candidates(S, n) ==
    {E \in SUBSET S : /\ Cardinality(E) = n
                      /\ \A e \in E, k \in S \ E : e.timestamp <= k.timestamp}

\* Mutation: the collection may hold one record too many.
EvictionsFromOffByOne(d, c) ==
    LET excess == Cardinality(In(d, c)) - config.limits.records
    IN  IF excess < 1 THEN {{}} ELSE Candidates(In(d, c), excess)

EvictionsFrom(d, c) ==
    LET excess == Cardinality(In(d, c)) - config.limits.records + 1
    IN  IF excess < 1 THEN {{}} ELSE Candidates(In(d, c), excess)

Insert(d, c, t) ==
    [d EXCEPT !.records = @ \cup {[id |-> d.next, collection |-> c, timestamp |-> t]},
              !.next = @ + 1]

CollectionsFull(d) == Cardinality(DOMAIN d.collections) >= config.limits.collections
-----------------------------------------------------------------------------
(* Actions: records. *)

\* What write() leaves behind when it goes to its end, which may be the limit of
\* collections, and when one of its statements fails.
Writes(c, t) ==
    LET d1 == EvictGlobally(db)
        d2 == AutoCreate(d1, c)
        kept == {[d2 EXCEPT !.records = @ \ E] : E \in EvictionsFrom(d2, c)}
    IN  IF c \notin DOMAIN d1.collections /\ CollectionsFull(d1)
        THEN [done |-> {d1}, partial |-> {db, d1}]
        ELSE [done |-> {Insert(d3, c, t) : d3 \in kept}, partial |-> {db, d1, d2} \cup kept]

CanWrite == config.enabled /\ MaxRecordsByStorage >= 1 /\ db.next <= MaxRecords

Write(c, t) ==
    /\ CanWrite
    /\ db' \in Writes(c, t).done
    /\ UNCHANGED <<config, unsaved, timer, now>>

FailInWrite(c, t) ==
    /\ CanWrite
    /\ db' \in Writes(c, t).partial
    /\ UNCHANGED <<config, unsaved, timer, now>>

\* Mutation: the cutoff lies a day too early.
ExpiredLate(c) == {r \in In(db, c) : r.timestamp < now - (db.collections[c] + 1) * DayMs}

Expired(c) == {r \in In(db, c) : r.timestamp < now - db.collections[c] * DayMs}

\* enforceRetention() prunes every collection that has a retention period.
Retained == {c \in DOMAIN db.collections : db.collections[c] # 0}

Prune(C) ==
    /\ timer
    /\ db' = [db EXCEPT !.records = @ \ UNION {Expired(c) : c \in C}]
    /\ UNCHANGED <<config, unsaved, timer, now>>

EnforceRetention == Prune(Retained)

\* A statement fails: the rest waits for the next interval.
FailInRetention == \E C \in SUBSET Retained : Prune(C)
-----------------------------------------------------------------------------
(* Actions: collections, configuration, time. *)

CreateCollection(c, retention) ==
    /\ ~CollectionsFull(db) /\ c \notin DOMAIN db.collections
    /\ db' = [AutoCreate(db, c) EXCEPT !.collections[c] = retention]
    /\ UNCHANGED <<config, unsaved, timer, now>>

UpdateCollection(c, retention) ==
    /\ c \in DOMAIN db.collections
    /\ db' = [db EXCEPT !.collections[c] = retention]
    /\ UNCHANGED <<config, unsaved, timer, now>>

DropRecords(d, c) == [d EXCEPT !.records = @ \ In(d, c)]

\* The foreign key of ds_records cascades.
DropCollection(d, c) ==
    [DropRecords(d, c) EXCEPT !.collections = [n \in (DOMAIN @) \ {c} |-> @[n]]]

DeleteCollection(c) ==
    /\ c \in DOMAIN db.collections
    /\ db' = DropCollection(DropRecords(db, c), c)
    /\ UNCHANGED <<config, unsaved, timer, now>>

FailInDelete(c) ==
    /\ c \in DOMAIN db.collections
    /\ db' = DropRecords(db, c)
    /\ UNCHANGED <<config, unsaved, timer, now>>

\* Mutation: the limit of collections is not saved.
SavedWithoutCollections(old, new, keys) ==
    [enabled |-> IF keys > 0 THEN new.enabled ELSE old.enabled,
     limits |-> [storage |-> (IF keys > 1 THEN new ELSE old).limits.storage,
                 records |-> (IF keys > 2 THEN new ELSE old).limits.records,
                 collections |-> old.limits.collections]]

\* ds_config when persistConfig() has saved the first of its four keys.
Saved(old, new, keys) ==
    [enabled |-> IF keys > 0 THEN new.enabled ELSE old.enabled,
     limits |-> [storage |-> (IF keys > 1 THEN new ELSE old).limits.storage,
                 records |-> (IF keys > 2 THEN new ELSE old).limits.records,
                 collections |-> (IF keys > 3 THEN new ELSE old).limits.collections]]

\* enable() and updateConfig(): in memory, then key by key in ds_config.
Configure(new) ==
    /\ config' = new
    /\ \E keys \in 0..4 :
        /\ db' = [db EXCEPT !.config = Saved(@, new, keys)]
        /\ unsaved' = (keys # 4)
    /\ UNCHANGED <<timer, now>>

Enable == \E l \in Offered : Configure([enabled |-> TRUE, limits |-> l])
UpdateConfig == \E l \in Offered : Configure([config EXCEPT !.limits = l])

\* disable() saves its one key.
Disable ==
    /\ config' = [config EXCEPT !.enabled = FALSE]
    /\ \E keys \in 0..1 :
        /\ db' = [db EXCEPT !.config = Saved(@, config', keys)]
        /\ unsaved' = (unsaved \/ keys = 0)
    /\ UNCHANGED <<timer, now>>

\* The process stops, for whatever reason, and starts again; index.ts starts the timer if
\* the store is enabled then.
Restart ==
    /\ config' = db.config /\ unsaved' = FALSE /\ timer' = db.config.enabled
    /\ UNCHANGED <<db, now>>

Tick ==
    /\ now < MaxTime
    /\ now' = now + 1
    /\ UNCHANGED <<db, config, unsaved, timer>>

Next ==
    \/ \E c \in Names : \/ \E t \in Given \cup {now} : Write(c, t) \/ FailInWrite(c, t)
                        \/ \E r \in Retentions : CreateCollection(c, r) \/ UpdateCollection(c, r)
                        \/ DeleteCollection(c) \/ FailInDelete(c)
    \/ Enable \/ Disable \/ UpdateConfig
    \/ EnforceRetention \/ FailInRetention \/ Restart \/ Tick

Spec == Init /\ [][Next]_vars

\* The interval of the retention timer elapses again and again while the timer runs, and
\* the database does not fail every time.
FairSpec == Spec /\ WF_vars(EnforceRetention)
-----------------------------------------------------------------------------
(* query() with maxPoints, as a function of what is stored. *)

CeilDiv(a, b) == (a + b - 1) \div b

\* Mutation: the width is rounded down.
BucketRoundedDown(from, to, points) ==
    LET w == (to - from + 1) \div points IN IF w < 1 THEN 1 ELSE w

BucketWidthMs(from, to, points) ==
    LET span == IF to - from + 1 < 1 THEN 1 ELSE to - from + 1
        w == CeilDiv(span, points)
    IN  IF w < 1 THEN 1 ELSE w

Matching(c, from, to) == {r \in In(db, c) : from <= r.timestamp /\ r.timestamp <= to}

\* sampleRange(): the records that may stand for their bucket, one of each bucket is taken.
Bucket(r, from, width) == (r.timestamp - from) \div width

Representatives(S, from, width) ==
    {r \in S : \A q \in S : Bucket(q, from, width) = Bucket(r, from, width)
                            => q.timestamp <= r.timestamp}

\* Every result query() may return for a range; from = -1 stands for a range left open.
Samples(c, from, to, points) ==
    LET S == Matching(c, from, to)
        start == IF from = -1
                 THEN (CHOOSE r \in S : \A q \in S : r.timestamp <= q.timestamp).timestamp
                 ELSE from
        end == IF to < start THEN start ELSE to
        width == BucketWidthMs(start, end, points)
        tops == Representatives(S, start, width)
        buckets == {Bucket(r, start, width) : r \in S}
    IN  IF Cardinality(S) <= points THEN {S}
        ELSE {T \in SUBSET tops :
                /\ {Bucket(r, start, width) : r \in T} = buckets
                /\ Cardinality(T) = Cardinality(buckets)}
-----------------------------------------------------------------------------
(* Properties. *)

\* The variables keep their types; the stored configuration is the one in force, unless the
\* last save threw half way (the memory is changed first); a record belongs to a collection
\* and has an id of its own, wherever an operation stopped.
StoreInv ==
    /\ now \in Times /\ timer \in BOOLEAN /\ unsaved \in BOOLEAN
    /\ config \in Configs /\ db.config \in Configs
    /\ ~unsaved => db.config = config
    /\ db.next \in 1..MaxRecords + 1
    /\ DOMAIN db.collections \subseteq Names
    /\ \A c \in DOMAIN db.collections : db.collections[c] \in Retentions
    /\ \A r \in db.records : /\ r.id \in 1..db.next - 1 /\ r.timestamp \in Times
                             /\ r.collection \in DOMAIN db.collections
    /\ \A q, r \in db.records : q.id = r.id => q = r

Written == db'.records \ db.records

\* What a step may do to the records.
EvictsExactly ==
    /\ \A r \in Written :
         LET full == Cardinality(db'.records)
             held == Cardinality(In(db', r.collection))
         IN  /\ full <= MaxRecordsByStorage /\ held <= config.limits.records
             /\ \/ db.records \subseteq db'.records
                \/ full = MaxRecordsByStorage \/ held = config.limits.records
    /\ \A e \in db.records \ db'.records, k \in db.records \cap db'.records :
         e.collection = k.collection => e.timestamp <= k.timestamp
    /\ \A r \in db.records \ db'.records :
         FailInRetention => r.timestamp + db.collections[r.collection] * DayMs < now

\* Every record that goes, goes for a reason.  A write that is accepted leaves the store
\* within its budget and the collection within its cap, even when an administrator has
\* lowered both below what was stored, or an earlier write was cut off half way; and its two
\* evictions do not add up: if it drops records, one of the two is left exactly full.
\* Eviction is first in, first out: a write, whether it is accepted, refused or cut off,
\* never drops a record of a collection and keeps an older one of it.  Retention spares
\* what has not outlived its collection's period.
EvictionIsExact == [][EvictsExactly]_vars

\* What is asked of a sample: no more points than were asked for, stored records of the
\* range only, and for each record of the range a later point less than a bucket away.
\* A range that fits is returned whole.
SampleIsFaithful ==
    \A c \in DOMAIN db.collections, from \in {-1} \cup Times, to \in Times, points \in Points :
        from <= to =>
        LET S == Matching(c, from, to)
            start == IF from = -1 THEN 0 ELSE from
        IN  \A T \in Samples(c, from, to, points) :
                /\ T \subseteq S /\ Cardinality(T) <= points
                /\ Cardinality(S) <= points => T = S
                /\ \A r \in S : \E s \in T :
                      /\ r.timestamp <= s.timestamp
                      /\ (s.timestamp - r.timestamp) * points < to - start + points

NothingIsDue ==
    \A c \in DOMAIN db.collections : db.collections[c] # 0 =>
        \A r \in In(db, c) : r.timestamp + db.collections[c] * DayMs >= now

\* Retention is enforced in an enabled store whose timer runs: records that have outlived
\* the retention of their collection do not stay.
RetentionIsEnforced == []<>(~timer \/ ~config.enabled \/ NothingIsDue)

\* "age-based retention" and "periodic cleanup": while the store is enabled, records that
\* have outlived the retention of their collection are removed.
EnabledStoreIsCleaned == []<>(~config.enabled \/ NothingIsDue)

\* "Disabling the Data Store disables Collections, retention and storage configuration"
\* (ADR-0016), "Existing data is preserved" (disable()): retention takes nothing from a
\* disabled store.
DisabledStoreIsPreserved ==
    [][FailInRetention /\ ~config.enabled => db.records \subseteq db'.records]_vars
=============================================================================
