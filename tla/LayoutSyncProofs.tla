-------------------------- MODULE LayoutSyncProofs --------------------------
(***************************************************************************)
(* No save drops another browser's work, for any number of browsers, reads *)
(* in flight and edits.  What one browser's store does is a function of    *)
(* its tab; Keeps says what the functions that neither show nor send       *)
(* anything new have in common.  The second part follows the work that is  *)
(* not saved yet, and the conflicts a browser reports.                     *)
(***************************************************************************)
EXTENDS LayoutSync, TLAPS

SameSave(s, t) ==
    s.pc = t.pc /\ s.expected = t.expected /\ s.layout = t.layout /\ s.revision = t.revision

Keeps(b, t, u) ==
    /\ u \in Tabs(b) /\ u.view = t.view /\ u.base = t.base
    /\ u.save = NoSave \/ SameSave(u.save, t.save)
    /\ \A i \in Slots(b) :
        \/ u.reads[i] = t.reads[i]
        \/ u.reads[i].pc # "answered" /\ u.reads[i].revision = 0

LEMMA NothingTypes == NoRead \in Reads /\ NoSave \in Saves
BY Zenon DEF NoRead, NoSave, Reads, Saves

LEMMA KeepsIsHarmless ==
    ASSUME TypeOK, NEW b \in Browsers, NEW t \in Tabs(b), NEW u, BehindServer(b, t), Keeps(b, t, u)
    PROVE  BehindServer(b, u) /\ (InStep(b, t) => InStep(b, u))
<1>1. server.revision \in Nat \ {0} /\ NoSave.pc = "none" /\ NoSave.expected = 0 /\ NoSave.revision = 0
  BY Zenon DEF TypeOK, NoSave
<1>2. \A i \in Slots(b) : u.reads[i].pc = "answered" => u.reads[i] = t.reads[i]
  BY Zenon DEF Keeps
<1>3. BehindServer(b, u)
  BY <1>1 DEF BehindServer, Keeps, SameSave
<1>4. ASSUME InStep(b, t) PROVE InStep(b, u)
  BY <1>1, <1>2, <1>4, Zenon DEF InStep, Keeps, SameSave
<1> QED
  BY <1>3, <1>4, Zenon

LEMMA BeginKeeps ==
    ASSUME NEW b \in Browsers, NEW t \in Tabs(b), NEW read \in Reads,
           read.pc # "answered", read.revision = 0
    PROVE  Keeps(b, t, Begin(t, read))
<1> DEFINE i == CHOOSE k \in FreeSlots(t) : TRUE
           u == [t EXCEPT !.reads[i] = read]
<1>1. Begin(t, read) = u
  BY Zenon DEF Begin
<1> HIDE DEF i
<1>2. /\ u.view = t.view /\ u.base = t.base /\ u.save = t.save
      /\ u.reads = [t.reads EXCEPT ![i] = read]
  BY Zenon DEF Tabs
<1>3. u.reads \in [Slots(b) -> Reads]
  BY <1>2, Zenon DEF Tabs
<1>4. u \in Tabs(b)
  BY <1>3, Zenon DEF Tabs
<1>5. \A j \in Slots(b) : u.reads[j] = t.reads[j] \/ u.reads[j] = read
  BY <1>2, Zenon DEF Tabs
<1> QED
  BY <1>1, <1>2, <1>4, <1>5, Zenon DEF Keeps, SameSave

LEMMA SendType ==
    ASSUME NEW for \in {"initialize", "reload", "follow", "reconcile"}
    PROVE  Send(for) \in Reads /\ Send(for).pc = "sent" /\ Send(for).revision = 0
BY Zenon DEF Send, NoRead, Reads

LEMMA ResetKeeps ==
    ASSUME NEW b \in Browsers, NEW t \in Tabs(b),
           NEW for \in {"initialize", "reload", "follow", "reconcile"}
    PROVE  Keeps(b, t, ResetLayout(t, for))
<1> DEFINE t1 == [t EXCEPT !.timer = FALSE, !.requested = FALSE]
           read == [Send(for) EXCEPT !.pc = IF t.save.pc = "none" THEN "sent" ELSE "waiting"]
<1>1. t1 \in Tabs(b) /\ t1.view = t.view /\ t1.base = t.base /\ t1.save = t.save /\ t1.reads = t.reads
  BY Zenon DEF Tabs
<1>2. read \in Reads /\ read.pc # "answered" /\ read.revision = 0
  BY SendType DEF Reads
<1>3. ResetLayout(t, for) = Begin(t1, read)
  BY Zenon DEF ResetLayout
<1> HIDE DEF t1, read
<1>4. Keeps(b, t1, Begin(t1, read))
  BY <1>1, <1>2, BeginKeeps, Zenon
<1> QED
  BY <1>1, <1>3, <1>4, Zenon DEF Keeps, SameSave

LEMMA FinishKeeps ==
    ASSUME TypeOK, NEW b \in Browsers, NEW t \in Tabs(b), BehindServer(b, t)
    PROVE  Keeps(b, t, Finish(t)) /\ Finish(t).save = NoSave
<1> DEFINE reads == [i \in DOMAIN t.reads |-> IF t.reads[i].pc = "waiting"
                        THEN [t.reads[i] EXCEPT !.pc = "sent"] ELSE t.reads[i]]
           u == [t EXCEPT !.save = NoSave, !.reads = reads]
<1>1. Finish(t) = u
  BY Zenon DEF Finish
<1>2. DOMAIN t.reads = Slots(b) /\ \A i \in Slots(b) : t.reads[i] \in Reads
  BY Zenon DEF Tabs
<1>3. ASSUME NEW i \in Slots(b)
      PROVE  /\ reads[i] \in Reads
             /\ reads[i] = t.reads[i] \/ (reads[i].pc # "answered" /\ reads[i].revision = 0)
  <2>1. t.reads[i].pc = "waiting" => t.reads[i].revision = 0
    BY Zenon DEF BehindServer
  <2> QED
    BY <1>2, <2>1, Zenon DEF Reads
<1>4. reads \in [Slots(b) -> Reads]
  BY <1>2, <1>3, Zenon
<1> HIDE DEF reads
<1>5. /\ u.view = t.view /\ u.base = t.base /\ u.save = NoSave /\ u.reads = reads
      /\ u \in Tabs(b)
  BY <1>4, NothingTypes, Zenon DEF Tabs
<1> QED
  BY <1>1, <1>3, <1>5, Zenon DEF Keeps

LEMMA RemoteKeeps ==
    ASSUME NEW b \in Browsers, NEW t \in Tabs(b), NEW revision \in Nat
    PROVE  Keeps(b, t, HandleRemoteLayoutRevision(t, revision))
<1> DEFINE u == [t EXCEPT !.conflict = TRUE, !.timer = FALSE, !.requested = FALSE,
                          !.save.remote = t.save.pc # "none"]
<1>1. Keeps(b, t, t)
  BY Zenon DEF Keeps, SameSave
<1>2. Keeps(b, t, ResetLayout(t, "follow"))
  BY ResetKeeps, Zenon
<1>3. Keeps(b, t, u)
  <2>1. /\ u.view = t.view /\ u.base = t.base /\ u.reads = t.reads
        /\ u.save = [t.save EXCEPT !.remote = t.save.pc # "none"]
    BY Zenon DEF Tabs
  <2>2. u.save \in Saves /\ SameSave(u.save, t.save)
    BY <2>1, Zenon DEF Tabs, Saves, SameSave
  <2>3. u \in Tabs(b)
    BY <2>2, Zenon DEF Tabs
  <2> QED
    BY <2>1, <2>2, <2>3, Zenon DEF Keeps
<1> QED
  BY <1>1, <1>2, <1>3, Zenon DEF HandleRemoteLayoutRevision

\* What the persist loop sends is what is shown, at the revision it was derived from.
ShowsTheServers(b, t) ==
    t.base = server.revision => Foreign(t.view, b) = Foreign(server.layout, b)

LEMMA LoopIsInStep ==
    ASSUME TypeOK, NEW b \in Browsers, NEW t \in Tabs(b), BehindServer(b, t)
    PROVE  /\ PersistLoop(t) \in Tabs(b) /\ BehindServer(b, PersistLoop(t))
           /\ ShowsTheServers(b, t) => InStep(b, PersistLoop(t))
<1> DEFINE u == [t EXCEPT !.requested = FALSE]
           save == [NoSave EXCEPT !.pc = "sent", !.expected = t.base, !.layout = t.view]
           v == [u EXCEPT !.save = save]
<1>1. u \in Tabs(b) /\ u.view = t.view /\ u.base = t.base /\ u.save = t.save /\ u.reads = t.reads
  BY Zenon DEF Tabs
<1>2. BehindServer(b, u)
  BY <1>1, Zenon DEF BehindServer
<1>3. /\ Finish(u) \in Tabs(b) /\ BehindServer(b, Finish(u))
      /\ ShowsTheServers(b, t) => InStep(b, Finish(u))
  <2>1. Keeps(b, u, Finish(u)) /\ Finish(u).save = NoSave
    BY <1>1, <1>2, FinishKeeps, Zenon
  <2>2. BehindServer(b, Finish(u))
    BY <1>1, <1>2, <2>1, KeepsIsHarmless, Zenon
  <2> QED
    BY <1>1, <2>1, <2>2 DEF Keeps, InStep, ShowsTheServers, NoSave
<1>4. ASSUME t.base # 0
      PROVE  v \in Tabs(b) /\ BehindServer(b, v) /\ (ShowsTheServers(b, t) => InStep(b, v))
  <2>1. /\ save \in Saves /\ save.pc = "sent" /\ save.expected = t.base
        /\ save.layout = t.view /\ save.revision = 0
    BY Zenon DEF NoSave, Saves, Tabs
  <2> HIDE DEF save
  <2>2. v \in Tabs(b) /\ v.view = t.view /\ v.base = t.base /\ v.save = save /\ v.reads = t.reads
    BY <1>1, <2>1, Zenon DEF Tabs
  <2>3. t.base \in Nat /\ server.revision \in Nat
    BY Zenon DEF Tabs, TypeOK
  <2>4. BehindServer(b, v)
    BY <2>1, <2>2, <2>3 DEF BehindServer
  <2>5. ShowsTheServers(b, t) => InStep(b, v)
    BY <1>4, <2>1, <2>2, <2>3 DEF InStep, ShowsTheServers
  <2> QED
    BY <2>2, <2>4, <2>5, Zenon
<1> QED
  BY <1>3, <1>4, Zenon DEF PersistLoop

LEMMA AdoptIsInStep ==
    ASSUME TypeOK, NEW b \in Browsers, NEW t \in Tabs(b), BehindServer(b, t),
           NEW read \in Reads, read.revision \in 0..server.revision,
           read.revision = server.revision => read.layout = server.layout
    PROVE  /\ Adopt(t, read) \in Tabs(b) /\ BehindServer(b, Adopt(t, read))
           /\ InStep(b, t) /\ read.revision >= t.base
              /\ (t.save.pc = "answered" /\ t.save.revision = server.revision =>
                    Foreign(read.layout, b) = Foreign(server.layout, b))
              => InStep(b, Adopt(t, read))
<1> DEFINE u == Adopt(t, read)
<1>1. /\ u \in Tabs(b) /\ u.view = read.layout /\ u.base = read.revision /\ u.save = t.save
      /\ u.reads = t.reads
  BY Zenon DEF Adopt, Tabs, Reads
<1>2. /\ t.base \in Nat /\ read.revision \in Nat /\ server.revision \in Nat
      /\ t.save.expected \in Nat /\ \A i \in Slots(b) : t.reads[i].revision \in Nat
  BY Zenon DEF Tabs, TypeOK, Reads, Saves
<1> HIDE DEF u
<1>3. BehindServer(b, u)
  BY <1>1, <1>2, Zenon DEF BehindServer
<1>4. ASSUME InStep(b, t), read.revision >= t.base,
             t.save.pc = "answered" /\ t.save.revision = server.revision =>
                    Foreign(read.layout, b) = Foreign(server.layout, b)
      PROVE  InStep(b, u)
  BY <1>1, <1>2, <1>4 DEF InStep
<1> QED
  BY <1>1, <1>3, <1>4, Zenon DEF u
-----------------------------------------------------------------------------
(* A step of one browser. *)

Bookkeeping ==
    /\ edits' \subseteq Edits /\ incidents' \in [Browsers -> Nat]
    /\ troubled' \subseteq Browsers /\ missed' \subseteq Browsers
    /\ overtaken \subseteq overtaken' /\ overtaken' \subseteq Browsers

LEMMA OneTabMoves ==
    ASSUME LayoutInv, NEW b \in Browsers, NEW u \in Tabs(b), BehindServer(b, u),
           b \notin overtaken' => InStep(b, u),
           tab' = [tab EXCEPT ![b] = u], server' = server, Bookkeeping
    PROVE  LayoutInv'
<1>1. tab' = [c \in Browsers |-> IF c = b THEN u ELSE tab[c]]
  BY Zenon DEF LayoutInv, TypeOK
<1>2. TypeOK'
  <2>1. tab' = [c \in Browsers |-> tab'[c]] /\ \A c \in Browsers : tab'[c] \in Tabs(c)
    BY <1>1, Zenon DEF LayoutInv, TypeOK
  <2>2. \A c \in Browsers : Tabs(c)' = Tabs(c)
    BY Zenon DEF Tabs
  <2> QED
    BY <2>1, Zenon DEF LayoutInv, TypeOK, Bookkeeping
<1>3. ASSUME NEW c \in Browsers PROVE BehindServer(c, tab[c])'
  <2>1. BehindServer(c, tab'[c])
    BY <1>1, Zenon DEF LayoutInv
  <2> QED
    BY <2>1, Zenon DEF BehindServer
<1>4. ASSUME NEW c \in Browsers \ overtaken' PROVE InStep(c, tab[c])'
  <2>1. InStep(c, tab'[c])
    BY <1>1, <1>4, Zenon DEF LayoutInv, Bookkeeping
  <2> QED
    BY <2>1, Zenon DEF InStep, Foreign
<1> QED
  BY <1>2, <1>3, <1>4, Zenon DEF LayoutInv

LEMMA KeepingStep ==
    ASSUME LayoutInv, NEW b \in Browsers, NEW u, Keeps(b, tab[b], u),
           tab' = [tab EXCEPT ![b] = u], server' = server, Bookkeeping
    PROVE  LayoutInv'
<1>1. TypeOK /\ tab[b] \in Tabs(b) /\ BehindServer(b, tab[b]) /\ u \in Tabs(b)
  BY Zenon DEF LayoutInv, TypeOK, Keeps
<1>2. BehindServer(b, u) /\ (InStep(b, tab[b]) => InStep(b, u))
  BY <1>1, KeepsIsHarmless, Zenon
<1>3. b \notin overtaken' => InStep(b, tab[b])
  BY Zenon DEF LayoutInv, Bookkeeping
<1> QED
  BY <1>1, <1>2, <1>3, OneTabMoves, Zenon

LEMMA NothingToBook ==
    ASSUME TypeOK, UNCHANGED <<edits, incidents, troubled, missed, overtaken>>
    PROVE  Bookkeeping
BY Zenon DEF TypeOK, Bookkeeping

LEMMA IncidentType ==
    ASSUME TypeOK, NEW b \in Browsers, Incident(b)
    PROVE  incidents' \in [Browsers -> Nat]
BY DEF TypeOK, Incident

LEMMA EditStep ==
    ASSUME LayoutInv, NEW b \in Browsers, Edit(b) PROVE LayoutInv'
<1> DEFINE e == <<b, Cardinality(edits) + 1>>
           t == tab[b]
           u == [t EXCEPT !.view = @ \cup {e}, !.timer = TRUE]
<1>1. t \in Tabs(b) /\ BehindServer(b, t) /\ e \in Edits /\ TypeOK
  BY Zenon DEF LayoutInv, TypeOK, Edit
<1>2. tab' = [tab EXCEPT ![b] = u]
  BY Zenon DEF Edit, LayoutInv, TypeOK
<1>3. Foreign(t.view \cup {e}, b) = Foreign(t.view, b)
  BY DEF Foreign
<1> HIDE DEF e
<1>4. /\ u \in Tabs(b) /\ u.view = t.view \cup {e} /\ u.base = t.base /\ u.save = t.save
      /\ u.reads = t.reads
  BY <1>1, Zenon DEF Tabs
<1>5. BehindServer(b, u)
  BY <1>1, <1>4, Zenon DEF BehindServer
<1>6. InStep(b, t) => InStep(b, u)
  BY <1>3, <1>4, Zenon DEF InStep
<1>7. Bookkeeping
  BY <1>1, Zenon DEF Edit, Bookkeeping, TypeOK, e
<1>8. b \notin overtaken' => InStep(b, u)
  BY <1>6, <1>7, Zenon DEF LayoutInv, Bookkeeping
<1> QED
  BY <1>2, <1>4, <1>5, <1>7, <1>8, OneTabMoves, Zenon DEF Edit

LEMMA ReloadStep ==
    ASSUME LayoutInv, NEW b \in Browsers, Reload(b) PROVE LayoutInv'
<1>1. TypeOK /\ tab[b] \in Tabs(b)
  BY Zenon DEF LayoutInv, TypeOK
<1>2. Bookkeeping
  BY <1>1, IncidentType, Zenon DEF Reload, Bookkeeping, TypeOK
<1> QED
  BY <1>1, <1>2, ResetKeeps, KeepingStep, Zenon DEF Reload

LEMMA DebounceStep ==
    ASSUME LayoutInv, NEW b \in Browsers, DebounceFires(b) PROVE LayoutInv'
<1> DEFINE t == [[tab[b] EXCEPT !.timer = FALSE] EXCEPT !.requested = TRUE]
<1>1. TypeOK /\ tab[b] \in Tabs(b) /\ BehindServer(b, tab[b])
  BY Zenon DEF LayoutInv, TypeOK
<1>2. /\ t \in Tabs(b) /\ t.view = tab[b].view /\ t.base = tab[b].base /\ t.save = tab[b].save
      /\ t.reads = tab[b].reads
  BY <1>1, Zenon DEF Tabs
<1>3. Keeps(b, tab[b], t)
  BY <1>2, Zenon DEF Keeps, SameSave
<1>4. BehindServer(b, t) /\ (InStep(b, tab[b]) => InStep(b, t))
  BY <1>1, <1>3, KeepsIsHarmless, Zenon
<1>5. PersistLayout([tab[b] EXCEPT !.timer = FALSE]) = t
      \/ PersistLayout([tab[b] EXCEPT !.timer = FALSE]) = PersistLoop(t)
  BY Zenon DEF PersistLayout
<1> HIDE DEF t
<1>6. InStep(b, t) => ShowsTheServers(b, t)
  BY Zenon DEF InStep, ShowsTheServers
<1>7. /\ PersistLoop(t) \in Tabs(b) /\ BehindServer(b, PersistLoop(t))
      /\ InStep(b, t) => InStep(b, PersistLoop(t))
  BY <1>1, <1>2, <1>4, <1>6, LoopIsInStep, Zenon
<1>8. Bookkeeping /\ (b \notin overtaken' => InStep(b, tab[b]))
  BY <1>1, NothingToBook, Zenon DEF DebounceFires, LayoutInv
<1> QED
  BY <1>2, <1>4, <1>5, <1>7, <1>8, OneTabMoves, Zenon DEF DebounceFires

LEMMA ServeReadStep ==
    ASSUME LayoutInv, NEW b \in Browsers, NEW i \in Slots(b), ServeRead(b, i) PROVE LayoutInv'
<1> DEFINE t == tab[b]
           read == [t.reads[i] EXCEPT !.pc = "answered", !.revision = server.revision,
                                      !.layout = server.layout]
           u == [t EXCEPT !.reads[i] = read]
<1>1. TypeOK /\ t \in Tabs(b) /\ BehindServer(b, t) /\ t.reads[i] \in Reads
  BY Zenon DEF LayoutInv, TypeOK, Tabs
<1>2. tab' = [tab EXCEPT ![b] = u]
  BY Zenon DEF ServeRead, LayoutInv, TypeOK
<1>3. server.revision \in Nat /\ server.layout \in SUBSET Edits
  BY <1>1, Zenon DEF TypeOK
<1>4. /\ read \in Reads /\ read.pc = "answered" /\ read.revision = server.revision
      /\ read.layout = server.layout
  BY <1>1, <1>3, Zenon DEF Reads
<1> HIDE DEF read
<1>5. /\ u.view = t.view /\ u.base = t.base /\ u.save = t.save
      /\ u.reads = [t.reads EXCEPT ![i] = read]
  BY <1>1, Zenon DEF Tabs
<1>6. u \in Tabs(b) /\ \A j \in Slots(b) : u.reads[j] = IF j = i THEN read ELSE t.reads[j]
  BY <1>1, <1>4, <1>5, Zenon DEF Tabs
<1>7. BehindServer(b, u)
  BY <1>1, <1>3, <1>4, <1>5, <1>6 DEF BehindServer
<1>8. InStep(b, t) => InStep(b, u)
  BY <1>4, <1>5, <1>6 DEF InStep
<1>9. Bookkeeping /\ (b \notin overtaken' => InStep(b, t))
  BY <1>1, NothingToBook, Zenon DEF ServeRead, LayoutInv
<1> QED
  BY <1>2, <1>6, <1>7, <1>8, <1>9, OneTabMoves, Zenon DEF ServeRead

\* A read that is answered without a revision is older than anything the browser sends.
LEMMA ServeReadBrokenStep ==
    ASSUME LayoutInv, NEW b \in Browsers, NEW i \in Slots(b), ServeReadBroken(b, i)
    PROVE  LayoutInv'
<1> DEFINE t == tab[b]
           read == [t.reads[i] EXCEPT !.pc = "answered"]
           u == [t EXCEPT !.reads[i] = read]
<1>1. TypeOK /\ t \in Tabs(b) /\ BehindServer(b, t) /\ t.reads[i] \in Reads
  BY DEF LayoutInv, TypeOK, Tabs
<1>2. tab' = [tab EXCEPT ![b] = u]
  BY Zenon DEF ServeReadBroken, LayoutInv, TypeOK
<1>3. server.revision \in Nat \ {0} /\ t.base \in Nat /\ t.save.expected \in Nat
  BY <1>1, Zenon DEF TypeOK, Tabs, Saves
<1>4. read \in Reads /\ read.pc = "answered" /\ read.revision = 0
  BY <1>1, Zenon DEF Reads, ServeReadBroken, BehindServer
<1> HIDE DEF read
<1>5. /\ u.view = t.view /\ u.base = t.base /\ u.save = t.save
      /\ u.reads = [t.reads EXCEPT ![i] = read]
  BY <1>1 DEF Tabs
<1>6. u \in Tabs(b) /\ \A j \in Slots(b) : u.reads[j] = IF j = i THEN read ELSE t.reads[j]
  BY <1>1, <1>4, <1>5, Zenon DEF Tabs
<1>7. BehindServer(b, u)
  BY <1>1, <1>3, <1>4, <1>5, <1>6 DEF BehindServer
<1>8. InStep(b, t) => InStep(b, u)
  BY <1>3, <1>4, <1>5, <1>6 DEF InStep
<1>9. Bookkeeping /\ (b \notin overtaken' => InStep(b, t))
  BY <1>1, IncidentType, Zenon DEF ServeReadBroken, LayoutInv, TypeOK, Bookkeeping
<1> QED
  BY <1>2, <1>6, <1>7, <1>8, <1>9, OneTabMoves, Zenon DEF ServeReadBroken

\* A request that is over leaves its slot.
LEMMA FreedSlot ==
    ASSUME NEW b \in Browsers, NEW t \in Tabs(b), NEW i \in Slots(b)
    PROVE  LET u == [t EXCEPT !.reads[i] = NoRead]
           IN  Keeps(b, t, u) /\ u.base = t.base /\ u.save = t.save
<1> DEFINE u == [t EXCEPT !.reads[i] = NoRead]
<1>1. /\ u.view = t.view /\ u.base = t.base /\ u.save = t.save
      /\ u.reads = [t.reads EXCEPT ![i] = NoRead]
  BY Zenon DEF Tabs
<1>2. u \in Tabs(b)
  BY <1>1, NothingTypes, Zenon DEF Tabs
<1>3. NoRead.pc # "answered" /\ NoRead.revision = 0
  BY Zenon DEF NoRead
<1>4. \A j \in Slots(b) : u.reads[j] = t.reads[j] \/ u.reads[j] = NoRead
  BY <1>1, Zenon DEF Tabs
<1> QED
  BY <1>1, <1>2, <1>3, <1>4 DEF Keeps, SameSave

LEMMA ReadReturnsStep ==
    ASSUME LayoutInv, NEW b \in Browsers, NEW i \in Slots(b), ReadReturns(b, i) PROVE LayoutInv'
<1> DEFINE read == tab[b].reads[i]
           t == [tab[b] EXCEPT !.reads[i] = NoRead]
<1>1. TypeOK /\ tab[b] \in Tabs(b) /\ BehindServer(b, tab[b]) /\ read \in Reads
  BY DEF LayoutInv, TypeOK, Tabs
<1>2. /\ read.pc = "answered" /\ read.revision \in 0..server.revision
      /\ read.revision = server.revision => read.layout = server.layout
  BY <1>1, Zenon DEF ReadReturns, BehindServer
<1>3. Keeps(b, tab[b], t) /\ t.base = tab[b].base /\ t.save = tab[b].save
  BY <1>1, FreedSlot
<1>4. t \in Tabs(b) /\ BehindServer(b, t) /\ (InStep(b, tab[b]) => InStep(b, t))
  BY <1>1, <1>3, KeepsIsHarmless, Zenon DEF Keeps
<1>5. Bookkeeping
  BY <1>1, Zenon DEF ReadReturns, Bookkeeping, TypeOK
<1>6. b \notin overtaken' =>
        InStep(b, tab[b]) /\ ~(read.for = "initialize" /\ read.revision < t.base)
  BY <1>1, Zenon DEF ReadReturns, LayoutInv, TypeOK, Overtaken
<1>7. read.revision \in Nat /\ t.base \in Nat /\ server.revision \in Nat \ {0}
  BY <1>1, <1>4, Zenon DEF Reads, Tabs, TypeOK
<1>8. tab' = [tab EXCEPT ![b] = ReadAnswered(t, read)] /\ server' = server
  BY Zenon DEF ReadReturns
<1>9. InStep(b, tab[b]) /\ read.revision >= t.base =>
        (t.save.pc = "answered" /\ t.save.revision = server.revision =>
            Foreign(read.layout, b) = Foreign(server.layout, b))
  BY <1>2, <1>3, Zenon DEF InStep
<1> HIDE DEF t, read
<1>10. /\ Adopt(t, read) \in Tabs(b) /\ BehindServer(b, Adopt(t, read))
       /\ InStep(b, tab[b]) /\ read.revision >= t.base => InStep(b, Adopt(t, read))
  BY <1>1, <1>2, <1>4, <1>9, AdoptIsInStep, Zenon
<1>11. CASE read.for = "initialize"
  <2>1. b \notin overtaken' => InStep(b, Adopt(t, read))
    BY <1>6, <1>7, <1>10, <1>11
  <2> QED
    BY <1>5, <1>8, <1>10, <1>11, <2>1, OneTabMoves, Zenon DEF ReadAnswered
<1>12. CASE read.for # "initialize"
            /\ (read.revision = 0 \/ (read.for # "reconcile" /\ t.base # 0 /\ read.revision < t.base))
  <2>1. ReadAnswered(t, read) = t
    BY <1>7, <1>12, Zenon DEF ReadAnswered
  <2> QED
    BY <1>3, <1>5, <1>8, <2>1, KeepingStep, Zenon
<1>13. CASE read.for = "reconcile" /\ read.revision # 0
  <2>1. ReadAnswered(t, read) = HandleRemoteLayoutRevision(t, read.revision)
    BY <1>13, Zenon DEF ReadAnswered
  <2> DEFINE u == HandleRemoteLayoutRevision(t, read.revision)
  <2>2. Keeps(b, t, u)
    BY <1>4, <1>7, RemoteKeeps, Zenon
  <2> HIDE DEF u
  <2>3. u \in Tabs(b) /\ BehindServer(b, u) /\ (InStep(b, t) => InStep(b, u))
    BY <1>1, <1>4, <2>2, KeepsIsHarmless, Zenon DEF Keeps
  <2> QED
    BY <1>4, <1>5, <1>6, <1>8, <2>1, <2>3, OneTabMoves, Zenon DEF u
<1>14. CASE /\ read.for # "initialize" /\ read.revision # 0 /\ read.for # "reconcile"
            /\ ~(t.base # 0 /\ read.revision < t.base)
  <2>1. ReadAnswered(t, read) = Adopt(t, read) /\ read.revision >= t.base
    BY <1>7, <1>14 DEF ReadAnswered
  <2> QED
    BY <1>5, <1>6, <1>8, <1>10, <2>1, OneTabMoves, Zenon
<1> QED
  BY <1>11, <1>12, <1>13, <1>14, Zenon

LEMMA ReadFailsStep ==
    ASSUME LayoutInv, NEW b \in Browsers, NEW i \in Slots(b), ReadFails(b, i) PROVE LayoutInv'
<1> DEFINE read == tab[b].reads[i]
           t == [tab[b] EXCEPT !.reads[i] = NoRead]
           u == [Adopt(t, NoRead) EXCEPT !.conflict = t.conflict]
<1>1. TypeOK /\ tab[b] \in Tabs(b) /\ BehindServer(b, tab[b])
  BY Zenon DEF LayoutInv, TypeOK
<1>2. Keeps(b, tab[b], t) /\ t.base = tab[b].base /\ t.save = tab[b].save
  BY <1>1, FreedSlot
<1>3. t \in Tabs(b) /\ BehindServer(b, t) /\ (InStep(b, tab[b]) => InStep(b, t))
  BY <1>1, <1>2, KeepsIsHarmless, Zenon DEF Keeps
<1>4. Bookkeeping
  BY <1>1, IncidentType, Zenon DEF ReadFails, Bookkeeping, TypeOK
<1>5. tab' = [tab EXCEPT ![b] = ReadFailed(t, read)] /\ server' = server
  BY <1>1, Zenon DEF ReadFails, TypeOK
<1>6. b \notin overtaken' => InStep(b, tab[b]) /\ ~(read.for = "initialize" /\ t.base # 0)
  BY <1>1, <1>2, Zenon DEF ReadFails, LayoutInv, TypeOK
<1> HIDE DEF t, read
<1>7. CASE read.for # "initialize"
  BY <1>2, <1>4, <1>5, <1>7, KeepingStep, Zenon DEF ReadFailed
<1>8. CASE read.for = "initialize"
  <2>1. server.revision \in Nat \ {0} /\ t.save.expected \in Nat /\ t.base \in Nat
    BY <1>1, <1>3, Zenon DEF TypeOK, Tabs, Saves
  <2>2. NoRead.revision = 0 /\ NoRead \in Reads
    BY NothingTypes, Zenon DEF NoRead
  <2>3. InStep(b, t) /\ t.base = 0 => t.save.pc = "none"
    BY <2>1 DEF InStep
  <2> DEFINE v == Adopt(t, NoRead)
  <2>4. v \in Tabs(b) /\ BehindServer(b, v) /\ (InStep(b, t) /\ t.base = 0 => InStep(b, v))
    BY <1>1, <1>3, <2>1, <2>2, <2>3, AdoptIsInStep
  <2> HIDE DEF v
  <2>5. Keeps(b, v, [v EXCEPT !.conflict = t.conflict])
    BY <1>3, <2>4, Zenon DEF Keeps, SameSave, Tabs
  <2>6. u \in Tabs(b) /\ BehindServer(b, u) /\ (InStep(b, v) => InStep(b, u))
    BY <1>1, <2>4, <2>5, KeepsIsHarmless, Zenon DEF v, Keeps
  <2>7. ReadFailed(t, read) = u
    BY <1>8, Zenon DEF ReadFailed
  <2> HIDE DEF u
  <2> QED
    BY <1>3, <1>4, <1>5, <1>6, <1>8, <2>4, <2>6, <2>7, OneTabMoves, Zenon
<1> QED
  BY <1>7, <1>8, Zenon

LEMMA SaveReturnsStep ==
    ASSUME LayoutInv, NEW b \in Browsers, SaveReturns(b) PROVE LayoutInv'
<1> DEFINE t == tab[b]
           r == [t EXCEPT !.conflict = TRUE, !.requested = FALSE]
           a == [t EXCEPT !.base = t.save.revision, !.conflict = t.save.remote]
<1>1. TypeOK /\ t \in Tabs(b) /\ BehindServer(b, t) /\ t.save \in Saves
  BY Zenon DEF LayoutInv, TypeOK, Tabs
<1>2. Bookkeeping /\ (b \notin overtaken' => InStep(b, t))
  BY <1>1, NothingToBook, Zenon DEF SaveReturns, LayoutInv
<1>3. CASE t.save.revision = 0
  <2>1. /\ r \in Tabs(b) /\ r.view = t.view /\ r.base = t.base /\ r.save = t.save
        /\ r.reads = t.reads
    BY <1>1, Zenon DEF Tabs
  <2>2. BehindServer(b, r)
    BY <1>1, <2>1, Zenon DEF BehindServer
  <2>3. Keeps(b, r, Finish(r))
    BY <1>1, <2>1, <2>2, FinishKeeps, Zenon
  <2>4. Keeps(b, t, Finish(r))
    BY <2>1, <2>3, Zenon DEF Keeps, SameSave
  <2>5. tab' = [tab EXCEPT ![b] = Finish(r)] /\ server' = server
    BY <1>3, Zenon DEF SaveReturns, SaveRefused
  <2> QED
    BY <1>2, <2>4, <2>5, KeepingStep, Zenon
<1>4. CASE t.save.revision # 0
  <2>1. /\ a \in Tabs(b) /\ a.view = t.view /\ a.base = t.save.revision /\ a.save = t.save
        /\ a.reads = t.reads
    BY <1>1, Zenon DEF Tabs, Saves
  <2>2. BehindServer(b, a)
    BY <1>1, <2>1, Zenon DEF BehindServer
  <2>3. InStep(b, t) => ShowsTheServers(b, a)
    BY <2>1, Zenon DEF InStep, ShowsTheServers, SaveReturns
  <2>4. tab' = [tab EXCEPT ![b] = PersistLoop(a)] /\ server' = server
    BY <1>4, Zenon DEF SaveReturns, SaveAccepted
  <2> HIDE DEF a
  <2>5. /\ PersistLoop(a) \in Tabs(b) /\ BehindServer(b, PersistLoop(a))
        /\ InStep(b, t) => InStep(b, PersistLoop(a))
    BY <1>1, <2>1, <2>2, <2>3, LoopIsInStep, Zenon
  <2> QED
    BY <1>2, <2>4, <2>5, OneTabMoves, Zenon
<1> QED
  BY <1>3, <1>4, Zenon

LEMMA SaveFailsStep ==
    ASSUME LayoutInv, NEW b \in Browsers, SaveFails(b) PROVE LayoutInv'
<1>1. TypeOK /\ tab[b] \in Tabs(b) /\ BehindServer(b, tab[b])
  BY Zenon DEF LayoutInv, TypeOK
<1>2. Bookkeeping
  BY <1>1, IncidentType, Zenon DEF SaveFails, Bookkeeping, TypeOK
<1>3. tab' = [tab EXCEPT ![b] = Finish(tab[b])] /\ server' = server
  BY <1>1, Zenon DEF SaveFails, TypeOK
<1> QED
  BY <1>1, <1>2, <1>3, FinishKeeps, KeepingStep, Zenon

LEMMA ReceiveStep ==
    ASSUME LayoutInv, NEW b \in Browsers, Receive(b) PROVE LayoutInv'
<1> DEFINE t == [tab[b] EXCEPT !.inbox = Tail(@)]
           message == Head(tab[b].inbox)
<1>1. TypeOK /\ tab[b] \in Tabs(b) /\ BehindServer(b, tab[b]) /\ tab[b].inbox \in Seq(Messages)
  BY Zenon DEF LayoutInv, TypeOK, Tabs
<1>2. message \in Messages /\ Tail(tab[b].inbox) \in Seq(Messages)
  BY <1>1 DEF Receive
<1>3. /\ t \in Tabs(b) /\ t.view = tab[b].view /\ t.base = tab[b].base /\ t.save = tab[b].save
      /\ t.reads = tab[b].reads
  BY <1>1, <1>2, Zenon DEF Tabs
<1>4. message.type # "snapshot" => message.revision \in Nat
  BY <1>2, Zenon DEF Messages
<1>5. tab' = [tab EXCEPT ![b] = Received(t, b, message)] /\ server' = server
  BY <1>1, Zenon DEF Receive, TypeOK
<1>6. Bookkeeping
  BY <1>1, NothingToBook, Zenon DEF Receive
<1> HIDE DEF t, message
<1>7. Keeps(b, t, Begin(t, Send("reconcile"))) /\ Keeps(b, t, t)
  BY <1>3, BeginKeeps, SendType, ZenonT(60) DEF Keeps, SameSave
<1>8. message.type # "snapshot" => Keeps(b, t, HandleRemoteLayoutRevision(t, message.revision))
  BY <1>3, <1>4, RemoteKeeps, Zenon
<1>9. Keeps(b, t, Received(t, b, message))
  BY <1>7, <1>8, Zenon DEF Received
<1>10. Keeps(b, tab[b], Received(t, b, message))
  BY <1>3, <1>9, Zenon DEF Keeps, SameSave
<1> QED
  BY <1>5, <1>6, <1>10, KeepingStep, Zenon

LEMMA ConnectStep ==
    ASSUME LayoutInv, NEW b \in Browsers, Connect(b) \/ Disconnect(b) PROVE LayoutInv'
<1> DEFINE m == <<[type |-> "snapshot"]>>
           u == [tab[b] EXCEPT !.online = TRUE, !.inbox = m]
           v == [tab[b] EXCEPT !.online = FALSE, !.inbox = <<>>]
<1>1. TypeOK /\ tab[b] \in Tabs(b) /\ BehindServer(b, tab[b])
  BY Zenon DEF LayoutInv, TypeOK
<1>2. Bookkeeping
  BY <1>1, IncidentType, Zenon DEF Connect, Disconnect, Bookkeeping, TypeOK
<1>3. m \in Seq(Messages)
  BY DEF Messages
<1>4. \/ tab' = [tab EXCEPT ![b] = u] /\ server' = server
      \/ tab' = [tab EXCEPT ![b] = v] /\ server' = server
  BY <1>1, Zenon DEF Connect, Disconnect, TypeOK
<1> HIDE DEF m
<1>5. /\ u \in Tabs(b) /\ u.view = tab[b].view /\ u.base = tab[b].base /\ u.save = tab[b].save
      /\ u.reads = tab[b].reads
  BY <1>1, <1>3, Zenon DEF Tabs
<1>6. <<>> \in Seq(Messages)
  OBVIOUS
<1>7. /\ v \in Tabs(b) /\ v.view = tab[b].view /\ v.base = tab[b].base /\ v.save = tab[b].save
      /\ v.reads = tab[b].reads
  BY <1>1, <1>6, Zenon DEF Tabs
<1> HIDE DEF u, v
<1>8. Keeps(b, tab[b], u) /\ Keeps(b, tab[b], v)
  BY <1>5, <1>7, Zenon DEF Keeps, SameSave
<1> QED
  BY <1>2, <1>4, <1>8, KeepingStep, Zenon

\* A save that is accepted: the browser that sent it shows the server's revision, so what
\* it sent, what it shows and every answer it may still adopt agree on the others' edits.
LEMMA ServeSaveStep ==
    ASSUME LayoutInv, NEW b \in Browsers, ServeSave(b) PROVE LayoutInv'
<1> DEFINE t == tab[b]
           refused == [t.save EXCEPT !.pc = "answered", !.revision = 0]
           u == [t EXCEPT !.save = refused]
           n == server.revision
<1>1. TypeOK /\ t \in Tabs(b) /\ BehindServer(b, t) /\ t.save \in Saves
  BY Zenon DEF LayoutInv, TypeOK, Tabs
<1>2. Bookkeeping /\ overtaken' = overtaken
  BY <1>1, NothingToBook, Zenon DEF ServeSave
<1>3. n \in Nat \ {0}
  BY <1>1, Zenon DEF TypeOK
<1>4. CASE t.save.expected # n
  <2>1. tab' = [tab EXCEPT ![b] = u] /\ server' = server
    BY <1>1, <1>4, Zenon DEF ServeSave, Answer, TypeOK
  <2>2. /\ refused \in Saves /\ refused.pc = "answered" /\ refused.revision = 0
        /\ refused.expected = t.save.expected
    BY <1>1, Zenon DEF Saves
  <2> HIDE DEF refused
  <2>3. /\ u \in Tabs(b) /\ u.view = t.view /\ u.base = t.base /\ u.save = refused
        /\ u.reads = t.reads
    BY <1>1, <2>2, Zenon DEF Tabs
  <2>4. BehindServer(b, u)
    BY <1>1, <1>3, <2>2, <2>3 DEF BehindServer
  <2>5. InStep(b, t) => InStep(b, u)
    BY <1>3, <2>2, <2>3, Zenon DEF InStep, ServeSave
  <2> QED
    BY <1>2, <2>1, <2>3, <2>4, <2>5, OneTabMoves, Zenon DEF LayoutInv
<1>5. CASE t.save.expected = n
  <2> DEFINE saved == [t.save EXCEPT !.pc = "answered", !.revision = n + 1]
             message == [type |-> "layout", revision |-> n + 1, by |-> b]
             told(s) == IF s.online THEN [s EXCEPT !.inbox = Append(@, message)] ELSE s
  <2>1. server' = Replaced(b) /\ server'.revision = n + 1 /\ server'.layout = t.save.layout
    BY <1>5 DEF ServeSave, Replaced
  <2>2. tab' = [c \in Browsers |->
                    told(IF c = b THEN [t EXCEPT !.save = saved] ELSE tab[c])]
    BY <1>1, <1>5, <2>1, SMTT(30) DEF ServeSave, Broadcast, Answer, TypeOK
  <2>3. /\ saved \in Saves /\ saved.pc = "answered" /\ saved.revision = n + 1
        /\ saved.expected = n
    <3>1. \A m \in Nat : /\ [t.save EXCEPT !.pc = "answered", !.revision = m] \in Saves
                         /\ [t.save EXCEPT !.pc = "answered", !.revision = m].pc = "answered"
                         /\ [t.save EXCEPT !.pc = "answered", !.revision = m].revision = m
                         /\ [t.save EXCEPT !.pc = "answered", !.revision = m].expected
                                = t.save.expected
      BY <1>1, Zenon DEF Saves
    <3>2. n + 1 \in Nat
      BY <1>3
    <3> QED
      BY <1>5, <3>1, <3>2, Zenon
  <2>4. message \in Messages
    BY <1>3 DEF Messages
  <2> HIDE DEF saved, message
  <2>5. ASSUME NEW c \in Browsers, NEW s \in Tabs(c)
        PROVE  /\ told(s) \in Tabs(c) /\ told(s).view = s.view /\ told(s).base = s.base
               /\ told(s).save = s.save /\ told(s).reads = s.reads
    <3>1. s.inbox \in Seq(Messages) /\ Append(s.inbox, message) \in Seq(Messages)
      BY <2>4 DEF Tabs
    <3> QED
      BY <3>1, Zenon DEF Tabs
  <2> HIDE DEF told
  <2>6. ASSUME NEW c \in Browsers
        PROVE  /\ tab'[c] \in Tabs(c) /\ tab'[c].view = tab[c].view /\ tab'[c].base = tab[c].base
               /\ tab'[c].save = (IF c = b THEN saved ELSE tab[c].save)
               /\ tab'[c].reads = tab[c].reads
    <3> DEFINE s == IF c = b THEN [t EXCEPT !.save = saved] ELSE tab[c]
    <3>1. tab[c] \in Tabs(c)
      BY <1>1, Zenon DEF TypeOK
    <3>2. /\ s \in Tabs(c) /\ s.view = tab[c].view /\ s.base = tab[c].base
          /\ s.save = (IF c = b THEN saved ELSE tab[c].save) /\ s.reads = tab[c].reads
      BY <2>3, <3>1, Zenon DEF Tabs
    <3>3. tab'[c] = told(s)
      BY <2>2, Zenon
    <3> HIDE DEF s
    <3> QED
      BY <2>5, <3>2, <3>3
  <2>7. TypeOK'
    <3>1. server' \in [revision : Nat \ {0}, layout : SUBSET Edits, by : Browsers \cup {"nobody"},
                       writers : SUBSET Browsers, ever : SUBSET Edits]
      BY <1>1, <1>3, <2>1 DEF Replaced, TypeOK, Saves
    <3>2. tab' = [c \in Browsers |-> tab'[c]]
      BY <2>2, Zenon
    <3>3. \A c \in Browsers : Tabs(c)' = Tabs(c)
      BY Zenon DEF Tabs
    <3> QED
      BY <1>2, <2>6, <3>1, <3>2, <3>3, Zenon DEF TypeOK, Bookkeeping
  <2>8. ASSUME NEW c \in Browsers PROVE BehindServer(c, tab[c]) /\ BehindServer(c, tab[c])'
    <3>1. BehindServer(c, tab[c])
      BY Zenon DEF LayoutInv
    <3> QED
      BY <1>3, <2>1, <2>3, <2>6, <3>1 DEF BehindServer
  <2>9. ASSUME NEW c \in Browsers \ overtaken', c # b PROVE InStep(c, tab[c])'
    <3>1. InStep(c, tab[c]) /\ tab[c].base \in 0..n /\ tab[c].save.expected \in 0..n
          /\ tab[c].save.revision \in 0..n
      BY <1>2, <2>8, Zenon DEF LayoutInv, BehindServer
    <3> QED
      BY <1>3, <2>1, <2>6, <2>9, <3>1 DEF InStep
  <2>10. ASSUME b \notin overtaken' PROVE InStep(b, tab[b])'
    <3>1. /\ t.save.pc = "sent" /\ 0 < t.save.expected /\ t.save.expected <= t.base
          /\ t.base \in 0..n /\ InStep(b, t)
      BY <1>1, <1>2, <2>10, Zenon DEF LayoutInv, BehindServer, InStep, ServeSave
    <3>2. t.base = n
      BY <1>3, <1>5, <3>1
    <3>3. /\ Foreign(t.view, b) = Foreign(server.layout, b)
          /\ Foreign(t.save.layout, b) = Foreign(server.layout, b)
      BY <1>5, <3>1, <3>2, Zenon DEF InStep
    <3>4. \A i \in Slots(b) : t.reads[i].revision >= n => t.reads[i].layout = server.layout
      BY <1>1, <1>3 DEF BehindServer
    <3> QED
      BY <1>3, <2>1, <2>3, <2>6, <3>2, <3>3, <3>4, SMTT(30) DEF InStep, Foreign
  <2> QED
    BY <2>7, <2>8, <2>9, <2>10, Zenon DEF LayoutInv
<1> QED
  BY <1>4, <1>5, Zenon
-----------------------------------------------------------------------------
LEMMA InitIsInStep == Init => LayoutInv
<1> SUFFICES ASSUME Init PROVE LayoutInv
  BY Zenon
<1>1. ASSUME NEW b \in Browsers
      PROVE  /\ tab[b] \in Tabs(b) /\ tab[b].view = {} /\ tab[b].base \in {0, 1}
             /\ tab[b].save = NoSave
             /\ \A i \in Slots(b) : tab[b].reads[i].pc # "answered" /\ tab[b].reads[i].revision = 0
  <2> DEFINE first == [i \in Slots(b) |-> IF i = 1 THEN Send("initialize") ELSE NoRead]
             none == [i \in Slots(b) |-> NoRead]
  <2>1. tab[b] = IF b \in Settled THEN Loaded(b) ELSE Loading(b)
    BY Zenon DEF Init
  <2>2. /\ first \in [Slots(b) -> Reads] /\ none \in [Slots(b) -> Reads]
        /\ \A i \in Slots(b) : /\ first[i].pc # "answered" /\ first[i].revision = 0
                               /\ none[i].pc # "answered" /\ none[i].revision = 0
    BY NothingTypes, SendType, Zenon DEF NoRead
  <2>3. /\ Loading(b).reads = first /\ Loading(b).view = {} /\ Loading(b).base = 0
        /\ Loading(b).save = NoSave
    BY Zenon DEF Loading
  <2>4. <<>> \in Seq(Messages)
    OBVIOUS
  <2>5. Loading(b) \in Tabs(b)
    BY <2>2, <2>4, NothingTypes, Zenon DEF Loading, Tabs
  <2>6. /\ Loaded(b).reads = none /\ Loaded(b).view = {} /\ Loaded(b).base = 1
        /\ Loaded(b).save = NoSave
    BY Zenon DEF Loading, Loaded
  <2>7. Loaded(b) \in Tabs(b)
    BY <2>2, <2>5, Zenon DEF Loaded, Tabs
  <2> HIDE DEF first, none
  <2> QED
    BY <2>1, <2>2, <2>3, <2>5, <2>6, <2>7, Zenon
<1>2. server.revision = 1 /\ server.layout = {}
  BY Zenon DEF Init
<1>3. TypeOK
  BY <1>1 DEF Init, TypeOK
<1>4. ASSUME NEW b \in Browsers PROVE BehindServer(b, tab[b]) /\ InStep(b, tab[b])
  <2>1. /\ tab[b].save.pc = "none" /\ tab[b].save.expected = 0 /\ tab[b].save.revision = 0
        /\ tab[b].view = server.layout /\ tab[b].base \in 0..1
    BY <1>1, <1>2 DEF NoSave
  <2>2. BehindServer(b, tab[b])
    BY <1>1, <1>2, <2>1 DEF BehindServer
  <2>3. InStep(b, tab[b])
    BY <2>1, Zenon DEF InStep
  <2> QED
    BY <2>2, <2>3, Zenon
<1> QED
  BY <1>3, <1>4, Zenon DEF LayoutInv

LEMMA StutterIsInStep == ASSUME LayoutInv, UNCHANGED vars PROVE LayoutInv'
<1> USE DEF vars
<1>1. \A b \in Browsers : Tabs(b)' = Tabs(b)
  BY Zenon DEF Tabs
<1>2. TypeOK'
  BY <1>1, Zenon DEF LayoutInv, TypeOK
<1>3. \A b \in Browsers : BehindServer(b, tab[b])'
  BY Zenon DEF LayoutInv, BehindServer
<1>4. \A b \in Browsers \ overtaken' : InStep(b, tab[b])'
  BY Zenon DEF LayoutInv, InStep, Foreign
<1> QED
  BY <1>2, <1>3, <1>4, Zenon DEF LayoutInv

\* The inductive invariant: the browsers' revisions, reads and saves in flight never get
\* out of step with the server's layout, for any number of browsers, reads and edits.
THEOREM LayoutInvariant == Spec => []LayoutInv
<1>1. LayoutInv /\ [Next]_vars => LayoutInv'
  <2> SUFFICES ASSUME LayoutInv, [Next]_vars PROVE LayoutInv'
    BY Zenon
  <2>1. CASE UNCHANGED vars
    BY <2>1, StutterIsInStep, Zenon
  <2>2. ASSUME NEW b \in Browsers,
               \/ Edit(b) \/ Reload(b) \/ DebounceFires(b)
               \/ ServeSave(b) \/ SaveReturns(b) \/ SaveFails(b)
               \/ Receive(b) \/ Connect(b) \/ Disconnect(b)
        PROVE  LayoutInv'
    BY <2>2, EditStep, ReloadStep, DebounceStep, ServeSaveStep, SaveReturnsStep, SaveFailsStep,
       ReceiveStep, ConnectStep, Zenon
  <2>3. ASSUME NEW b \in Browsers, NEW i \in Slots(b),
               \/ ServeRead(b, i) \/ ServeReadBroken(b, i)
               \/ ReadReturns(b, i) \/ ReadFails(b, i)
        PROVE  LayoutInv'
    BY <2>3, ServeReadStep, ServeReadBrokenStep, ReadReturnsStep, ReadFailsStep, Zenon
  <2> QED
    BY <2>1, <2>2, <2>3, Zenon DEF Next
<1> QED
  BY <1>1, InitIsInStep, PTL DEF Spec

\* PUT /api/layout replaces the whole layout, and still no save drops an edit that another
\* browser committed, unless the saving browser's initialize() was overtaken.
THEOREM OthersWorkSurvives == Spec => NoOneElsesWorkIsLost
<1> DEFINE Lost == \A e \in server.layout \ server'.layout :
                      e[1] = server'.by \/ server'.by \in overtaken
<1>1. LayoutInv /\ [Next]_vars => Lost
  <2> SUFFICES ASSUME LayoutInv, [Next]_vars, NEW e \in server.layout, e \notin server'.layout
               PROVE  e[1] = server'.by \/ server'.by \in overtaken
    BY Zenon
  <2>1. server' # server
    BY Zenon
  <2>2. PICK b \in Browsers : ServeSave(b)
    BY <2>1, ZenonT(60) DEF Next, vars, Edit, Reload, DebounceFires, SaveReturns, SaveFails, ServeRead,
       ServeReadBroken, ReadReturns, ReadFails, Receive, Connect, Disconnect
  <2>3. /\ tab[b].save.pc = "sent" /\ tab[b].save.expected = server.revision
        /\ server'.by = b /\ server'.layout = tab[b].save.layout
    BY <2>1, <2>2 DEF ServeSave, Replaced
  <2>4. CASE b \notin overtaken
    <3>1. Foreign(tab[b].save.layout, b) = Foreign(server.layout, b)
      BY <2>3, <2>4, Zenon DEF LayoutInv, InStep
    <3> QED
      BY <2>3, <3>1, Zenon DEF Foreign
  <2> QED
    BY <2>3, <2>4, Zenon
<1>2. LayoutInv /\ [Next]_vars => [Lost]_vars
  BY <1>1, Zenon
<1> QED
  BY <1>2, LayoutInvariant, PTL DEF Spec, NoOneElsesWorkIsLost
-----------------------------------------------------------------------------
(* Unsaved work and conflicts.                                              *)

\* The rest of what is recorded in the browsers: layouts that were once the server's, and
\* who replaced them.
Recorded(b, t) ==
    /\ \A i \in Slots(b) : t.reads[i].layout \subseteq server.ever
    /\ \A k \in DOMAIN t.inbox : t.inbox[k].type = "layout" => t.inbox[k].by \in server.writers

\* A browser that nobody else has written to is at the server's revision.
AtOwnRevision(t) ==
    LET n == server.revision
    IN  /\ t.save.pc = "none" => t.base \in {0, n}
        /\ t.save.pc = "sent" => t.base = n /\ t.save.expected = n
        /\ t.save.pc = "answered" => t.base \in {n - 1, n} /\ t.save.revision = n

\* What is shown and was never the server's: it is in a save, or about to be, or the operator
\* has been told, or waits for the answer to a reload that will be adopted.
Accounted(b, t) ==
    \/ t.timer \/ t.requested
    \/ /\ t.save.pc = "none"
       /\ \/ t.view \subseteq server.ever \/ t.conflict
          \/ \E i \in Slots(b) : /\ t.reads[i].for = "reload" /\ t.reads[i].pc # "none"
                                 /\ t.reads[i].pc = "answered" => t.reads[i].revision >= t.base
    \/ /\ t.save.pc # "none"
       /\ \/ t.view \subseteq server.ever \cup t.save.layout \/ t.save.remote
          \/ \E i \in Slots(b) : t.reads[i].for = "reload" /\ t.reads[i].pc = "waiting"

Calm(b, t) ==
    /\ t.base = 0 => t.view = {} /\ ~t.initialized /\ ~Busy(t) /\ b \notin server.writers
    /\ \A i \in Slots(b) : t.reads[i].pc = "answered" => t.reads[i].revision # 0
    /\ t.conflict \/ t.save.remote => server.writers \ {b} # {}
    /\ t.save.pc = "answered" /\ t.save.revision # 0 => t.save.layout \subseteq server.ever
    /\ server.writers \subseteq {b} => AtOwnRevision(t)

\* A browser whose requests have not gone wrong.
Untroubled(b, t) == Calm(b, t) /\ Accounted(b, t)

DraftInv ==
    /\ server.layout \subseteq server.ever
    /\ server.writers = {} => server.revision = 1
    /\ \A b \in Browsers : Recorded(b, tab[b])
    /\ \A b \in Browsers \ troubled : Untroubled(b, tab[b])

\* What is accounted for stays so while the browser keeps its state and the server gains.
LEMMA AccountedStays ==
    ASSUME NEW c \in Browsers, Accounted(c, tab[c]), server.ever \subseteq server'.ever,
           tab'[c].timer = tab[c].timer, tab'[c].requested = tab[c].requested,
           tab'[c].view = tab[c].view, tab'[c].base = tab[c].base,
           tab'[c].conflict = tab[c].conflict, tab'[c].save = tab[c].save,
           tab'[c].reads = tab[c].reads
    PROVE  Accounted(c, tab[c])'
<1>1. CASE tab[c].timer \/ tab[c].requested
  BY <1>1, Zenon DEF Accounted
<1>2. CASE tab[c].save.pc = "none" /\ (tab[c].view \subseteq server.ever \/ tab[c].conflict)
  BY <1>2, Zenon DEF Accounted
<1>3. CASE /\ tab[c].save.pc # "none"
           /\ tab[c].view \subseteq server.ever \cup tab[c].save.layout \/ tab[c].save.remote
  BY <1>3, Zenon DEF Accounted
<1>4. ASSUME NEW i \in Slots(c), tab[c].save.pc = "none",
             tab[c].reads[i].for = "reload", tab[c].reads[i].pc # "none",
             tab[c].reads[i].pc = "answered" => tab[c].reads[i].revision >= tab[c].base
      PROVE  Accounted(c, tab[c])'
  BY <1>4, Zenon DEF Accounted
<1>5. ASSUME NEW i \in Slots(c), tab[c].save.pc # "none",
             tab[c].reads[i].for = "reload", tab[c].reads[i].pc = "waiting"
      PROVE  Accounted(c, tab[c])'
  BY <1>5, Zenon DEF Accounted
<1> QED
  BY <1>1, <1>2, <1>3, <1>4, <1>5, Zenon DEF Accounted

\* What most of the functions of the store leave alone.
Alike(b, t, u) ==
    /\ u \in Tabs(b) /\ u.view = t.view /\ u.base = t.base /\ u.conflict = t.conflict
    /\ u.initialized = t.initialized /\ u.inbox = t.inbox

\* A request has taken a free slot.
Asked(b, t, u, for, pc) ==
    \E i \in Slots(b) :
        /\ t.reads[i].pc = "none"
        /\ u.reads[i].for = for /\ u.reads[i].pc = pc /\ u.reads[i].layout = {}
        /\ \A j \in Slots(b) \ {i} : u.reads[j] = t.reads[j]

\* The reads that waited for a save to end are sent.
Released(b, t, u) ==
    \A i \in Slots(b) :
        /\ u.reads[i].for = t.reads[i].for /\ u.reads[i].revision = t.reads[i].revision
        /\ u.reads[i].layout = t.reads[i].layout
        /\ u.reads[i].pc = IF t.reads[i].pc = "waiting" THEN "sent" ELSE t.reads[i].pc

\* A request takes a free slot, and nothing else changes.
LEMMA BeginFields ==
    ASSUME NEW b \in Browsers, NEW t \in Tabs(b), FreeSlots(t) # {}, NEW read \in Reads,
           read.layout = {}, NEW u, u = Begin(t, read)
    PROVE  /\ Alike(b, t, u) /\ Asked(b, t, u, read.for, read.pc)
           /\ u.timer = t.timer /\ u.requested = t.requested /\ u.save = t.save
<1> DEFINE i == CHOOSE k \in FreeSlots(t) : TRUE
<1>1. u = [t EXCEPT !.reads[i] = read]
  BY Zenon DEF Begin
<1>2. FreeSlots(t) \subseteq Slots(b)
  BY Zenon DEF FreeSlots, Tabs
<1>4. i \in FreeSlots(t)
  BY Zenon
<1> HIDE DEF i
<1>5. i \in Slots(b) /\ t.reads[i].pc = "none"
  BY <1>2, <1>4, Zenon DEF FreeSlots
<1>6. /\ u.view = t.view /\ u.base = t.base /\ u.conflict = t.conflict
      /\ u.initialized = t.initialized /\ u.timer = t.timer /\ u.requested = t.requested
      /\ u.save = t.save /\ u.inbox = t.inbox /\ u.reads = [t.reads EXCEPT ![i] = read]
  BY <1>1, Zenon DEF Tabs
<1>7. u \in Tabs(b)
  BY <1>1, <1>5 DEF Tabs
<1>8. u.reads[i] = read /\ \A j \in Slots(b) \ {i} : u.reads[j] = t.reads[j]
  BY <1>5, <1>6, Zenon DEF Tabs
<1> QED
  BY <1>5, <1>6, <1>7, <1>8, Zenon DEF Alike, Asked

\* resetLayout() leaves what is shown, and reads anew.
LEMMA ResetFields ==
    ASSUME NEW b \in Browsers, NEW t \in Tabs(b), FreeSlots(t) # {},
           NEW for \in {"initialize", "reload", "follow", "reconcile"},
           NEW u, u = ResetLayout(t, for)
    PROVE  /\ Alike(b, t, u) /\ u.timer = FALSE /\ u.requested = FALSE /\ u.save = t.save
           /\ Asked(b, t, u, for, IF t.save.pc = "none" THEN "sent" ELSE "waiting")
<1> DEFINE t1 == [t EXCEPT !.timer = FALSE, !.requested = FALSE]
           read == [Send(for) EXCEPT !.pc = IF t.save.pc = "none" THEN "sent" ELSE "waiting"]
<1>1. /\ t1 \in Tabs(b) /\ t1.view = t.view /\ t1.base = t.base /\ t1.conflict = t.conflict
      /\ t1.initialized = t.initialized /\ t1.timer = FALSE /\ t1.requested = FALSE
      /\ t1.save = t.save /\ t1.inbox = t.inbox /\ t1.reads = t.reads
  BY Zenon DEF Tabs
<1>2. /\ read \in Reads /\ read.for = for /\ read.layout = {}
      /\ read.pc = IF t.save.pc = "none" THEN "sent" ELSE "waiting"
  BY Zenon DEF Send, NoRead, Reads
<1>3. u = Begin(t1, read)
  BY Zenon DEF ResetLayout
<1>4. FreeSlots(t1) # {}
  BY <1>1, Zenon DEF FreeSlots
<1> HIDE DEF t1, read
<1>5. /\ Alike(b, t1, u) /\ Asked(b, t1, u, read.for, read.pc)
      /\ u.timer = t1.timer /\ u.requested = t1.requested /\ u.save = t1.save
  BY <1>1, <1>2, <1>3, <1>4, BeginFields
<1> QED
  BY <1>1, <1>2, <1>5 DEF Alike, Asked

\* The end of the persist loop lets the reads go that waited for it.
LEMMA FinishFields ==
    ASSUME NEW b \in Browsers, NEW t \in Tabs(b), NEW u, u = Finish(t)
    PROVE  /\ Alike(b, t, u) /\ Released(b, t, u)
           /\ u.timer = t.timer /\ u.requested = t.requested
           /\ u.save.pc = "none" /\ u.save.remote = FALSE
<1> DEFINE reads == [i \in DOMAIN t.reads |-> IF t.reads[i].pc = "waiting"
                        THEN [t.reads[i] EXCEPT !.pc = "sent"] ELSE t.reads[i]]
<1>1. u = [t EXCEPT !.save = NoSave, !.reads = reads]
  BY Zenon DEF Finish
<1>2. DOMAIN t.reads = Slots(b) /\ \A i \in Slots(b) : t.reads[i] \in Reads
  BY Zenon DEF Tabs
<1>3. ASSUME NEW i \in Slots(b)
      PROVE  /\ reads[i] \in Reads /\ reads[i].for = t.reads[i].for
             /\ reads[i].revision = t.reads[i].revision /\ reads[i].layout = t.reads[i].layout
             /\ reads[i].pc = IF t.reads[i].pc = "waiting" THEN "sent" ELSE t.reads[i].pc
  BY <1>2, Zenon DEF Reads
<1>4. reads \in [Slots(b) -> Reads]
  BY <1>2, <1>3, Zenon
<1> HIDE DEF reads
<1>5. NoSave \in Saves /\ NoSave.pc = "none" /\ NoSave.remote = FALSE
  BY Zenon DEF NoSave, Saves
<1>6. /\ u.view = t.view /\ u.base = t.base /\ u.conflict = t.conflict
      /\ u.initialized = t.initialized /\ u.timer = t.timer /\ u.requested = t.requested
      /\ u.save = NoSave /\ u.inbox = t.inbox /\ u.reads = reads
  BY <1>1, Zenon DEF Tabs
<1>7. u \in Tabs(b)
  BY <1>1, <1>4, <1>5, Zenon DEF Tabs
<1> QED
  BY <1>3, <1>5, <1>6, <1>7, Zenon DEF Alike, Released

Adopted(b, t, read, u) ==
    /\ u \in Tabs(b) /\ u.view = read.layout /\ u.base = read.revision
    /\ ~u.conflict /\ u.initialized /\ u.timer = t.timer
    /\ u.requested = t.requested /\ u.save = t.save /\ u.inbox = t.inbox /\ u.reads = t.reads

LEMMA AdoptFields ==
    ASSUME NEW b \in Browsers, NEW t \in Tabs(b), NEW read \in Reads, NEW u, u = Adopt(t, read)
    PROVE  Adopted(b, t, read, u)
BY Zenon DEF Adopted, Adopt, Tabs, Reads

\* The persist loop ends, or it sends all that is shown.
Looped(b, t, u) ==
    /\ Alike(b, t, u) /\ u.timer = t.timer /\ ~u.requested /\ ~u.save.remote
    /\ \/ /\ ~t.requested \/ t.base = 0
          /\ u.save.pc = "none" /\ Released(b, t, u)
       \/ /\ t.requested /\ t.base # 0
          /\ u.save.pc = "sent" /\ u.save.expected = t.base /\ u.save.layout = t.view
          /\ u.reads = t.reads

LEMMA LoopFields ==
    ASSUME NEW b \in Browsers, NEW t \in Tabs(b), NEW u, u = PersistLoop(t)
    PROVE  Looped(b, t, u)
<1> DEFINE r == [t EXCEPT !.requested = FALSE]
           save == [NoSave EXCEPT !.pc = "sent", !.expected = t.base, !.layout = t.view]
<1>1. /\ r \in Tabs(b) /\ r.view = t.view /\ r.base = t.base /\ r.conflict = t.conflict
      /\ r.initialized = t.initialized /\ r.timer = t.timer /\ r.requested = FALSE
      /\ r.save = t.save /\ r.inbox = t.inbox /\ r.reads = t.reads
  BY Zenon DEF Tabs
<1>2. u = IF ~t.requested \/ t.base = 0 THEN Finish(r) ELSE [r EXCEPT !.save = save]
  BY Zenon DEF PersistLoop
<1>3. /\ save \in Saves /\ save.pc = "sent" /\ save.expected = t.base /\ save.layout = t.view
      /\ save.remote = FALSE
  BY Zenon DEF NoSave, Saves, Tabs
<1> HIDE DEF r, save
<1>4. CASE ~t.requested \/ t.base = 0
  <2>1. u = Finish(r)
    BY <1>2, <1>4, Zenon
  <2>2. /\ Alike(b, r, u) /\ Released(b, r, u) /\ u.timer = r.timer /\ u.requested = r.requested
        /\ u.save.pc = "none" /\ u.save.remote = FALSE
    BY <1>1, <2>1, FinishFields, Zenon
  <2> QED
    BY <1>1, <1>4, <2>2 DEF Alike, Released, Looped
<1>5. CASE t.requested /\ t.base # 0
  <2>1. u = [r EXCEPT !.save = save]
    BY <1>2, <1>5, Zenon
  <2>2. /\ u \in Tabs(b) /\ u.view = r.view /\ u.base = r.base /\ u.conflict = r.conflict
        /\ u.initialized = r.initialized /\ u.timer = r.timer /\ u.requested = r.requested
        /\ u.save = save /\ u.inbox = r.inbox /\ u.reads = r.reads
    BY <1>1, <1>3, <2>1, Zenon DEF Tabs
  <2> QED
    BY <1>1, <1>3, <1>5, <2>2, Zenon DEF Alike, Looped
<1> QED
  BY <1>4, <1>5, Zenon DEF Tabs

\* What one browser's tab must satisfy after a step.
Fine(b, u) == Recorded(b, u) /\ (b \notin troubled' => Untroubled(b, u))

LEMMA OneDraftMoves ==
    ASSUME LayoutInv, DraftInv, NEW b \in Browsers, NEW u, Fine(b, u),
           tab' = [tab EXCEPT ![b] = u], server' = server, troubled \subseteq troubled'
    PROVE  DraftInv'
<1>1. tab' = [c \in Browsers |-> IF c = b THEN u ELSE tab[c]]
  BY Zenon DEF LayoutInv, TypeOK
<1>2. ASSUME NEW c \in Browsers PROVE Recorded(c, tab[c])'
  <2>1. Recorded(c, tab'[c])
    BY <1>1, Zenon DEF DraftInv, Fine
  <2> QED
    BY <2>1, Zenon DEF Recorded
<1>3. ASSUME NEW c \in Browsers \ troubled' PROVE Untroubled(c, tab[c])'
  <2>1. Untroubled(c, tab'[c])
    BY <1>1, <1>3, Zenon DEF DraftInv, Fine
  <2> QED
    BY <2>1, Zenon DEF Untroubled, Calm, AtOwnRevision, Accounted, Busy
<1> QED
  BY <1>2, <1>3, Zenon DEF DraftInv

LEMMA Before ==
    ASSUME LayoutInv, DraftInv, NEW b \in Browsers
    PROVE  /\ TypeOK /\ tab[b] \in Tabs(b) /\ BehindServer(b, tab[b]) /\ Recorded(b, tab[b])
           /\ b \notin troubled => Untroubled(b, tab[b])
           /\ server.revision \in Nat \ {0}
BY Zenon DEF LayoutInv, DraftInv, TypeOK

LEMMA EditDraft ==
    ASSUME LayoutInv, DraftInv, NEW b \in Browsers, Edit(b) PROVE DraftInv'
<1> DEFINE e == <<b, Cardinality(edits) + 1>>
           t == tab[b]
           u == [t EXCEPT !.view = @ \cup {e}, !.timer = TRUE]
<1>1. TypeOK /\ t \in Tabs(b) /\ Recorded(b, t) /\ (b \notin troubled => Untroubled(b, t))
  BY Before, Zenon
<1>2. /\ tab' = [tab EXCEPT ![b] = u] /\ t.initialized
      /\ server' = server /\ troubled' = troubled
  BY Zenon DEF Edit, LayoutInv, TypeOK
<1> HIDE DEF e
<1>3. /\ u.base = t.base /\ u.conflict = t.conflict /\ u.initialized = t.initialized
      /\ u.timer = TRUE /\ u.save = t.save /\ u.reads = t.reads /\ u.inbox = t.inbox
  BY <1>1, Zenon DEF Tabs
<1> HIDE DEF u, t
<1>4. Recorded(b, u)
  BY <1>1, <1>3, Zenon DEF Recorded
<1>5. Untroubled(b, t) => Untroubled(b, u)
  BY <1>2, <1>3 DEF Untroubled, Calm, AtOwnRevision, Accounted
<1> QED
  BY <1>1, <1>2, <1>4, <1>5, OneDraftMoves, Zenon DEF Fine

LEMMA ReloadDraft ==
    ASSUME LayoutInv, DraftInv, NEW b \in Browsers, Reload(b) PROVE DraftInv'
<1> DEFINE t == tab[b]
           u == ResetLayout(t, "reload")
<1>1. TypeOK /\ t \in Tabs(b) /\ Recorded(b, t) /\ (b \notin troubled => Untroubled(b, t))
  BY Before
<1>2. /\ tab' = [tab EXCEPT ![b] = u] /\ t.initialized /\ FreeSlots(t) # {}
      /\ server' = server /\ troubled' = troubled
  BY Zenon DEF Reload
<1>3. /\ Alike(b, t, u) /\ u.timer = FALSE /\ u.requested = FALSE /\ u.save = t.save
      /\ Asked(b, t, u, "reload", IF t.save.pc = "none" THEN "sent" ELSE "waiting")
  BY <1>1, <1>2, ResetFields, Zenon
<1> HIDE DEF u, t
<1>4. Recorded(b, u)
  BY <1>1, <1>3, Zenon DEF Recorded, Alike, Asked
<1>5. Untroubled(b, t) => Untroubled(b, u)
  <2> SUFFICES ASSUME Untroubled(b, t) PROVE Untroubled(b, u)
    BY Zenon
  <2>1. PICK i \in Slots(b) :
            /\ u.reads[i].for = "reload"
            /\ u.reads[i].pc = IF t.save.pc = "none" THEN "sent" ELSE "waiting"
            /\ \A j \in Slots(b) \ {i} : u.reads[j] = t.reads[j]
    BY <1>3, Zenon DEF Asked
  <2>2. Accounted(b, u)
    BY <1>3, <2>1, Zenon DEF Accounted
  <2>3. \A j \in Slots(b) : u.reads[j].pc = "answered" => u.reads[j].revision # 0
    BY <2>1, Zenon DEF Untroubled, Calm
  <2> QED
    BY <1>2, <1>3, <2>2, <2>3, Zenon DEF Untroubled, Calm, AtOwnRevision, Alike
<1> QED
  BY <1>1, <1>2, <1>4, <1>5, OneDraftMoves, Zenon DEF Fine

\* From the persist loop comes a save of all that is shown, or nothing was asked of it.
LEMMA LoopDraft ==
    ASSUME NEW b \in Browsers, NEW t \in Tabs(b), NEW u, u = PersistLoop(t),
           t.base # 0, \A i \in Slots(b) : t.reads[i].pc = "answered" => t.reads[i].revision # 0,
           t.conflict => server.writers \ {b} # {},
           server.writers \subseteq {b} => t.base = server.revision,
           \/ t.requested \/ t.timer \/ t.view \subseteq server.ever \/ t.conflict
           \/ \E i \in Slots(b) : t.reads[i].for = "reload" /\ t.reads[i].pc = "waiting"
    PROVE  Untroubled(b, u) /\ (Recorded(b, t) => Recorded(b, u))
<1>0. Looped(b, t, u)
  BY LoopFields, Zenon
<1>1. /\ Alike(b, t, u) /\ u.timer = t.timer /\ ~u.requested /\ ~u.save.remote
      /\ \/ ~t.requested /\ u.save.pc = "none" /\ Released(b, t, u)
         \/ /\ u.save.pc = "sent" /\ u.save.expected = t.base /\ u.save.layout = t.view
            /\ u.reads = t.reads
  BY <1>0, Zenon DEF Looped
<1>2. /\ u.view = t.view /\ u.base = t.base /\ u.conflict = t.conflict /\ u.inbox = t.inbox
  BY <1>1, Zenon DEF Alike
<1>3. CASE ~t.requested /\ u.save.pc = "none" /\ Released(b, t, u)
  <2>1. Accounted(b, u)
    BY <1>1, <1>2, <1>3 DEF Accounted, Released
  <2>2. \A i \in Slots(b) : u.reads[i].pc = "answered" => u.reads[i].revision # 0
    BY <1>3 DEF Released
  <2>3. Recorded(b, t) => Recorded(b, u)
    BY <1>2, <1>3, Zenon DEF Recorded, Released
  <2> QED
    BY <1>1, <1>2, <1>3, <2>1, <2>2, <2>3, Zenon DEF Untroubled, Calm, AtOwnRevision
<1>4. CASE /\ u.save.pc = "sent" /\ u.save.expected = t.base /\ u.save.layout = t.view
           /\ u.reads = t.reads
  <2>1. Accounted(b, u)
    BY <1>1, <1>2, <1>4, Zenon DEF Accounted
  <2>2. Recorded(b, t) => Recorded(b, u)
    BY <1>2, <1>4, Zenon DEF Recorded
  <2> QED
    BY <1>1, <1>2, <1>4, <2>1, <2>2, Zenon DEF Untroubled, Calm, AtOwnRevision
<1> QED
  BY <1>1, <1>3, <1>4, Zenon

LEMMA DebounceDraft ==
    ASSUME LayoutInv, DraftInv, NEW b \in Browsers, DebounceFires(b) PROVE DraftInv'
<1> DEFINE s == tab[b]
           t == [[s EXCEPT !.timer = FALSE] EXCEPT !.requested = TRUE]
           u == PersistLayout([s EXCEPT !.timer = FALSE])
<1>1. /\ TypeOK /\ s \in Tabs(b) /\ Recorded(b, s) /\ (b \notin troubled => Untroubled(b, s))
  BY Before, Zenon
<1>2. /\ tab' = [tab EXCEPT ![b] = u] /\ s.timer /\ server' = server /\ troubled' = troubled
  BY Zenon DEF DebounceFires
<1>3. /\ t \in Tabs(b) /\ t.view = s.view /\ t.base = s.base /\ t.conflict = s.conflict
      /\ t.initialized = s.initialized /\ t.timer = FALSE /\ t.requested = TRUE
      /\ t.save = s.save /\ t.inbox = s.inbox /\ t.reads = s.reads
  BY <1>1, Zenon DEF Tabs
<1>4. u = IF s.save.pc = "none" THEN PersistLoop(t) ELSE t
  BY <1>1, Zenon DEF PersistLayout, Tabs
<1> HIDE DEF s, t, u
<1>5. Recorded(b, t)
  BY <1>1, <1>3, Zenon DEF Recorded
<1>6. CASE s.save.pc = "none"
  <2>1. u = PersistLoop(t)
    BY <1>4, <1>6, Zenon
  <2>2. Recorded(b, u)
    <3>1. Looped(b, t, u)
      BY <1>3, <2>1, LoopFields, Zenon
    <3> QED
      BY <1>5, <3>1, Zenon DEF Looped, Alike, Released, Recorded
  <2>3. Untroubled(b, s) => Untroubled(b, u)
    <3> SUFFICES ASSUME Untroubled(b, s) PROVE Untroubled(b, u)
      BY Zenon
    <3>1. t.base # 0
      BY <1>2, <1>3, Zenon DEF Untroubled, Calm, Busy
    <3>2. /\ \A i \in Slots(b) : t.reads[i].pc = "answered" => t.reads[i].revision # 0
          /\ t.conflict => server.writers \ {b} # {}
          /\ server.writers \subseteq {b} => t.base = server.revision
      BY <1>3, <1>6, <3>1, Zenon DEF Untroubled, Calm, AtOwnRevision
    <3> QED
      BY <1>3, <2>1, <3>1, <3>2, LoopDraft, Zenon
  <2> QED
    BY <1>1, <1>2, <2>2, <2>3, OneDraftMoves, Zenon DEF Fine
<1>7. CASE s.save.pc # "none"
  <2>1. Untroubled(b, s) => Untroubled(b, t)
    BY <1>2, <1>3, <1>7, Zenon DEF Untroubled, Calm, AtOwnRevision, Accounted, Busy
  <2> QED
    BY <1>1, <1>2, <1>4, <1>5, <1>7, <2>1, OneDraftMoves, Zenon DEF Fine
<1> QED
  BY <1>6, <1>7, Zenon

LEMMA ServeReadDraft ==
    ASSUME LayoutInv, DraftInv, NEW b \in Browsers, NEW i \in Slots(b),
           ServeRead(b, i) \/ ServeReadBroken(b, i)
    PROVE  DraftInv'
<1> DEFINE t == tab[b]
           n == server.revision
           full == [t.reads[i] EXCEPT !.pc = "answered", !.revision = n, !.layout = server.layout]
           empty == [t.reads[i] EXCEPT !.pc = "answered"]
           u == tab'[b]
<1>1. /\ TypeOK /\ t \in Tabs(b) /\ BehindServer(b, t) /\ Recorded(b, t)
      /\ (b \notin troubled => Untroubled(b, t)) /\ n \in Nat \ {0}
  BY Before, Zenon
<1>2. t.reads[i] \in Reads /\ t.reads[i].pc = "sent"
  BY <1>1, Zenon DEF Tabs, ServeRead, ServeReadBroken
<1>3. PICK read \in {full, empty} :
        /\ tab' = [tab EXCEPT ![b].reads[i] = read] /\ server' = server
        /\ (read = full /\ troubled' = troubled) \/ troubled' = troubled \cup {b}
  BY Zenon DEF ServeRead, ServeReadBroken
<1>4. /\ read.for = t.reads[i].for /\ read.pc = "answered"
      /\ read.layout \in {server.layout, t.reads[i].layout} /\ (read = full => read.revision = n)
  BY <1>2, Zenon DEF Reads
<1>5. /\ u.view = t.view /\ u.base = t.base /\ u.conflict = t.conflict
      /\ u.initialized = t.initialized /\ u.timer = t.timer /\ u.requested = t.requested
      /\ u.save = t.save /\ u.inbox = t.inbox /\ u.reads = [t.reads EXCEPT ![i] = read]
  BY <1>1, <1>3, Zenon DEF TypeOK, Tabs
<1>6. u.reads[i] = read /\ \A j \in Slots(b) \ {i} : u.reads[j] = t.reads[j]
  BY <1>1, <1>5, Zenon DEF Tabs
<1>7. tab' = [tab EXCEPT ![b] = u]
  BY <1>1, <1>3, Zenon DEF TypeOK
<1> HIDE DEF u, t, full, empty
<1>8. Recorded(b, u)
  BY <1>1, <1>4, <1>5, <1>6 DEF Recorded, DraftInv
<1>9. ASSUME Untroubled(b, t), read = full PROVE Untroubled(b, u)
  <2>1. t.base \in 0..n
    BY <1>1, Zenon DEF BehindServer
  <2>2. \A j \in Slots(b) : u.reads[j].pc = "answered" => u.reads[j].revision # 0
    BY <1>1, <1>4, <1>6, <1>9, Zenon DEF Untroubled, Calm
  <2>3. Accounted(b, u)
    <3>1. CASE t.timer \/ t.requested
      BY <1>5, <3>1, Zenon DEF Accounted
    <3>2. CASE t.save.pc = "none" /\ (t.view \subseteq server.ever \/ t.conflict)
      BY <1>5, <3>2, Zenon DEF Accounted
    <3>3. CASE t.save.pc # "none" /\ (t.view \subseteq server.ever \cup t.save.layout \/ t.save.remote)
      BY <1>5, <3>3, Zenon DEF Accounted
    <3>4. ASSUME NEW k \in Slots(b), t.save.pc = "none",
                 t.reads[k].for = "reload", t.reads[k].pc # "none",
                 t.reads[k].pc = "answered" => t.reads[k].revision >= t.base
          PROVE  Accounted(b, u)
      <4>1. u.reads[k].for = "reload" /\ u.reads[k].pc # "none"
        BY <1>4, <1>6, <3>4, Zenon
      <4>2. u.reads[k].pc = "answered" => u.reads[k].revision >= u.base
        BY <1>1, <1>4, <1>5, <1>6, <1>9, <2>1, <3>4
      <4> QED
        BY <1>5, <3>4, <4>1, <4>2, Zenon DEF Accounted
    <3>5. ASSUME NEW k \in Slots(b), t.save.pc # "none",
                 t.reads[k].for = "reload", t.reads[k].pc = "waiting"
          PROVE  Accounted(b, u)
      <4>1. u.reads[k] = t.reads[k]
        BY <1>2, <1>6, <3>5, Zenon
      <4> QED
        BY <1>5, <3>5, <4>1, Zenon DEF Accounted
    <3> QED
      BY <1>9, <3>1, <3>2, <3>3, <3>4, <3>5, Zenon DEF Untroubled, Accounted
  <2> QED
    BY <1>5, <1>9, <2>2, <2>3, Zenon DEF Untroubled, Calm, AtOwnRevision, Busy
<1> QED
  BY <1>1, <1>3, <1>7, <1>8, <1>9, OneDraftMoves, Zenon DEF Fine

\* A remote revision is followed, or it is a conflict with somebody else's layout.
LEMMA RemoteDraft ==
    ASSUME NEW b \in Browsers, NEW t \in Tabs(b), Untroubled(b, t), FreeSlots(t) # {},
           NEW revision \in Nat, NEW u, u = HandleRemoteLayoutRevision(t, revision),
           t.base # 0 /\ ~(revision <= t.base) /\ Busy(t) => server.writers \ {b} # {}
    PROVE  Untroubled(b, u)
<1>1. CASE t.base # 0 /\ revision <= t.base
  BY <1>1, Zenon DEF HandleRemoteLayoutRevision
<1>2. CASE ~(t.base # 0 /\ revision <= t.base) /\ Busy(t)
  <2> DEFINE save == [t.save EXCEPT !.remote = t.save.pc # "none"]
  <2>1. u = [t EXCEPT !.conflict = TRUE, !.timer = FALSE, !.requested = FALSE, !.save = save]
    BY <1>2, Zenon DEF HandleRemoteLayoutRevision, Tabs
  <2>2. SameSave(save, t.save) /\ (save.remote <=> t.save.pc # "none")
    BY Zenon DEF Tabs, Saves, SameSave
  <2> HIDE DEF save
  <2>3. /\ u.view = t.view /\ u.base = t.base /\ u.conflict /\ u.initialized = t.initialized
        /\ ~u.timer /\ ~u.requested /\ u.save = save /\ u.reads = t.reads
    BY <2>1, Zenon DEF Tabs
  <2>4. t.base # 0 /\ server.writers \ {b} # {}
    BY <1>2, Zenon DEF Untroubled, Calm
  <2>5. Accounted(b, u)
    BY <2>2, <2>3, Zenon DEF Accounted, SameSave
  <2> QED
    BY <2>2, <2>3, <2>4, <2>5, Zenon DEF Untroubled, Calm, SameSave
<1>3. CASE ~(t.base # 0 /\ revision <= t.base) /\ ~Busy(t)
  <2>1. u = ResetLayout(t, "follow")
    BY <1>3, Zenon DEF HandleRemoteLayoutRevision
  <2>2. t.save.pc = "none" /\ ~t.timer /\ ~t.requested
    BY <1>3, Zenon DEF Busy
  <2>3. /\ Alike(b, t, u) /\ u.timer = FALSE /\ u.requested = FALSE /\ u.save = t.save
        /\ Asked(b, t, u, "follow", IF t.save.pc = "none" THEN "sent" ELSE "waiting")
    BY <2>1, ResetFields, Zenon
  <2>4. PICK i \in Slots(b) :
            /\ t.reads[i].pc = "none" /\ u.reads[i].pc = "sent"
            /\ \A j \in Slots(b) \ {i} : u.reads[j] = t.reads[j]
    BY <2>2, <2>3, Zenon DEF Asked
  <2>5. Accounted(b, u)
    BY <2>2, <2>3, <2>4 DEF Untroubled, Calm, Accounted, Alike
  <2>6. \A j \in Slots(b) : u.reads[j].pc = "answered" => u.reads[j].revision # 0
    BY <2>4, Zenon DEF Untroubled, Calm
  <2> QED
    BY <2>2, <2>3, <2>5, <2>6, Zenon DEF Untroubled, Calm, AtOwnRevision, Alike, Busy
<1> QED
  BY <1>1, <1>2, <1>3, Zenon

LEMMA RemoteRecorded ==
    ASSUME NEW b \in Browsers, NEW t \in Tabs(b), Recorded(b, t), FreeSlots(t) # {},
           NEW revision \in Nat, NEW u, u = HandleRemoteLayoutRevision(t, revision)
    PROVE  Recorded(b, u)
<1>1. CASE t.base # 0 /\ revision <= t.base
  BY <1>1, Zenon DEF HandleRemoteLayoutRevision
<1>2. CASE ~(t.base # 0 /\ revision <= t.base) /\ Busy(t)
  <2>1. u.reads = t.reads /\ u.inbox = t.inbox
    BY <1>2, Zenon DEF HandleRemoteLayoutRevision, Tabs
  <2> QED
    BY <2>1, Zenon DEF Recorded
<1>3. CASE ~(t.base # 0 /\ revision <= t.base) /\ ~Busy(t)
  <2>1. u = ResetLayout(t, "follow")
    BY <1>3, Zenon DEF HandleRemoteLayoutRevision
  <2>2. Alike(b, t, u) /\ Asked(b, t, u, "follow", IF t.save.pc = "none" THEN "sent" ELSE "waiting")
    BY <2>1, ResetFields, Zenon
  <2> QED
    BY <2>2 DEF Recorded, Alike, Asked
<1> QED
  BY <1>1, <1>2, <1>3, Zenon

\* A request is over, and its slot is free.
Freed(b, s, i, t) ==
    /\ Alike(b, s, t) /\ t.timer = s.timer /\ t.requested = s.requested /\ t.save = s.save
    /\ t.reads[i] = NoRead /\ \A j \in Slots(b) \ {i} : t.reads[j] = s.reads[j]
    /\ FreeSlots(t) # {}

LEMMA FreedFields ==
    ASSUME NEW b \in Browsers, NEW s \in Tabs(b), NEW i \in Slots(b),
           NEW t, t = [s EXCEPT !.reads[i] = NoRead]
    PROVE  Freed(b, s, i, t)
<1>1. /\ t.view = s.view /\ t.base = s.base /\ t.conflict = s.conflict
      /\ t.initialized = s.initialized /\ t.timer = s.timer /\ t.requested = s.requested
      /\ t.save = s.save /\ t.inbox = s.inbox /\ t.reads = [s.reads EXCEPT ![i] = NoRead]
  BY Zenon DEF Tabs
<1>2. t \in Tabs(b)
  BY NothingTypes, Zenon DEF Tabs
<1>3. /\ t.reads[i] = NoRead /\ \A j \in Slots(b) \ {i} : t.reads[j] = s.reads[j]
      /\ i \in DOMAIN t.reads
  BY <1>1, Zenon DEF Tabs
<1>4. i \in FreeSlots(t)
  BY <1>3 DEF FreeSlots, NoRead
<1> QED
  BY <1>1, <1>2, <1>3, <1>4, Zenon DEF Alike, Freed

\* A request that is over; an answer to a reload that is older than what is shown is dropped.
LEMMA FreedDraft ==
    ASSUME NEW b \in Browsers, NEW s, NEW i \in Slots(b), NEW t, Freed(b, s, i, t)
    PROVE  /\ Recorded(b, s) => Recorded(b, t)
           /\ Calm(b, s) => Calm(b, t)
           /\ /\ Accounted(b, s) /\ s.reads[i].pc = "answered"
              /\ s.reads[i].for = "reload" => ~(s.reads[i].revision >= s.base)
              => Accounted(b, t)
<1>1. /\ Alike(b, s, t) /\ t.timer = s.timer /\ t.requested = s.requested /\ t.save = s.save
      /\ t.reads[i] = NoRead /\ \A j \in Slots(b) \ {i} : t.reads[j] = s.reads[j]
  BY Zenon DEF Freed
<1>2. NoRead.layout = {} /\ NoRead.pc = "none"
  BY Zenon DEF NoRead
<1>3. Recorded(b, s) => Recorded(b, t)
  BY <1>1, <1>2, Zenon DEF Recorded, Alike
<1>4. Calm(b, s) => Calm(b, t)
  BY <1>1, <1>2, Zenon DEF Calm, Alike, AtOwnRevision, Busy
<1>5. ASSUME Accounted(b, s), s.reads[i].pc = "answered",
             s.reads[i].for = "reload" => ~(s.reads[i].revision >= s.base)
      PROVE  Accounted(b, t)
  BY <1>1, <1>2, <1>5 DEF Accounted, Alike
<1> QED
  BY <1>3, <1>4, <1>5, Zenon

\* A layout that is adopted was the server's, and is no older than what it replaces.
LEMMA AdoptDraft ==
    ASSUME NEW b \in Browsers, NEW t \in Tabs(b), Calm(b, t),
           NEW read \in Reads, read.layout \subseteq server.ever, read.revision # 0,
           server.revision \in Nat, read.revision <= server.revision, read.revision >= t.base,
           server.writers = {} => server.revision = 1, NEW u, Adopted(b, t, read, u)
    PROVE  Untroubled(b, u)
<1>1. /\ u.view = read.layout /\ u.base = read.revision /\ ~u.conflict
      /\ u.initialized /\ u.timer = t.timer /\ u.requested = t.requested
      /\ u.save = t.save /\ u.reads = t.reads
  BY Zenon DEF Adopted
<1>2. Accounted(b, u)
  BY <1>1, Zenon DEF Accounted
<1>3. server.writers \subseteq {b} => AtOwnRevision(u)
  <2> SUFFICES ASSUME server.writers \subseteq {b} PROVE AtOwnRevision(u)
    BY Zenon
  <2>1. AtOwnRevision(t) /\ t.base \in Nat /\ read.revision \in Nat
    BY Zenon DEF Calm, Tabs, Reads
  <2>2. CASE t.base = 0
    <3>1. server.revision = 1 /\ t.save.pc = "none"
      BY <2>2, Zenon DEF Calm, Busy
    <3>2. read.revision = 1
      BY <2>1, <3>1
    <3> QED
      BY <1>1, <3>1, <3>2, Zenon DEF AtOwnRevision
  <2>3. CASE t.base # 0
    BY <1>1, <2>1, <2>3 DEF AtOwnRevision
  <2> QED
    BY <2>2, <2>3, Zenon
<1> QED
  BY <1>1, <1>2, <1>3, Zenon DEF Untroubled, Calm

LEMMA ReadReturnsDraft ==
    ASSUME LayoutInv, DraftInv, NEW b \in Browsers, NEW i \in Slots(b), ReadReturns(b, i)
    PROVE  DraftInv'
<1> DEFINE s == tab[b]
           read == s.reads[i]
           t == [s EXCEPT !.reads[i] = NoRead]
           u == ReadAnswered(t, read)
           n == server.revision
<1>1. /\ TypeOK /\ s \in Tabs(b) /\ BehindServer(b, s) /\ Recorded(b, s) /\ n \in Nat \ {0}
      /\ b \notin troubled => Untroubled(b, s)
  BY Before, Zenon
<1>2. /\ read \in Reads /\ read.pc = "answered" /\ read.layout \subseteq server.ever
      /\ read.revision \in Nat /\ read.revision <= n /\ s.base \in Nat
  BY <1>1 DEF ReadReturns, BehindServer, Recorded, Tabs, Reads
<1>3. Freed(b, s, i, t)
  BY <1>1, FreedFields, Zenon
<1>4. /\ tab' = [tab EXCEPT ![b] = u] /\ server' = server /\ troubled \subseteq troubled'
      /\ Misread(t, read) => b \in troubled'
  BY Zenon DEF ReadReturns
<1>5. Adopted(b, t, read, Adopt(t, read))
  BY <1>2, <1>3, AdoptFields, Zenon DEF Freed, Alike
<1> HIDE DEF s, t, read
<1>6. /\ t \in Tabs(b) /\ t.base = s.base /\ t.save = s.save /\ FreeSlots(t) # {}
  BY <1>3, Zenon DEF Freed, Alike
<1>7. /\ Recorded(b, t) /\ (Calm(b, s) => Calm(b, t))
      /\ Accounted(b, s) /\ (read.for = "reload" => ~(read.revision >= s.base))
         => Accounted(b, t)
  BY <1>1, <1>2, <1>3, FreedDraft, Zenon DEF read
<1>8. Recorded(b, u)
  <2>1. Recorded(b, Adopt(t, read))
    BY <1>5, <1>7, Zenon DEF Recorded, Adopted
  <2>2. Recorded(b, HandleRemoteLayoutRevision(t, read.revision))
    BY <1>2, <1>6, <1>7, RemoteRecorded, Zenon
  <2> QED
    BY <1>7, <2>1, <2>2, Zenon DEF ReadAnswered
<1>9. ASSUME b \notin troubled' PROVE Untroubled(b, u)
  <2>1. Untroubled(b, s) /\ ~Misread(t, read)
    BY <1>1, <1>4, <1>9, Zenon
  <2>2. Calm(b, t) /\ read.revision # 0
    BY <1>2, <1>7, <2>1, Zenon DEF Untroubled, Calm, read
  <2>3. ASSUME read.revision >= t.base PROVE Untroubled(b, Adopt(t, read))
    BY <1>1, <1>2, <1>5, <1>6, <2>2, <2>3, AdoptDraft, Zenon DEF DraftInv
  <2>4. CASE read.for = "initialize"
    <3>1. read.revision >= t.base
      BY <1>2, <1>6, <2>1, <2>4 DEF Misread, Overtaken
    <3> QED
      BY <2>3, <2>4, <3>1, Zenon DEF ReadAnswered
  <2>5. CASE read.for = "reconcile"
    <3>1. t.save.pc = "none" /\ u = HandleRemoteLayoutRevision(t, read.revision)
      BY <2>1, <2>2, <2>5, Zenon DEF Misread, ReadAnswered
    <3>2. Untroubled(b, t)
      BY <1>7, <2>1, <2>2, <2>5, Zenon DEF Untroubled
    <3>3. t.base # 0 /\ ~(read.revision <= t.base) => server.writers \ {b} # {}
      BY <1>1, <1>2, <1>6, <2>2, <3>1, Zenon DEF Calm, AtOwnRevision
    <3> QED
      BY <1>2, <1>6, <3>1, <3>2, <3>3, RemoteDraft, Zenon
  <2>6. CASE read.for \notin {"initialize", "reconcile"} /\ t.base # 0 /\ read.revision < t.base
    <3>1. u = t
      BY <2>2, <2>6, Zenon DEF ReadAnswered
    <3> QED
      BY <1>2, <1>6, <1>7, <2>1, <2>2, <2>6, <3>1 DEF Untroubled
  <2>7. CASE /\ read.for \notin {"initialize", "reconcile"}
             /\ ~(t.base # 0 /\ read.revision < t.base)
    <3>1. u = Adopt(t, read) /\ read.revision >= t.base
      BY <1>2, <1>6, <2>2, <2>7 DEF ReadAnswered
    <3> QED
      BY <2>3, <3>1, Zenon
  <2> QED
    BY <2>4, <2>5, <2>6, <2>7, Zenon
<1> QED
  BY <1>4, <1>8, <1>9, OneDraftMoves, Zenon DEF Fine

LEMMA ReadFailsDraft ==
    ASSUME LayoutInv, DraftInv, NEW b \in Browsers, NEW i \in Slots(b), ReadFails(b, i)
    PROVE  DraftInv'
<1> DEFINE s == tab[b]
           t == [s EXCEPT !.reads[i] = NoRead]
           u == ReadFailed(t, s.reads[i])
<1>1. TypeOK /\ s \in Tabs(b) /\ Recorded(b, s)
  BY Before, Zenon
<1>2. Freed(b, s, i, t)
  BY <1>1, FreedFields, Zenon
<1>3. /\ tab' = [tab EXCEPT ![b] = u] /\ server' = server /\ troubled \subseteq troubled'
      /\ b \in troubled'
  BY <1>1, Zenon DEF ReadFails, TypeOK
<1> HIDE DEF t
<1>4. t \in Tabs(b) /\ Recorded(b, t)
  BY <1>1, <1>2, FreedDraft, Zenon DEF Freed, Alike
<1>5. Recorded(b, u)
  <2>1. u.reads = t.reads /\ u.inbox = t.inbox
    BY <1>4, Zenon DEF ReadFailed, Adopt, Tabs
  <2> QED
    BY <1>4, <2>1, Zenon DEF Recorded
<1> HIDE DEF u
<1> QED
  BY <1>3, <1>5, OneDraftMoves, Zenon DEF Fine

\* A save that is refused was derived from a revision that somebody else replaced.
LEMMA SaveReturnsDraft ==
    ASSUME LayoutInv, DraftInv, NEW b \in Browsers, SaveReturns(b) PROVE DraftInv'
<1> DEFINE t == tab[b]
           r == [t EXCEPT !.conflict = TRUE, !.requested = FALSE]
           a == [t EXCEPT !.base = t.save.revision, !.conflict = t.save.remote]
<1>1. /\ TypeOK /\ t \in Tabs(b) /\ Recorded(b, t) /\ (b \notin troubled => Untroubled(b, t))
      /\ server.revision \in Nat \ {0}
  BY Before, Zenon
<1>2. t.save.pc = "answered" /\ server' = server /\ troubled' = troubled
  BY Zenon DEF SaveReturns
<1>3. CASE t.save.revision = 0
  <2> DEFINE u == Finish(r)
  <2>1. tab' = [tab EXCEPT ![b] = u]
    BY <1>3, Zenon DEF SaveReturns, SaveRefused
  <2>2. /\ r \in Tabs(b) /\ r.view = t.view /\ r.base = t.base /\ r.conflict /\ ~r.requested
        /\ r.reads = t.reads /\ r.inbox = t.inbox
    BY <1>1, Zenon DEF Tabs
  <2> HIDE DEF r, t
  <2>3. /\ Alike(b, r, u) /\ Released(b, r, u) /\ u.timer = r.timer /\ u.requested = r.requested
        /\ u.save.pc = "none" /\ u.save.remote = FALSE
    BY <2>2, FinishFields, Zenon
  <2> HIDE DEF u
  <2>4. Recorded(b, u)
    BY <1>1, <2>2, <2>3 DEF Recorded, Alike, Released
  <2>5. ASSUME Untroubled(b, t) PROVE Untroubled(b, u)
    <3>1. t.base # 0 /\ server.writers \ {b} # {}
      BY <1>1, <1>2, <1>3, <2>5, Zenon DEF Untroubled, Calm, AtOwnRevision, Busy
    <3>2. \A i \in Slots(b) : u.reads[i].pc = "answered" => u.reads[i].revision # 0
      BY <2>2, <2>3, <2>5 DEF Released, Untroubled, Calm
    <3> QED
      BY <2>2, <2>3, <3>1, <3>2, Zenon DEF Untroubled, Calm, Accounted, Alike
  <2> QED
    BY <1>1, <1>2, <2>1, <2>4, <2>5, OneDraftMoves, Zenon DEF Fine
<1>4. CASE t.save.revision # 0
  <2> DEFINE u == PersistLoop(a)
  <2>1. tab' = [tab EXCEPT ![b] = u]
    BY <1>4, Zenon DEF SaveReturns, SaveAccepted
  <2>2. /\ a \in Tabs(b) /\ a.view = t.view /\ a.base = t.save.revision
        /\ a.conflict = t.save.remote /\ a.timer = t.timer /\ a.requested = t.requested
        /\ a.reads = t.reads /\ a.inbox = t.inbox
    BY <1>1, Zenon DEF Tabs, Saves
  <2> HIDE DEF a, t
  <2>3. Recorded(b, u)
    <3>1. Looped(b, a, u)
      BY <2>2, LoopFields, Zenon
    <3> QED
      BY <1>1, <2>2, <3>1 DEF Looped, Alike, Released, Recorded
  <2>4. ASSUME Untroubled(b, t) PROVE Untroubled(b, u)
    <3>1. /\ \A i \in Slots(b) : a.reads[i].pc = "answered" => a.reads[i].revision # 0
          /\ a.conflict => server.writers \ {b} # {}
          /\ server.writers \subseteq {b} => a.base = server.revision
      BY <1>2, <2>2, <2>4, Zenon DEF Untroubled, Calm, AtOwnRevision
    <3>2. t.save.layout \subseteq server.ever
      BY <1>2, <1>4, <2>4, Zenon DEF Untroubled, Calm
    <3>3. \/ a.requested \/ a.timer \/ a.view \subseteq server.ever \/ a.conflict
          \/ \E i \in Slots(b) : a.reads[i].for = "reload" /\ a.reads[i].pc = "waiting"
      BY <1>2, <2>2, <2>4, <3>2, Zenon DEF Untroubled, Accounted
    <3> QED
      BY <1>4, <2>2, <3>1, <3>3, LoopDraft, Zenon
  <2> QED
    BY <1>1, <1>2, <2>1, <2>3, <2>4, OneDraftMoves, Zenon DEF Fine
<1> QED
  BY <1>3, <1>4, Zenon

LEMMA SaveFailsDraft ==
    ASSUME LayoutInv, DraftInv, NEW b \in Browsers, SaveFails(b) PROVE DraftInv'
<1> DEFINE u == Finish(tab[b])
<1>1. TypeOK /\ tab[b] \in Tabs(b) /\ Recorded(b, tab[b])
  BY Before, Zenon
<1>2. /\ tab' = [tab EXCEPT ![b] = u] /\ server' = server /\ troubled \subseteq troubled'
      /\ b \in troubled'
  BY <1>1, Zenon DEF SaveFails, TypeOK
<1>3. Alike(b, tab[b], u) /\ Released(b, tab[b], u)
  BY <1>1, FinishFields, Zenon
<1> HIDE DEF u
<1>4. Recorded(b, u)
  BY <1>1, <1>3, Zenon DEF Recorded, Alike, Released
<1> QED
  BY <1>2, <1>4, OneDraftMoves, Zenon DEF Fine

\* A tab that differs from another in its WebSocket only.
LEMMA OtherInbox ==
    ASSUME NEW b \in Browsers, NEW s, NEW t,
           t.view = s.view, t.base = s.base, t.conflict = s.conflict,
           t.initialized = s.initialized, t.timer = s.timer, t.requested = s.requested,
           t.save = s.save, t.reads = s.reads, Untroubled(b, s)
    PROVE  Untroubled(b, t)
BY DEF Untroubled, Calm, Accounted, AtOwnRevision, Busy

LEMMA ReceiveDraft ==
    ASSUME LayoutInv, DraftInv, NEW b \in Browsers, Receive(b) PROVE DraftInv'
<1> DEFINE s == tab[b]
           t == [s EXCEPT !.inbox = Tail(@)]
           message == Head(s.inbox)
           u == Received(t, b, message)
<1>1. /\ TypeOK /\ s \in Tabs(b) /\ Recorded(b, s) /\ (b \notin troubled => Untroubled(b, s))
  BY Before, Zenon
<1>2. /\ tab' = [tab EXCEPT ![b] = u] /\ server' = server /\ troubled' = troubled
      /\ FreeSlots(s) # {} /\ s.inbox # <<>> /\ s.inbox \in Seq(Messages)
  BY <1>1, Zenon DEF Receive, TypeOK, Tabs
<1>3. /\ message \in Messages /\ message = s.inbox[1] /\ 1 \in DOMAIN s.inbox
      /\ Tail(s.inbox) \in Seq(Messages)
      /\ \A k \in DOMAIN Tail(s.inbox) : k + 1 \in DOMAIN s.inbox /\ Tail(s.inbox)[k] = s.inbox[k + 1]
  BY <1>2
<1>4. /\ t \in Tabs(b) /\ t.view = s.view /\ t.base = s.base /\ t.conflict = s.conflict
      /\ t.initialized = s.initialized /\ t.timer = s.timer /\ t.requested = s.requested
      /\ t.save = s.save /\ t.reads = s.reads /\ t.inbox = Tail(s.inbox)
  BY <1>1, <1>3, Zenon DEF Tabs
<1>5. message.type # "snapshot" =>
        /\ message.type = "layout" /\ message.revision \in Nat /\ message.by \in server.writers
  BY <1>1, <1>3, Zenon DEF Messages, Recorded
<1> HIDE DEF t, message
<1>6. Recorded(b, t)
  BY <1>1, <1>3, <1>4 DEF Recorded
<1>7. FreeSlots(t) # {} /\ (Untroubled(b, s) => Untroubled(b, t))
  BY <1>2, <1>4, OtherInbox, Zenon DEF FreeSlots
<1> HIDE DEF s
<1>8. CASE message.type = "snapshot"
  <2>1. u = Begin(t, Send("reconcile"))
    BY <1>8, Zenon DEF Received
  <2>2. /\ Send("reconcile") \in Reads /\ Send("reconcile").layout = {}
        /\ Send("reconcile").pc = "sent"
    BY Zenon DEF Send, NoRead, Reads
  <2> HIDE DEF u
  <2>3. /\ Alike(b, t, u) /\ Asked(b, t, u, Send("reconcile").for, Send("reconcile").pc)
        /\ u.timer = t.timer /\ u.requested = t.requested /\ u.save = t.save
    BY <1>4, <1>7, <2>1, <2>2, BeginFields
  <2>4. PICK i \in Slots(b) :
            /\ t.reads[i].pc = "none" /\ u.reads[i].pc = "sent" /\ u.reads[i].layout = {}
            /\ \A j \in Slots(b) \ {i} : u.reads[j] = t.reads[j]
    BY <2>2, <2>3, Zenon DEF Asked
  <2>5. Recorded(b, u)
    BY <1>6, <2>3, <2>4, Zenon DEF Recorded, Alike
  <2>6. ASSUME Untroubled(b, t) PROVE Untroubled(b, u)
    <3>1. \A j \in Slots(b) : u.reads[j].pc = "answered" => u.reads[j].revision # 0
      BY <2>4, <2>6, Zenon DEF Untroubled, Calm
    <3>2. Accounted(b, u)
      BY <2>3, <2>4, <2>6 DEF Untroubled, Accounted, Alike
    <3> QED
      BY <2>3, <2>6, <3>1, <3>2, Zenon DEF Untroubled, Calm, AtOwnRevision, Alike, Busy
  <2> QED
    BY <1>1, <1>2, <1>7, <2>5, <2>6, OneDraftMoves, Zenon DEF Fine
<1>9. CASE message.type # "snapshot" /\ message.by = b
  <2>1. u = t
    BY <1>9, Zenon DEF Received
  <2> QED
    BY <1>1, <1>2, <1>6, <1>7, <2>1, OneDraftMoves, Zenon DEF Fine
<1>10. CASE message.type # "snapshot" /\ message.by # b
  <2>1. u = HandleRemoteLayoutRevision(t, message.revision)
    BY <1>10, Zenon DEF Received
  <2>2. server.writers \ {b} # {}
    BY <1>5, <1>10, Zenon
  <2> HIDE DEF u
  <2>3. Recorded(b, u)
    BY <1>4, <1>5, <1>6, <1>7, <1>10, <2>1, RemoteRecorded, Zenon
  <2>4. Untroubled(b, t) => Untroubled(b, u)
    BY <1>4, <1>5, <1>7, <1>10, <2>1, <2>2, RemoteDraft, Zenon
  <2> QED
    BY <1>1, <1>2, <1>7, <2>3, <2>4, OneDraftMoves, Zenon DEF Fine
<1> QED
  BY <1>8, <1>9, <1>10, Zenon

LEMMA ConnectDraft ==
    ASSUME LayoutInv, DraftInv, NEW b \in Browsers, Connect(b) \/ Disconnect(b) PROVE DraftInv'
<1> DEFINE s == tab[b]
           m == <<[type |-> "snapshot"]>>
           u == [s EXCEPT !.online = TRUE, !.inbox = m]
           v == [s EXCEPT !.online = FALSE, !.inbox = <<>>]
<1>1. TypeOK /\ s \in Tabs(b) /\ Recorded(b, s) /\ (b \notin troubled => Untroubled(b, s))
  BY Before, Zenon
<1>2. /\ tab' = [tab EXCEPT ![b] = u] \/ tab' = [tab EXCEPT ![b] = v]
      /\ server' = server /\ troubled' = troubled
  BY <1>1, Zenon DEF Connect, Disconnect, TypeOK
<1>3. \A k \in DOMAIN m : m[k].type = "snapshot"
  OBVIOUS
<1> HIDE DEF m
<1>4. ASSUME NEW w \in {u, v}
      PROVE  /\ w.view = s.view /\ w.base = s.base /\ w.conflict = s.conflict
             /\ w.initialized = s.initialized /\ w.timer = s.timer /\ w.requested = s.requested
             /\ w.save = s.save /\ w.reads = s.reads /\ w.inbox \in {m, <<>>}
  BY <1>1, Zenon DEF Tabs
<1> HIDE DEF u, v, s
<1>5. ASSUME NEW w \in {u, v} PROVE Recorded(b, w)
  BY <1>1, <1>3, <1>4 DEF Recorded
<1>6. ASSUME NEW w \in {u, v}, Untroubled(b, s) PROVE Untroubled(b, w)
  BY <1>4, <1>6, OtherInbox, Zenon
<1> QED
  BY <1>1, <1>2, <1>5, <1>6, OneDraftMoves, Zenon DEF Fine

\* A save that is accepted is recorded; whoever else is in conflict then has reason to be.
LEMMA ServeSaveDraft ==
    ASSUME LayoutInv, DraftInv, NEW b \in Browsers, ServeSave(b) PROVE DraftInv'
<1> DEFINE t == tab[b]
           n == server.revision
<1>1. /\ TypeOK /\ t \in Tabs(b) /\ Recorded(b, t) /\ (b \notin troubled => Untroubled(b, t))
      /\ n \in Nat \ {0} /\ t.save \in Saves
  BY Before, Zenon DEF Tabs
<1>2. t.save.pc = "sent" /\ troubled' = troubled
  BY Zenon DEF ServeSave
<1>3. CASE t.save.expected # n
  <2> DEFINE refused == [t.save EXCEPT !.pc = "answered", !.revision = 0]
             u == [t EXCEPT !.save = refused]
  <2>1. tab' = [tab EXCEPT ![b] = u] /\ server' = server
    BY <1>1, <1>3, Zenon DEF ServeSave, Answer, TypeOK
  <2>2. /\ refused.pc = "answered" /\ refused.revision = 0 /\ refused.layout = t.save.layout
        /\ refused.remote = t.save.remote
    BY <1>1, Zenon DEF Saves
  <2> HIDE DEF refused
  <2>3. /\ u.view = t.view /\ u.base = t.base /\ u.conflict = t.conflict
        /\ u.initialized = t.initialized /\ u.timer = t.timer /\ u.requested = t.requested
        /\ u.save = refused /\ u.reads = t.reads /\ u.inbox = t.inbox
    BY <1>1, Zenon DEF Tabs
  <2> HIDE DEF u, t
  <2>4. Recorded(b, u)
    BY <1>1, <2>3, Zenon DEF Recorded
  <2>5. ASSUME Untroubled(b, t) PROVE Untroubled(b, u)
    <3>1. t.base # 0 /\ ~(server.writers \subseteq {b})
      BY <1>2, <1>3, <2>5, Zenon DEF Untroubled, Calm, AtOwnRevision, Busy
    <3>2. Accounted(b, u)
      BY <1>2, <2>2, <2>3, <2>5, Zenon DEF Untroubled, Accounted
    <3> QED
      BY <2>2, <2>3, <2>5, <3>1, <3>2, Zenon DEF Untroubled, Calm
  <2> QED
    BY <1>1, <1>2, <2>1, <2>4, <2>5, OneDraftMoves, Zenon DEF Fine
<1>4. CASE t.save.expected = n
  <2> DEFINE saved == [t.save EXCEPT !.pc = "answered", !.revision = n + 1]
             message == [type |-> "layout", revision |-> n + 1, by |-> b]
             told(s) == IF s.online THEN [s EXCEPT !.inbox = Append(@, message)] ELSE s
  <2>1. /\ server'.revision = n + 1 /\ server'.layout = t.save.layout
        /\ server'.writers = server.writers \cup {b}
        /\ server'.ever = server.ever \cup t.save.layout
    BY <1>4 DEF ServeSave, Replaced
  <2>2. tab' = [c \in Browsers |->
                    told(IF c = b THEN [t EXCEPT !.save = saved] ELSE tab[c])]
    BY <1>1, <1>4, <2>1, SMTT(30) DEF ServeSave, Broadcast, Answer, TypeOK
  <2>3. /\ saved.pc = "answered" /\ saved.revision = n + 1 /\ saved \in Saves
        /\ saved.layout = t.save.layout /\ saved.remote = t.save.remote
    <3> DEFINE m == n + 1
    <3>1. m \in Nat
      BY <1>1
    <3> HIDE DEF m
    <3>2. \A k \in Nat : LET s == [t.save EXCEPT !.pc = "answered", !.revision = k]
                         IN  /\ s.pc = "answered" /\ s.revision = k /\ s \in Saves
                             /\ s.layout = t.save.layout /\ s.remote = t.save.remote
      BY <1>1, Zenon DEF Saves
    <3> QED
      BY <3>1, <3>2, Zenon DEF m
  <2>4. message \in Messages /\ message.by = b
    BY <1>1 DEF Messages
  <2> HIDE DEF saved, message
  <2>5. ASSUME NEW c \in Browsers, NEW s \in Tabs(c)
        PROVE  /\ told(s).view = s.view /\ told(s).base = s.base /\ told(s).conflict = s.conflict
               /\ told(s).initialized = s.initialized /\ told(s).timer = s.timer
               /\ told(s).requested = s.requested /\ told(s).save = s.save
               /\ told(s).reads = s.reads /\ told(s).inbox \in {s.inbox, Append(s.inbox, message)}
    BY Zenon DEF Tabs
  <2> HIDE DEF told
  <2>6. ASSUME NEW c \in Browsers
        PROVE  /\ tab'[c].view = tab[c].view /\ tab'[c].base = tab[c].base
               /\ tab'[c].conflict = tab[c].conflict /\ tab'[c].initialized = tab[c].initialized
               /\ tab'[c].timer = tab[c].timer /\ tab'[c].requested = tab[c].requested
               /\ tab'[c].save = (IF c = b THEN saved ELSE tab[c].save)
               /\ tab'[c].reads = tab[c].reads
               /\ tab'[c].inbox \in {tab[c].inbox, Append(tab[c].inbox, message)}
    <3> DEFINE s == IF c = b THEN [t EXCEPT !.save = saved] ELSE tab[c]
    <3>1. tab[c] \in Tabs(c)
      BY <1>1, Zenon DEF TypeOK
    <3>2. /\ s \in Tabs(c) /\ s.view = tab[c].view /\ s.base = tab[c].base
          /\ s.conflict = tab[c].conflict /\ s.initialized = tab[c].initialized
          /\ s.timer = tab[c].timer /\ s.requested = tab[c].requested
          /\ s.save = (IF c = b THEN saved ELSE tab[c].save) /\ s.reads = tab[c].reads
          /\ s.inbox = tab[c].inbox
      BY <2>3, <3>1, Zenon DEF Tabs
    <3>3. tab'[c] = told(s)
      BY <2>2, Zenon
    <3> HIDE DEF s
    <3> QED
      BY <2>5, <3>2, <3>3
  <2>7. ASSUME NEW c \in Browsers PROVE Recorded(c, tab[c])'
    <3>1. Recorded(c, tab[c]) /\ tab[c].inbox \in Seq(Messages)
      BY <1>1, Zenon DEF DraftInv, TypeOK, Tabs
    <3>2. \A k \in DOMAIN Append(tab[c].inbox, message) :
            \/ k \in DOMAIN tab[c].inbox /\ Append(tab[c].inbox, message)[k] = tab[c].inbox[k]
            \/ Append(tab[c].inbox, message)[k] = message
      BY <2>4, <3>1
    <3>3. \A k \in DOMAIN tab'[c].inbox :
            \/ k \in DOMAIN tab[c].inbox /\ tab'[c].inbox[k] = tab[c].inbox[k]
            \/ tab'[c].inbox[k] = message
      BY <2>6, <3>2, Zenon
    <3>4. \A k \in DOMAIN tab'[c].inbox :
            tab'[c].inbox[k].type = "layout" => tab'[c].inbox[k].by \in server'.writers
      BY <2>1, <2>4, <3>1, <3>3, Zenon DEF Recorded
    <3>5. \A i \in Slots(c) : tab'[c].reads[i].layout \subseteq server'.ever
      BY <2>1, <2>6, <3>1, Zenon DEF Recorded
    <3> QED
      BY <3>4, <3>5, Zenon DEF Recorded
  <2>8. ASSUME NEW c \in Browsers \ troubled, c # b PROVE Untroubled(c, tab[c])'
    <3> DEFINE s == tab[c]
    <3>1. Untroubled(c, s) /\ tab'[c].save = s.save
      BY <2>6, <2>8, Zenon DEF DraftInv
    <3>2. Accounted(c, tab[c])'
      <4>1. Accounted(c, tab[c]) /\ server.ever \subseteq server'.ever
        BY <2>1, <3>1, Zenon DEF Untroubled
      <4> QED
        BY <2>6, <2>8, <3>1, <4>1, AccountedStays, Zenon
    <3>3. Calm(c, tab[c])'
      BY <2>1, <2>6, <2>8, <3>1, ZenonT(60) DEF Untroubled, Calm, Busy
    <3> QED
      BY <3>2, <3>3, Zenon DEF Untroubled
  <2>9. ASSUME b \notin troubled PROVE Untroubled(b, tab[b])'
    <3>1. Untroubled(b, t) /\ tab'[b].save = saved
      BY <1>1, <2>6, <2>9, Zenon
    <3>2. Accounted(b, tab[b])'
      BY <1>2, <2>1, <2>3, <2>6, <3>1, ZenonT(60) DEF Untroubled, Accounted
    <3>3. (server.writers \subseteq {b} => AtOwnRevision(tab[b]))'
      <4> SUFFICES ASSUME server'.writers \subseteq {b} PROVE AtOwnRevision(tab[b])'
        BY Zenon
      <4>1. server.writers \subseteq {b}
        BY <2>1, Zenon
      <4>2. t.base = n
        BY <1>2, <3>1, <4>1, Zenon DEF Untroubled, Calm, AtOwnRevision
      <4>3. tab'[b].base = n /\ tab'[b].save.pc = "answered" /\ tab'[b].save.revision = n + 1
        BY <2>3, <2>6, <3>1, <4>2, Zenon
      <4> QED
        BY <1>1, <2>1, <4>3 DEF AtOwnRevision
    <3>4. t.base # 0
      BY <1>2, <3>1, Zenon DEF Untroubled, Calm, Busy
    <3>5. Calm(b, tab[b])'
      BY <2>1, <2>3, <2>6, <3>1, <3>3, <3>4, Zenon DEF Untroubled, Calm
    <3> QED
      BY <3>2, <3>5, Zenon DEF Untroubled
  <2> QED
    BY <1>2, <2>1, <2>7, <2>8, <2>9, Zenon DEF DraftInv
<1> QED
  BY <1>3, <1>4, Zenon

LEMMA InitDraft == Init => DraftInv
<1> SUFFICES ASSUME Init PROVE DraftInv
  BY Zenon
<1>1. /\ server.revision = 1 /\ server.layout = {} /\ server.writers = {} /\ server.ever = {}
  BY Zenon DEF Init
<1>2. ASSUME NEW b \in Browsers
      PROVE  /\ tab[b].view = {} /\ tab[b].save = NoSave /\ ~tab[b].timer /\ ~tab[b].requested
             /\ ~tab[b].conflict /\ tab[b].inbox = <<>>
             /\ tab[b].base = 1 \/ (tab[b].base = 0 /\ ~tab[b].initialized)
             /\ \A i \in Slots(b) : tab[b].reads[i].pc # "answered" /\ tab[b].reads[i].layout = {}
  <2> DEFINE first == [i \in Slots(b) |-> IF i = 1 THEN Send("initialize") ELSE NoRead]
             none == [i \in Slots(b) |-> NoRead]
  <2>1. tab[b] = IF b \in Settled THEN Loaded(b) ELSE Loading(b)
    BY Zenon DEF Init
  <2>2. \A i \in Slots(b) : /\ first[i].pc # "answered" /\ first[i].layout = {}
                            /\ none[i].pc # "answered" /\ none[i].layout = {}
    BY Zenon DEF NoRead, Send
  <2>3. /\ Loading(b).view = {} /\ Loading(b).save = NoSave /\ ~Loading(b).timer
        /\ ~Loading(b).requested /\ ~Loading(b).conflict /\ Loading(b).inbox = <<>>
        /\ Loading(b).base = 0 /\ ~Loading(b).initialized /\ Loading(b).reads = first
    BY Zenon DEF Loading
  <2>4. /\ Loaded(b).view = {} /\ Loaded(b).save = NoSave /\ ~Loaded(b).timer
        /\ ~Loaded(b).requested /\ ~Loaded(b).conflict /\ Loaded(b).inbox = <<>>
        /\ Loaded(b).base = 1 /\ Loaded(b).reads = none
    BY Zenon DEF Loading, Loaded
  <2> HIDE DEF first, none
  <2>5. CASE b \in Settled
    BY <2>1, <2>2, <2>4, <2>5, Zenon
  <2>6. CASE b \notin Settled
    BY <2>1, <2>2, <2>3, <2>6, Zenon
  <2> QED
    BY <2>5, <2>6, Zenon
<1>3. NoSave.pc = "none" /\ ~NoSave.remote
  BY Zenon DEF NoSave
<1>4. ASSUME NEW b \in Browsers PROVE Recorded(b, tab[b]) /\ Untroubled(b, tab[b])
  BY <1>1, <1>2, <1>3 DEF Recorded, Untroubled, Calm, Accounted, AtOwnRevision, Busy
<1> QED
  BY <1>1, <1>4, Zenon DEF DraftInv

LEMMA StutterDraft == ASSUME DraftInv, UNCHANGED vars PROVE DraftInv'
<1> USE DEF vars
<1>1. \A b \in Browsers : Recorded(b, tab[b])'
  BY Zenon DEF DraftInv, Recorded
<1>2. ASSUME NEW b \in Browsers \ troubled' PROVE Untroubled(b, tab[b])'
  <2>1. Calm(b, tab[b]) /\ Accounted(b, tab[b])
    BY <1>2, Zenon DEF DraftInv, Untroubled
  <2>2. Accounted(b, tab[b])'
    BY <1>2, <2>1, AccountedStays, Zenon
  <2>3. Calm(b, tab[b])'
    BY <1>2, <2>1, Zenon DEF Calm, AtOwnRevision, Busy
  <2> QED
    BY <2>2, <2>3, Zenon DEF Untroubled
<1> QED
  BY <1>1, <1>2, Zenon DEF DraftInv

\* The inductive invariant of unsaved work and conflicts: a browser whose requests have not
\* gone wrong knows of every revision but those of other browsers, and what it shows beyond
\* what the server ever had is queued, in a save, flagged, or about to be replaced by a reload.
THEOREM DraftInvariant == Spec => []DraftInv
<1>1. LayoutInv /\ DraftInv /\ [Next]_vars => DraftInv'
  <2> SUFFICES ASSUME LayoutInv, DraftInv, [Next]_vars PROVE DraftInv'
    BY Zenon
  <2>1. CASE UNCHANGED vars
    BY <2>1, StutterDraft, Zenon
  <2>2. ASSUME NEW b \in Browsers,
               \/ Edit(b) \/ Reload(b) \/ DebounceFires(b)
               \/ ServeSave(b) \/ SaveReturns(b) \/ SaveFails(b)
               \/ Receive(b) \/ Connect(b) \/ Disconnect(b)
        PROVE  DraftInv'
    BY <2>2, EditDraft, ReloadDraft, DebounceDraft, ServeSaveDraft, SaveReturnsDraft,
       SaveFailsDraft, ReceiveDraft, ConnectDraft, Zenon
  <2>3. ASSUME NEW b \in Browsers, NEW i \in Slots(b),
               \/ ServeRead(b, i) \/ ServeReadBroken(b, i)
               \/ ReadReturns(b, i) \/ ReadFails(b, i)
        PROVE  DraftInv'
    BY <2>3, ServeReadDraft, ReadReturnsDraft, ReadFailsDraft, Zenon
  <2> QED
    BY <2>1, <2>2, <2>3, Zenon DEF Next
<1> QED
  BY <1>1, InitDraft, LayoutInvariant, PTL DEF Spec

\* handleRemoteLayoutRevision() and the persist loop between them never forget an edit: what
\* an untroubled browser shows and the server never had is on its way, or the operator knows.
THEOREM UnsavedWorkIsKept == Spec => []UnsavedWorkIsAccountedFor
<1>1. DraftInv => UnsavedWorkIsAccountedFor
  BY Zenon DEF DraftInv, Untroubled, Accounted, UnsavedWorkIsAccountedFor, Busy
<1> QED
  BY <1>1, DraftInvariant, PTL

\* "Dashboard changed elsewhere" is only shown when another browser has committed a layout:
\* a browser none of whose requests failed or was misread never takes its own save, or the
\* echo of it, for somebody else's.
THEOREM ConflictsAreReal == Spec => []ConflictIsReal
<1>1. DraftInv => ConflictIsReal
  BY Zenon DEF DraftInv, Untroubled, Calm, ConflictIsReal
<1> QED
  BY <1>1, DraftInvariant, PTL
=============================================================================
