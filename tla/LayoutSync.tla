----------------------------- MODULE LayoutSync -----------------------------
(***************************************************************************)
(* The shared dashboard layout: what the browsers' dashboard stores        *)
(* (frontend/src/store/dashboard-store.ts) and the server's layout routes  *)
(* (src/api/routes/layout.routes.ts) do to one another.                    *)
(*                                                                         *)
(* A layout is saved and read as a whole.  It is represented by the set of *)
(* edits it shows, so that an edit which some save drops can be named.     *)
(* Requests are served and answered in any order; the messages of one      *)
(* WebSocket arrive in the order they were sent.  Revision 0 is null.      *)
(***************************************************************************)
EXTENDS Naturals, Sequences, FiniteSets

CONSTANTS
    Browsers,
    Settled,     \* browsers that have loaded the page and caught up before the others come
    MaxReads,    \* bound: reads of each browser in flight at one time
    MaxEdits,    \* bound: edits
    MaxIncidents \* bound: reloads, failed requests and lost WebSockets of each browser

ASSUME LayoutAssumption ==
    /\ Settled \subseteq Browsers
    /\ MaxReads \in [Browsers -> Nat \ {0}] /\ MaxEdits \in Nat
    /\ MaxIncidents \in [Browsers -> Nat]

VARIABLES
    server,    \* layout_metadata.revision, the tabs and panes; who replaced them last,
               \* who ever did, and every edit that was ever in them (history)
    tab,       \* the dashboard store of each browser, its requests and its WebSocket
    edits,     \* every edit ever made (history)
    incidents, \* reloads, failed requests and lost WebSockets of each browser so far (history)
    troubled,  \* browsers with a request that failed or was misread (history)
    missed,    \* ... a read of theirs, since their WebSocket last connected (history)
    overtaken  \* browsers that put back an older layout than they had shown (history)

vars == <<server, tab, edits, incidents, troubled, missed, overtaken>>

Slots(b) == 1..MaxReads[b]
Edits == Browsers \X (1..MaxEdits)
Own(b) == {e \in edits : e[1] = b}

NoRead == [pc |-> "none", for |-> "none", revision |-> 0, layout |-> {}]
NoSave == [pc |-> "none", expected |-> 0, layout |-> {}, revision |-> 0, remote |-> FALSE]

Send(for) == [NoRead EXCEPT !.pc = "sent", !.for = for]

\* The store as the page loads: the authenticated app starts initialize() and the WebSocket.
Loading(b) ==
    [view |-> {}, base |-> 0, conflict |-> FALSE, initialized |-> FALSE,
     timer |-> FALSE, requested |-> FALSE, save |-> NoSave,
     reads |-> [i \in Slots(b) |-> IF i = 1 THEN Send("initialize") ELSE NoRead],
     online |-> FALSE, inbox |-> <<>>]

Loaded(b) ==
    [Loading(b) EXCEPT !.base = 1, !.initialized = TRUE, !.online = TRUE,
                       !.reads = [i \in Slots(b) |-> NoRead]]

Init ==
    /\ server = [revision |-> 1, layout |-> {}, by |-> "nobody",
                 writers |-> {}, ever |-> {}]
    /\ tab = [b \in Browsers |-> IF b \in Settled THEN Loaded(b) ELSE Loading(b)]
    /\ edits = {} /\ incidents = [b \in Browsers |-> 0] /\ troubled = {} /\ missed = {} /\ overtaken = {}
-----------------------------------------------------------------------------
(* What the store's functions do to one browser. *)

FreeSlots(t) == {i \in DOMAIN t.reads : t.reads[i].pc = "none"}

Begin(t, read) ==
    LET i == CHOOSE i \in FreeSlots(t) : TRUE
    IN  [t EXCEPT !.reads[i] = read]

Adopt(t, read) ==
    [t EXCEPT !.view = read.layout, !.base = read.revision, !.conflict = FALSE,
              !.initialized = TRUE]

\* resetLayout() drops what is queued, and waits for a save under way before it reads.
ResetLayout(t, for) ==
    Begin([t EXCEPT !.timer = FALSE, !.requested = FALSE],
          [Send(for) EXCEPT !.pc = IF t.save.pc = "none" THEN "sent" ELSE "waiting"])

\* The end of the persist loop: persistPromise settles, and what awaited it goes on.
Finish(t) ==
    [t EXCEPT !.save = NoSave,
              !.reads = [i \in DOMAIN t.reads |-> IF t.reads[i].pc = "waiting"
                                         THEN [t.reads[i] EXCEPT !.pc = "sent"] ELSE t.reads[i]]]

\* The head of the persist loop.
PersistLoop(t) ==
    LET u == [t EXCEPT !.requested = FALSE]
    IN  IF ~t.requested \/ t.base = 0 THEN Finish(u)
        ELSE [u EXCEPT !.save = [NoSave EXCEPT !.pc = "sent", !.expected = t.base,
                                               !.layout = t.view]]

PersistLayout(t) ==
    LET u == [t EXCEPT !.requested = TRUE]
    IN  IF t.save.pc = "none" THEN PersistLoop(u) ELSE u

\* The catch clauses of the persist loop keep persistRequested, except for a 409.
SaveRefused(t) == Finish([t EXCEPT !.conflict = TRUE, !.requested = FALSE])

SaveAccepted(t) ==
    PersistLoop([t EXCEPT !.base = t.save.revision, !.conflict = t.save.remote])

Busy(t) == t.save.pc # "none" \/ t.requested \/ t.timer

\* Mutation: local work that is queued is dropped without a word.
RemoteUnflagged(t, revision) ==
    IF t.base # 0 /\ revision <= t.base THEN t
    ELSE IF Busy(t) THEN [t EXCEPT !.timer = FALSE, !.requested = FALSE]
    ELSE ResetLayout(t, "follow")

HandleRemoteLayoutRevision(t, revision) ==
    IF t.base # 0 /\ revision <= t.base THEN t
    ELSE IF Busy(t)
         THEN [t EXCEPT !.conflict = TRUE, !.timer = FALSE, !.requested = FALSE,
                        !.save.remote = t.save.pc # "none"]
    ELSE ResetLayout(t, "follow")

\* Mutation: an answer older than what is shown is adopted.
ReadAnsweredLate(t, read) ==
    IF read.for = "initialize" THEN Adopt(t, read)
    ELSE IF read.revision = 0 THEN t
    ELSE IF read.for = "reconcile" THEN HandleRemoteLayoutRevision(t, read.revision)
    ELSE Adopt(t, read)

\* What initialize(), resetLayout() and reconcileLayout() do with the layout they read.
ReadAnswered(t, read) ==
    IF read.for = "initialize" THEN Adopt(t, read)
    ELSE IF read.revision = 0 THEN t
    ELSE IF read.for = "reconcile" THEN HandleRemoteLayoutRevision(t, read.revision)
    ELSE IF t.base # 0 /\ read.revision < t.base THEN t
    ELSE Adopt(t, read)

\* What they do when the read fails.
ReadFailed(t, read) ==
    IF read.for = "initialize" THEN [Adopt(t, NoRead) EXCEPT !.conflict = t.conflict] ELSE t
-----------------------------------------------------------------------------
(* Actions: the operator. *)

Incident(b) ==
    /\ incidents[b] < MaxIncidents[b]
    /\ incidents' = [incidents EXCEPT ![b] = @ + 1]

\* Any of the tab and pane actions of the store, and the debounce they restart.
Edit(b) ==
    LET e == <<b, Cardinality(edits) + 1>>
    IN  /\ tab[b].initialized /\ e \in Edits
        /\ edits' = edits \cup {e}
        /\ tab' = [tab EXCEPT ![b].view = @ \cup {e}, ![b].timer = TRUE]
        /\ UNCHANGED <<server, incidents, troubled, missed, overtaken>>

\* The button of the conflict banner and the one of the tab bar.
Reload(b) ==
    /\ tab[b].initialized /\ FreeSlots(tab[b]) # {}
    /\ tab' = [tab EXCEPT ![b] = ResetLayout(tab[b], "reload")]
    /\ Incident(b)
    /\ UNCHANGED <<server, edits, troubled, missed, overtaken>>

DebounceFires(b) ==
    /\ tab[b].timer
    /\ tab' = [tab EXCEPT ![b] = PersistLayout([tab[b] EXCEPT !.timer = FALSE])]
    /\ UNCHANGED <<server, edits, incidents, troubled, missed, overtaken>>
-----------------------------------------------------------------------------
(* Actions: the server. *)

ServeRead(b, i) ==
    /\ tab[b].reads[i].pc = "sent"
    /\ tab' = [tab EXCEPT ![b].reads[i] =
                   [@ EXCEPT !.pc = "answered", !.revision = server.revision,
                             !.layout = server.layout]]
    /\ UNCHANGED <<server, edits, incidents, troubled, missed, overtaken>>

\* GET /api/layout when the database read throws: an empty layout without a revision.
ServeReadBroken(b, i) ==
    /\ tab[b].reads[i].pc = "sent"
    /\ tab' = [tab EXCEPT ![b].reads[i] = [@ EXCEPT !.pc = "answered"]]
    /\ Incident(b)
    /\ troubled' = troubled \cup {b} /\ missed' = missed \cup {b}
    /\ UNCHANGED <<server, edits, overtaken>>

\* CONFIGURATION_INVALIDATED reaches the WebSockets that are authenticated.
Broadcast(tabs, revision, by) ==
    [b \in Browsers |->
        IF tabs[b].online
        THEN [tabs[b] EXCEPT !.inbox = Append(@, [type |-> "layout", revision |-> revision,
                                                  by |-> by])]
        ELSE tabs[b]]

Answer(b, revision) == [tab EXCEPT ![b].save = [@ EXCEPT !.pc = "answered", !.revision = revision]]

Replaced(b) ==
    [revision |-> server.revision + 1, layout |-> tab[b].save.layout, by |-> b,
     writers |-> server.writers \cup {b}, ever |-> server.ever \cup tab[b].save.layout]

\* Mutation: the layout is replaced whatever revision it was derived from.
ServeSaveUnconditionally(b) ==
    /\ tab[b].save.pc = "sent"
    /\ server' = Replaced(b)
    /\ tab' = Broadcast(Answer(b, server'.revision), server'.revision, b)
    /\ UNCHANGED <<edits, incidents, troubled, missed, overtaken>>

\* PUT /api/layout; revision 0 stands for the answer 409.
ServeSave(b) ==
    /\ tab[b].save.pc = "sent"
    /\ IF tab[b].save.expected = server.revision
       THEN /\ server' = Replaced(b)
            /\ tab' = Broadcast(Answer(b, server'.revision), server'.revision, b)
       ELSE UNCHANGED server /\ tab' = Answer(b, 0)
    /\ UNCHANGED <<edits, incidents, troubled, missed, overtaken>>
-----------------------------------------------------------------------------
(* Actions: the answers and the messages. *)

\* An initialize() that was overtaken by a later read puts the older layout back, and a
\* reconcile that overtakes the answer to this browser's own save misreads that save.
Overtaken(t, read) == read.for = "initialize" /\ read.revision < t.base
Misread(t, read) == Overtaken(t, read) \/ (read.for = "reconcile" /\ t.save.pc # "none")

ReadReturns(b, i) ==
    LET read == tab[b].reads[i]
        t == [tab[b] EXCEPT !.reads[i] = NoRead]
    IN  /\ read.pc = "answered"
        /\ tab' = [tab EXCEPT ![b] = ReadAnswered(t, read)]
        /\ troubled' = IF Misread(t, read) THEN troubled \cup {b} ELSE troubled
        /\ missed' = IF Misread(t, read) THEN missed \cup {b} ELSE missed
        /\ overtaken' = IF Overtaken(t, read) THEN overtaken \cup {b} ELSE overtaken
        /\ UNCHANGED <<server, edits, incidents>>

SaveReturns(b) ==
    /\ tab[b].save.pc = "answered"
    /\ tab' = [tab EXCEPT ![b] = IF tab[b].save.revision = 0 THEN SaveRefused(tab[b])
                                 ELSE SaveAccepted(tab[b])]
    /\ UNCHANGED <<server, edits, incidents, troubled, missed, overtaken>>

\* A request is lost before it is served, or its answer is.
ReadFails(b, i) ==
    LET read == tab[b].reads[i]
    IN  /\ read.pc \in {"sent", "answered"}
        /\ tab' = [tab EXCEPT ![b] = ReadFailed([@ EXCEPT !.reads[i] = NoRead], read)]
        /\ Incident(b)
        /\ troubled' = troubled \cup {b} /\ missed' = missed \cup {b}
        /\ overtaken' = IF read.for = "initialize" /\ tab[b].base # 0
                        THEN overtaken \cup {b} ELSE overtaken
        /\ UNCHANGED <<server, edits>>

SaveFails(b) ==
    /\ tab[b].save.pc # "none"
    /\ tab' = [tab EXCEPT ![b] = Finish(@)]
    /\ Incident(b)
    /\ troubled' = troubled \cup {b}
    /\ UNCHANGED <<server, edits, missed, overtaken>>

\* Mutation: a browser takes the echo of its own save for somebody else's.
ReceivedEcho(t, b, message) ==
    IF message.type = "snapshot" THEN Begin(t, Send("reconcile"))
    ELSE HandleRemoteLayoutRevision(t, message.revision)

\* onmessage: the snapshot starts reconcileLayout(); the echo of one's own save is consumed.
Received(t, b, message) ==
    IF message.type = "snapshot" THEN Begin(t, Send("reconcile"))
    ELSE IF message.by = b THEN t
    ELSE HandleRemoteLayoutRevision(t, message.revision)

Receive(b) ==
    /\ tab[b].inbox # <<>> /\ FreeSlots(tab[b]) # {}
    /\ tab' = [tab EXCEPT ![b] = Received([tab[b] EXCEPT !.inbox = Tail(@)], b,
                                           Head(tab[b].inbox))]
    /\ UNCHANGED <<server, edits, incidents, troubled, missed, overtaken>>

\* authenticateAndSetup() joins the browser to the broadcasts and sends it the snapshot.
Connect(b) ==
    /\ ~tab[b].online
    /\ tab' = [tab EXCEPT ![b].online = TRUE, ![b].inbox = <<[type |-> "snapshot"]>>]
    /\ missed' = missed \ {b}
    /\ UNCHANGED <<server, edits, incidents, troubled, overtaken>>

Disconnect(b) ==
    /\ tab[b].online
    /\ tab' = [tab EXCEPT ![b].online = FALSE, ![b].inbox = <<>>]
    /\ Incident(b)
    /\ UNCHANGED <<server, edits, troubled, missed, overtaken>>

Next ==
    \E b \in Browsers :
        \/ Edit(b) \/ Reload(b) \/ DebounceFires(b)
        \/ ServeSave(b) \/ SaveReturns(b) \/ SaveFails(b)
        \/ \E i \in Slots(b) : ServeRead(b, i) \/ ServeReadBroken(b, i)
                            \/ ReadReturns(b, i) \/ ReadFails(b, i)
        \/ Receive(b) \/ Connect(b) \/ Disconnect(b)

Spec == Init /\ [][Next]_vars

\* Requests are served and answered, messages arrive, timers fire, and scheduleReconnect()
\* tries until the WebSocket is open again.  Nobody has to edit or reload.
Fairness ==
    \A b \in Browsers :
        /\ WF_vars(DebounceFires(b)) /\ WF_vars(ServeSave(b)) /\ WF_vars(SaveReturns(b))
        /\ \A i \in Slots(b) : WF_vars(ServeRead(b, i)) /\ WF_vars(ReadReturns(b, i))
        /\ WF_vars(Receive(b)) /\ WF_vars(Connect(b))

FairSpec == Spec /\ Fairness
-----------------------------------------------------------------------------
(* Properties. *)

Reads == [pc : {"none", "waiting", "sent", "answered"}, revision : Nat, layout : SUBSET Edits,
          for : {"none", "initialize", "reload", "follow", "reconcile"}]

Saves == [pc : {"none", "sent", "answered"}, expected : Nat, layout : SUBSET Edits,
          revision : Nat, remote : BOOLEAN]

Messages == [type : {"snapshot"}] \cup [type : {"layout"}, revision : Nat, by : Browsers]

Tabs(b) == [view : SUBSET Edits, base : Nat, conflict : BOOLEAN, initialized : BOOLEAN,
            timer : BOOLEAN, requested : BOOLEAN, save : Saves, reads : [Slots(b) -> Reads],
            online : BOOLEAN, inbox : Seq(Messages)]

TypeOK ==
    /\ server \in [revision : Nat \ {0}, layout : SUBSET Edits, by : Browsers \cup {"nobody"},
                   writers : SUBSET Browsers, ever : SUBSET Edits]
    /\ tab = [b \in Browsers |-> tab[b]] /\ \A b \in Browsers : tab[b] \in Tabs(b)
    /\ edits \subseteq Edits /\ incidents \in [Browsers -> Nat]
    /\ troubled \cup missed \cup overtaken \subseteq Browsers

\* PUT /api/layout replaces the whole layout, and still a browser's save never drops what
\* another browser has committed: whatever a save drops, the same browser had made, unless
\* that browser's initialize() was answered, or failed, after a later read.
NoOneElsesWorkIsLost ==
    [][\A e \in server.layout \ server'.layout :
           e[1] = server'.by \/ server'.by \in overtaken]_vars

\* No browser, request or answer is ahead of the server; a read answered at the current
\* revision holds the current layout.
BehindServer(b, t) ==
    /\ {t.base, t.save.expected, t.save.revision} \subseteq 0..server.revision
    /\ \A i \in Slots(b) :
        /\ t.reads[i].revision \in 0..server.revision
        /\ t.reads[i].pc # "answered" => t.reads[i].revision = 0
        /\ t.reads[i].revision = server.revision => t.reads[i].layout = server.layout

Foreign(layout, b) == {e \in layout : e[1] # b}

\* What a browser shows or sends at the server's revision differs from the server's layout
\* by the browser's own edits only, also between the commit of its save and the answer.
InStep(b, t) ==
    LET agrees(layout) == Foreign(layout, b) = Foreign(server.layout, b)
    IN  /\ t.save.pc # "none" => 0 < t.save.expected /\ t.save.expected <= t.base
        /\ t.base = server.revision => agrees(t.view)
        /\ t.save.pc = "sent" /\ t.save.expected = server.revision => agrees(t.save.layout)
        /\ t.save.pc = "answered" /\ t.save.revision = server.revision =>
            /\ agrees(t.view)
            /\ \A i \in Slots(b) :
                t.reads[i].pc = "answered" /\ t.reads[i].revision >= t.base
                    => agrees(t.reads[i].layout)

\* The inductive invariant behind NoOneElsesWorkIsLost.
LayoutInv ==
    /\ TypeOK
    /\ \A b \in Browsers : BehindServer(b, tab[b])
    /\ \A b \in Browsers \ overtaken : InStep(b, tab[b])

\* An edit that a browser shows and the server does not have is on its way to the server,
\* or the operator is told of the conflict, or is reloading: unless a request went wrong,
\* or the browser never learned a revision, handleRemoteLayoutRevision() and the persist
\* loop between them never forget it.
UnsavedWorkIsAccountedFor ==
    \A b \in Browsers \ troubled :
        (tab[b].view \cap Own(b)) \subseteq server.ever
        \/ Busy(tab[b]) \/ tab[b].conflict \/ tab[b].base = 0
        \/ \E i \in Slots(b) : tab[b].reads[i].for = "reload"

\* "Dashboard changed elsewhere" is true: a browser whose requests have not gone wrong is
\* in conflict only if another browser has committed a layout.
ConflictIsReal ==
    \A b \in Browsers \ troubled :
        tab[b].conflict => server.writers \ {b} # {}

\* Passive viewers converge: a browser that has made no edit ends up showing what the
\* server has, through invalidations and the reconcile of each reconnection, whatever the
\* order its reads are answered in.
ViewersConverge ==
    <>[](\A b \in Browsers : Own(b) = {} /\ b \notin missed => tab[b].view = server.layout)

\* "active authors retain their local draft": work that was never saved leaves a browser
\* only when the operator asks for a reload.
DraftsAreRetained ==
    [][\A b \in Browsers :
        (tab[b].view \cap Own(b)) \subseteq (tab'[b].view \cup server.ever)
        \/ \E i \in Slots(b) : tab[b].reads[i].for = "reload" /\ tab'[b].reads[i] = NoRead]_vars
=============================================================================
