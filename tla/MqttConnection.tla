--------------------------- MODULE MqttConnection ---------------------------
(***************************************************************************)
(* MqttService's connection to the broker (src/mqtt/mqtt-service.ts): the  *)
(* attempt, the reconnection loop, and disconnect() followed by connect()  *)
(* with new credentials.                                                   *)
(*                                                                         *)
(* this.client is one field, but several client objects can be alive: each *)
(* attempt creates one, and the listeners of an attempt act on whatever    *)
(* this.client holds when they run.  The state of the service is one       *)
(* record, and every handler is a function of it, so that an action is a   *)
(* handler together with everything that runs before it next yields.       *)
(***************************************************************************)
EXTENDS Naturals, FiniteSets

CONSTANTS
    Credentials,  \* what a client may present to the broker
    Anonymous,    \* presenting nothing
    Callers,      \* callers of reconnectWithCredentials()
    MaxClients,   \* bound: client objects alive at one time
    MaxTimers     \* bound: reconnection timers armed at one time

Clients == 1..MaxClients

ASSUME ConnectionAssumption ==
    /\ Anonymous \in Credentials
    /\ {"startup", "loop", "nobody"} \cap Callers = {}
    /\ MaxClients \in Nat \ {0} /\ MaxTimers \in Nat \ {0}

VARIABLES
    svc,       \* the service: the fields below, its client objects and its callers
    accepting  \* the credentials the broker accepts; {} while it is unreachable

NoClient == [phase |-> "none", as |-> Anonymous, owner |-> "nobody",
             listening |-> FALSE, handlers |-> 0]

NoCall == [pc |-> "idle", on |-> 0, as |-> Anonymous]

Fresh ==
    [client |-> 0,                \* this.client; 0 is null
     state |-> "disconnected",    \* this.connectionState
     armed |-> 0,                 \* reconnection timers that will fire
     timer |-> FALSE,             \* is one of them in this.reconnectTimer?
     intentional |-> FALSE,       \* this.intentionalDisconnect
     credentials |-> Anonymous,
     clients |-> [i \in Clients |-> NoClient],
     calls |-> [c \in Callers |-> NoCall],
     rejected |-> FALSE,          \* connect() was the last to attempt, and failed (history)
     hung |-> FALSE,              \* the last attempt closed without a word (history)
     overlapped |-> FALSE]        \* reconnects have run into each other (history)

-----------------------------------------------------------------------------
(* The steps handlers are made of. *)

\* A client that has closed and is no longer this.client is garbage.
Collect(s) ==
    [s EXCEPT !.clients = [i \in Clients |->
        IF s.clients[i].phase = "closed" /\ i # s.client THEN NoClient ELSE s.clients[i]]]

FreeClients(s) == {i \in Clients : s.clients[i].phase = "none"}

\* attemptConnection(): owner is who awaits it.
AttemptConnection(s, owner) ==
    LET i == CHOOSE i \in FreeClients(s) : TRUE
    IN  Collect([s EXCEPT
            !.state = "connecting", !.client = i, !.rejected = FALSE, !.hung = FALSE,
            !.clients[i] = [NoClient EXCEPT !.phase = "connecting", !.owner = owner,
                                            !.as = s.credentials, !.listening = TRUE]])

StartReconnectionLoop(s) ==
    IF s.intentional THEN s
    ELSE [s EXCEPT !.state = "waiting_retry", !.armed = @ + 1, !.timer = TRUE]

\* cleanup() removes the attempt's listeners from this.client, whichever that is.
Cleanup(s, i) == [s EXCEPT !.clients[i].listening = @ /\ s.client # i]

\* The "close" listeners on client i; they are there if a handler set was attached.
CloseHandlers(s, i) ==
    IF s.clients[i].handlers > 0 /\ s.state = "connected" /\ ~s.intentional
    THEN StartReconnectionLoop([s EXCEPT !.state = "disconnected"])
    ELSE s

\* Mutation: the new credentials are not stored before connect().
ConnectAsBefore(s, c) ==
    AttemptConnection([s EXCEPT !.intentional = FALSE, !.calls[c].pc = "connecting",
                                !.calls[c].on = 0], c)

\* connect(), from reconnectWithCredentials() once disconnect() has resolved.
ConnectAs(s, c) ==
    AttemptConnection(
        [s EXCEPT !.intentional = FALSE, !.credentials = s.calls[c].as,
                  !.calls[c].pc = "connecting", !.calls[c].on = 0], c)

\* The callback of end() in disconnect(), and what reconnectWithCredentials() does next.
Disconnected(s, c) ==
    ConnectAs(Collect([s EXCEPT !.client = 0, !.state = "disconnected"]), c)

\* A promise of attemptConnection() settles.
Resolve(s, owner) ==
    IF owner \in Callers THEN [s EXCEPT !.calls[owner] = NoCall] ELSE s

\* Mutation: a failed attempt of the loop schedules no other.
RejectOnly(s, owner) ==
    IF owner \in Callers THEN [s EXCEPT !.calls[owner] = NoCall, !.rejected = TRUE]
    ELSE [s EXCEPT !.state = "waiting_retry"]

Reject(s, owner) ==
    IF owner \in Callers THEN [s EXCEPT !.calls[owner] = NoCall, !.rejected = TRUE]
    ELSE StartReconnectionLoop(s)

\* onConnect of the attempt that created i.
OnConnect(s, i) ==
    LET t == Cleanup([s EXCEPT !.clients[i].phase = "open"], i)
        u == [t EXCEPT !.state = "connected"]
    IN  Resolve(IF u.client = 0 THEN u ELSE [u EXCEPT !.clients[u.client].handlers = @ + 1],
                s.clients[i].owner)

\* The connection of client i is being closed; without listeners nothing more comes of it.
Closing(s, i) ==
    [s EXCEPT !.clients[i].phase = IF s.clients[i].handlers = 0 THEN "closed" ELSE "ending"]

\* onError of the attempt that created i: it ends this.client, whichever that is.
OnError(s, i) ==
    LET t == Cleanup(Closing(s, i), i)
        u == IF t.client = 0 \/ t.clients[t.client].phase = "closed" THEN t
             ELSE Closing(t, t.client)
    IN  Reject(Collect([u EXCEPT !.client = 0, !.state = "disconnected"]), s.clients[i].owner)
-----------------------------------------------------------------------------
(* Actions. *)

CanAttempt == FreeClients(svc) # {}
WithinBounds == svc'.armed <= MaxTimers

\* connectWithRetry()
ConnectWithRetry ==
    /\ CanAttempt
    /\ svc' = AttemptConnection([svc EXCEPT !.intentional = FALSE], "startup")

Admits(i) == svc.clients[i].as \in accepting

\* The broker accepts the connection of client i.
Connects(i) ==
    /\ svc.clients[i].phase = "connecting" /\ Admits(i)
    /\ svc' = IF svc.clients[i].listening THEN OnConnect(svc, i)
              ELSE [svc EXCEPT !.clients[i].phase = "open"]

\* It refuses it, or cannot be reached.
Fails(i) ==
    /\ svc.clients[i].phase = "connecting" /\ ~Admits(i)
    /\ svc' = IF svc.clients[i].listening THEN OnError(svc, i)
              ELSE Collect(Closing(svc, i))

\* It closes before CONNACK and mqtt.js emits "close" but no "error": nobody listens.
ClosesQuietly(i) ==
    /\ svc.clients[i].phase = "connecting"
    /\ svc' = Collect(CloseHandlers([svc EXCEPT !.clients[i].phase = "closed",
                                                !.hung = @ \/ i = svc.client], i))

\* An established connection is lost, or the broker no longer admits it.
Lost(i) ==
    /\ svc.clients[i].phase = "open" /\ ~Admits(i)
    /\ svc' = Collect(CloseHandlers([svc EXCEPT !.clients[i].phase = "closed"], i))

\* A client that was told to end has closed: its listeners run, then the callback of end().
Ended(i) ==
    /\ svc.clients[i].phase = "ending"
    /\ LET s == Collect(CloseHandlers([svc EXCEPT !.clients[i].phase = "closed"], i))
           waiting == {c \in Callers : svc.calls[c].pc = "ending" /\ svc.calls[c].on = i}
       IN  IF waiting = {} THEN svc' = s
           ELSE \E c \in waiting : FreeClients(Collect([s EXCEPT !.client = 0])) # {}
                                   /\ svc' = Disconnected(s, c)

TimerFires ==
    /\ svc.armed > 0 /\ CanAttempt
    /\ LET s == [svc EXCEPT !.armed = @ - 1, !.timer = FALSE]
       IN  svc' = IF s.intentional THEN s ELSE AttemptConnection(s, "loop")

\* Mutation: the timer is forgotten but not cleared.
TimerLeft(s) == [s EXCEPT !.timer = FALSE]

\* disconnect() cancels the timer it knows of.
ClearTimer(s) == IF s.timer THEN [s EXCEPT !.armed = @ - 1, !.timer = FALSE] ELSE s

\* end(false, callback) on this.client; a client that had closed emits no second "close".
EndClient(s) ==
    [s EXCEPT !.clients[s.client].phase = "ending",
              !.clients[s.client].handlers =
                  IF s.clients[s.client].phase = "closed" THEN 0 ELSE @]

\* reconnectWithCredentials(): ends the current client; end() on a client that is
\* already ending calls back at once.
Reconnect(c, credential) ==
    /\ svc.calls[c] = NoCall /\ CanAttempt
    /\ LET s == ClearTimer([svc EXCEPT !.intentional = TRUE,
                                       !.calls[c] = [pc |-> "ending", on |-> svc.client, as |-> credential],
                                       !.overlapped = @ \/ \E d \in Callers : svc.calls[d] # NoCall])
       IN  IF s.client = 0 \/ s.clients[s.client].phase = "ending"
           THEN svc' = Disconnected(s, c)
           ELSE svc' = EndClient(s)
=============================================================================
