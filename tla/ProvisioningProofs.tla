------------------------- MODULE ProvisioningProofs -------------------------
(***************************************************************************)
(* Proofs about provisioning and the broker connection, for any devices,   *)
(* callers, passwords, crashes and outages.  The handlers of the           *)
(* connection are functions of the service's record: first comes what each *)
(* of them does to its fields, then what an event does to the calls of     *)
(* reconnectWithCredentials() and to the one recovery under way, and at    *)
(* last the invariants.                                                    *)
(***************************************************************************)
EXTENDS Provisioning, TLAPS

ClientType == [phase: {"none", "connecting", "open", "ending", "closed"},
               as: Credentials, listening: BOOLEAN, handlers: Nat,
               owner: Callers \cup {"startup", "loop", "nobody"}]
CallType == [pc: {"idle", "ending", "connecting"}, on: {0} \cup Clients, as: Credentials]

(* The type of the service before the number of its timers is bounded.     *)
Service == [client: {0} \cup Clients,
            state: {"disconnected", "connecting", "connected", "waiting_retry"},
            armed: Nat, timer: BOOLEAN, intentional: BOOLEAN,
            credentials: Credentials,
            clients: [Clients -> ClientType],
            calls: [Callers -> CallType],
            rejected: BOOLEAN, hung: BOOLEAN, overlapped: BOOLEAN]

LEMMA NothingIsTyped ==
    /\ NoClient \in ClientType /\ NoCall \in CallType /\ Fresh \in Service
    /\ NoClient.phase = "none" /\ NoCall.pc = "idle"
<1>1. Anonymous \in Credentials
  BY ConnectionAssumption, Zenon
<1>2. NoClient \in ClientType /\ NoCall \in CallType
  BY <1>1, Zenon DEF NoClient, NoCall, ClientType, CallType
<1>3. Fresh \in Service
  BY <1>1, <1>2, Zenon DEF Fresh, Service
<1> QED BY <1>2, <1>3, Zenon DEF NoClient, NoCall

(* Cardinality is a recursive function of the subsets of its argument: here *)
(* are its first two values.                                               *)
LEMMA OneOrNone == Cardinality({}) = 0 /\ \A x : Cardinality({x}) = 1
<1> DEFINE Step(g, S) == [T \in SUBSET S |-> IF T = {} THEN 0 ELSE 1 + g[T \ {CHOOSE x : x \in T}]]
           Count(S) == CHOOSE g : g = Step(g, S)
<1>1. \A S : Cardinality(S) = Count(S)[S]
  BY Zenon DEF Cardinality
<1> HIDE DEF Step
<1>2. \A S, g : g = Step(g, S) => Count(S) = Step(Count(S), S)
  BY Zenon
<1> HIDE DEF Count
<1>3. Cardinality({}) = 0
  <2>1. PICK f : f = [T \in SUBSET {} |-> 0]
    BY Zenon
  <2>2. f = Step(f, {})
    BY <2>1, Zenon DEF Step
  <2>3. Count({}) = Step(Count({}), {})
    BY <1>2, <2>2, Zenon
  <2> QED BY <1>1, <2>3, Zenon DEF Step
<1>4. ASSUME NEW x PROVE Cardinality({x}) = 1
  <2>1. PICK f : f = [T \in SUBSET {x} |-> IF T = {} THEN 0 ELSE 1]
    BY Zenon
  <2>2. \A T \in SUBSET {x} : T # {} => T \ {CHOOSE y : y \in T} = {}
    <3> SUFFICES ASSUME NEW T \in SUBSET {x}, T # {} PROVE T \ {CHOOSE y : y \in T} = {}
      BY Zenon
    <3>1. T = {x} /\ x \in T
      BY Zenon
    <3>2. (CHOOSE y : y \in T) \in T
      BY <3>1, Zenon
    <3> QED BY <3>1, <3>2, Zenon
  <2>3. f = Step(f, {x})
    BY <2>1, <2>2 DEF Step
  <2>4. Count({x}) = Step(Count({x}), {x})
    BY <1>2, <2>3, Zenon
  <2>5. Count({x})[{x}] = 1 + Count({x})[{}]
    BY <2>2, <2>4, Zenon DEF Step
  <2>6. Count({x})[{}] = 0
    BY <2>4, Zenon DEF Step
  <2> QED BY <1>1, <2>5, <2>6
<1> QED BY <1>3, <1>4, Zenon

(* What a handler leaves alone: the calls, the credentials, the timers.    *)
SameCalls(s, t) ==
    t.calls = s.calls /\ t.credentials = s.credentials /\ t.overlapped = s.overlapped
SameTimers(s, t) ==
    t.armed = s.armed /\ t.timer = s.timer /\ t.intentional = s.intentional
SameOutcome(s, t) == t.rejected = s.rejected /\ t.hung = s.hung

LEMMA CollectDoes ==
    ASSUME NEW s \in Service, NEW t, t = Collect(s)
    PROVE  /\ t \in Service /\ SameCalls(s, t) /\ SameTimers(s, t) /\ SameOutcome(s, t)
           /\ t.client = s.client /\ t.state = s.state
           /\ \A i \in Clients : t.clients[i] =
                IF s.clients[i].phase = "closed" /\ i # s.client THEN NoClient ELSE s.clients[i]
<1> DEFINE new == [i \in Clients |->
             IF s.clients[i].phase = "closed" /\ i # s.client THEN NoClient ELSE s.clients[i]]
<1>1. t = [s EXCEPT !.clients = new]
  BY Zenon DEF Collect
<1>2. new \in [Clients -> ClientType]
  BY NothingIsTyped, Zenon DEF Service
<1> HIDE DEF new
<1>3. t \in Service /\ t.clients = new
  BY <1>1, <1>2, Zenon DEF Service
<1>4. SameCalls(s, t) /\ SameTimers(s, t) /\ SameOutcome(s, t) /\ t.client = s.client /\ t.state = s.state
  BY <1>1, Zenon DEF Service, SameCalls, SameTimers, SameOutcome
<1> QED BY <1>3, <1>4, Zenon DEF new

(* attemptConnection() makes a listening client, which is this.client from *)
(* now on, with the stored credentials; a client that had closed is gone.  *)
Attempted(s, t, owner) ==
    /\ t \in Service /\ SameCalls(s, t) /\ SameTimers(s, t)
    /\ t.state = "connecting" /\ ~t.rejected /\ ~t.hung
    /\ t.client \in Clients /\ s.clients[t.client].phase = "none"
    /\ t.clients[t.client].phase = "connecting" /\ t.clients[t.client].owner = owner
    /\ t.clients[t.client].listening /\ t.clients[t.client].handlers = 0
    /\ \A j \in Clients \ {t.client} :
        t.clients[j] = IF s.clients[j].phase = "closed" THEN NoClient ELSE s.clients[j]

LEMMA AttemptConnectionDoes ==
    ASSUME NEW s \in Service, FreeClients(s) # {}, NEW owner \in Callers \cup {"startup", "loop"},
           NEW t, t = AttemptConnection(s, owner)
    PROVE  Attempted(s, t, owner)
<1>1. PICK i : i = CHOOSE x \in FreeClients(s) : TRUE
  BY Zenon
<1>2. i \in FreeClients(s)
  BY <1>1, Zenon
<1>3. i \in Clients /\ s.clients[i].phase = "none"
  BY <1>2, Zenon DEF FreeClients
<1>4. PICK new : new = [NoClient EXCEPT !.phase = "connecting", !.owner = owner,
                                        !.as = s.credentials, !.listening = TRUE]
  BY Zenon
<1>5. /\ new \in ClientType /\ new.phase = "connecting" /\ new.owner = owner /\ new.listening
      /\ new.handlers = 0
  BY <1>4, Zenon DEF NoClient, ClientType, Service
<1>6. PICK u : u = [s EXCEPT !.state = "connecting", !.client = i, !.rejected = FALSE,
                             !.hung = FALSE, !.clients[i] = new]
  BY Zenon
<1>7. t = Collect(u)
  BY <1>1, <1>4, <1>6, Zenon DEF AttemptConnection
<1>8. u.clients = [s.clients EXCEPT ![i] = new]
  BY <1>6, Zenon DEF Service
<1>9. u \in Service
  BY <1>3, <1>5, <1>6, Zenon DEF Service
<1>10. /\ SameCalls(s, u) /\ SameTimers(s, u) /\ u.state = "connecting" /\ u.client = i
       /\ u.rejected = FALSE /\ u.hung = FALSE
  BY <1>6, Zenon DEF Service, SameCalls, SameTimers
<1>11. /\ t \in Service /\ SameCalls(u, t) /\ SameTimers(u, t) /\ SameOutcome(u, t)
       /\ t.client = u.client /\ t.state = u.state
       /\ \A j \in Clients : t.clients[j] =
            IF u.clients[j].phase = "closed" /\ j # u.client THEN NoClient ELSE u.clients[j]
  BY <1>7, <1>9, CollectDoes
<1>12. s.clients \in [Clients -> ClientType]
  BY Zenon DEF Service
<1>13. t.clients[i] = new
  BY <1>3, <1>5, <1>8, <1>10, <1>11, <1>12
<1>14. \A j \in Clients \ {i} :
         t.clients[j] = IF s.clients[j].phase = "closed" THEN NoClient ELSE s.clients[j]
  BY <1>8, <1>10, <1>11, <1>12
<1>15. SameCalls(s, t) /\ SameTimers(s, t)
  BY <1>10, <1>11, Zenon DEF SameCalls, SameTimers
<1>16. t.state = "connecting" /\ t.client = i /\ t.rejected = FALSE /\ t.hung = FALSE
  BY <1>10, <1>11, Zenon DEF SameOutcome
<1> QED BY <1>3, <1>5, <1>11, <1>13, <1>14, <1>15, <1>16, Zenon DEF Attempted

(* One more timer is armed, unless the disconnection is intentional.       *)
LEMMA StartReconnectionLoopDoes ==
    ASSUME NEW s \in Service, NEW t, t = StartReconnectionLoop(s)
    PROVE  /\ t \in Service /\ SameCalls(s, t) /\ SameOutcome(s, t)
           /\ t.clients = s.clients /\ t.client = s.client /\ t.intentional = s.intentional
           /\ s.intentional => t = s
           /\ ~s.intentional => t.state = "waiting_retry" /\ t.armed = s.armed + 1 /\ t.timer
<1>1. CASE s.intentional
  BY <1>1, Zenon DEF StartReconnectionLoop, SameCalls, SameOutcome
<1>2. CASE ~s.intentional
  <2>1. t = [s EXCEPT !.state = "waiting_retry", !.armed = s.armed + 1, !.timer = TRUE]
    BY <1>2, Zenon DEF StartReconnectionLoop
  <2>2. t \in Service
    <3>1. PICK n \in Nat : n = s.armed + 1
      BY DEF Service
    <3>2. t = [s EXCEPT !.state = "waiting_retry", !.armed = n, !.timer = TRUE]
      BY <2>1, <3>1, Zenon
    <3> QED BY <3>2, Zenon DEF Service
  <2>3. SameCalls(s, t) /\ SameOutcome(s, t)
    BY <2>1, Zenon DEF Service, SameCalls, SameOutcome
  <2>4. /\ t.clients = s.clients /\ t.client = s.client /\ t.intentional = s.intentional
        /\ t.state = "waiting_retry" /\ t.armed = s.armed + 1 /\ t.timer = TRUE
    BY <2>1 DEF Service
  <2> QED BY <1>2, <2>2, <2>3, <2>4, Zenon
<1> QED BY <1>1, <1>2, Zenon

(* The close handlers of client i start the loop when the service thought  *)
(* it was connected.                                                       *)
Alerts(s, i) == s.clients[i].handlers > 0 /\ s.state = "connected" /\ ~s.intentional

LEMMA CloseHandlersDo ==
    ASSUME NEW s \in Service, NEW i, NEW t, t = CloseHandlers(s, i)
    PROVE  /\ t \in Service /\ SameCalls(s, t) /\ SameOutcome(s, t)
           /\ t.clients = s.clients /\ t.client = s.client /\ t.intentional = s.intentional
           /\ ~Alerts(s, i) => t = s
           /\ Alerts(s, i) => t.state = "waiting_retry" /\ t.armed = s.armed + 1 /\ t.timer
<1>1. CASE ~Alerts(s, i)
  <2>1. t = s
    BY <1>1, Zenon DEF CloseHandlers, Alerts
  <2> QED BY <1>1, <2>1, Zenon DEF SameCalls, SameOutcome
<1>2. CASE Alerts(s, i)
  <2>1. PICK u : u = [s EXCEPT !.state = "disconnected"]
    BY Zenon
  <2>2. t = StartReconnectionLoop(u)
    BY <1>2, <2>1, Zenon DEF CloseHandlers, Alerts
  <2>3. /\ u \in Service /\ SameCalls(s, u) /\ SameOutcome(s, u) /\ SameTimers(s, u)
        /\ u.clients = s.clients /\ u.client = s.client
    BY <2>1, Zenon DEF Service, SameCalls, SameOutcome, SameTimers
  <2>4. /\ t \in Service /\ SameCalls(u, t) /\ SameOutcome(u, t)
        /\ t.clients = u.clients /\ t.client = u.client /\ t.intentional = u.intentional
        /\ ~u.intentional => t.state = "waiting_retry" /\ t.armed = u.armed + 1 /\ t.timer
    BY <2>2, <2>3, StartReconnectionLoopDoes
  <2> QED BY <1>2, <2>3, <2>4 DEF Alerts, SameCalls, SameOutcome, SameTimers
<1> QED BY <1>1, <1>2, Zenon

-----------------------------------------------------------------------------
(* The two outcomes of an attempt.                                         *)

(* A caller awaits the attempt of client i.                                *)
Pursued(s, i) ==
    /\ s.clients[i].phase = "connecting" /\ s.clients[i].listening
    /\ s.clients[i].owner \in Callers

(* No attempt is awaited that was not before.                              *)
Fades(s, t) ==
    \A j \in Clients : Pursued(t, j) => Pursued(s, j) /\ t.clients[j].owner = s.clients[j].owner

(* The call that awaited the attempt, if a call did, is over.              *)
CallEnds(s, t, owner) ==
    /\ t.calls = IF owner \in Callers THEN [s.calls EXCEPT ![owner] = NoCall] ELSE s.calls
    /\ t.credentials = s.credentials /\ t.overlapped = s.overlapped

LEMMA ClosingDoes ==
    ASSUME NEW s \in Service, NEW i \in Clients, NEW t, t = Closing(s, i)
    PROVE  /\ t \in Service /\ SameCalls(s, t) /\ SameTimers(s, t) /\ SameOutcome(s, t)
           /\ t.client = s.client /\ t.state = s.state
           /\ t.clients[i].phase = IF s.clients[i].handlers = 0 THEN "closed" ELSE "ending"
           /\ \A j \in Clients \ {i} : t.clients[j] = s.clients[j]
<1>1. PICK phase : phase = IF s.clients[i].handlers = 0 THEN "closed" ELSE "ending"
  BY Zenon
<1>2. PICK new : new = [s.clients[i] EXCEPT !.phase = phase]
  BY Zenon
<1>3. s.clients \in [Clients -> ClientType] /\ s.clients[i] \in ClientType
  BY Zenon DEF Service
<1>4. new \in ClientType /\ new.phase = phase
  BY <1>1, <1>2, <1>3, Zenon DEF ClientType
<1>5. t = [s EXCEPT !.clients = [s.clients EXCEPT ![i] = new]]
  BY <1>1, <1>2, <1>3, Zenon DEF Closing, Service
<1>6. t \in Service /\ t.clients = [s.clients EXCEPT ![i] = new]
  BY <1>3, <1>4, <1>5 DEF Service
<1>7. SameCalls(s, t) /\ SameTimers(s, t) /\ SameOutcome(s, t) /\ t.client = s.client /\ t.state = s.state
  BY <1>5, Zenon DEF Service, SameCalls, SameTimers, SameOutcome
<1>8. t.clients[i] = new /\ \A j \in Clients \ {i} : t.clients[j] = s.clients[j]
  BY <1>3, <1>6, Zenon
<1> QED BY <1>1, <1>4, <1>6, <1>7, <1>8, Zenon

LEMMA CleanupDoes ==
    ASSUME NEW s \in Service, NEW i \in Clients, NEW t, t = Cleanup(s, i)
    PROVE  /\ t \in Service /\ SameCalls(s, t) /\ SameTimers(s, t) /\ SameOutcome(s, t)
           /\ t.client = s.client /\ t.state = s.state
           /\ t.clients[i].phase = s.clients[i].phase /\ t.clients[i].handlers = s.clients[i].handlers
           /\ \A j \in Clients \ {i} : t.clients[j] = s.clients[j]
<1>1. PICK listening : listening = (s.clients[i].listening /\ s.client # i)
  BY Zenon
<1>2. PICK new : new = [s.clients[i] EXCEPT !.listening = listening]
  BY Zenon
<1>3. s.clients \in [Clients -> ClientType] /\ s.clients[i] \in ClientType
  BY DEF Service
<1>4. new \in ClientType /\ new.phase = s.clients[i].phase /\ new.handlers = s.clients[i].handlers
  BY <1>1, <1>2, <1>3, Zenon DEF ClientType
<1>5. t = [s EXCEPT !.clients = [s.clients EXCEPT ![i] = new]]
  BY <1>1, <1>2, <1>3, Zenon DEF Cleanup, Service
<1>6. t \in Service /\ t.clients = [s.clients EXCEPT ![i] = new]
  BY <1>3, <1>4, <1>5 DEF Service
<1>7. SameCalls(s, t) /\ SameTimers(s, t) /\ SameOutcome(s, t) /\ t.client = s.client /\ t.state = s.state
  BY <1>5 DEF Service, SameCalls, SameTimers, SameOutcome
<1>8. t.clients[i] = new /\ \A j \in Clients \ {i} : t.clients[j] = s.clients[j]
  BY <1>3, <1>6
<1> QED BY <1>4, <1>6, <1>7, <1>8, Zenon

LEMMA ResolveDoes ==
    ASSUME NEW s \in Service, NEW owner, NEW t, t = Resolve(s, owner)
    PROVE  /\ t \in Service /\ CallEnds(s, t, owner) /\ SameTimers(s, t) /\ SameOutcome(s, t)
           /\ t.client = s.client /\ t.state = s.state /\ t.clients = s.clients
<1>1. CASE owner \notin Callers
  BY <1>1, Zenon DEF Resolve, CallEnds, SameTimers, SameOutcome
<1>2. CASE owner \in Callers
  <2>1. t = [s EXCEPT !.calls = [s.calls EXCEPT ![owner] = NoCall]]
    BY <1>2, Zenon DEF Resolve, Service
  <2>2. [s.calls EXCEPT ![owner] = NoCall] \in [Callers -> CallType]
    BY <1>2, NothingIsTyped, Zenon DEF Service
  <2>3. t \in Service
    BY <2>1, <2>2, Zenon DEF Service
  <2> QED BY <1>2, <2>1, <2>3, Zenon DEF Service, CallEnds, SameTimers, SameOutcome
<1> QED BY <1>1, <1>2, Zenon

(* A failed attempt is the caller's affair; the others start the loop.     *)
LEMMA RejectDoes ==
    ASSUME NEW s \in Service, NEW owner, NEW t, t = Reject(s, owner)
    PROVE  /\ t \in Service /\ CallEnds(s, t, owner)
           /\ t.client = s.client /\ t.clients = s.clients
           /\ owner \in Callers => SameTimers(s, t) /\ t.rejected /\ t.state = s.state
           /\ owner \notin Callers => t = StartReconnectionLoop(s)
<1>1. CASE owner \notin Callers
  BY <1>1, StartReconnectionLoopDoes DEF Reject, CallEnds, SameCalls
<1>2. CASE owner \in Callers
  <2>1. t = [s EXCEPT !.calls = [s.calls EXCEPT ![owner] = NoCall], !.rejected = TRUE]
    BY <1>2, Zenon DEF Reject, Service
  <2>2. [s.calls EXCEPT ![owner] = NoCall] \in [Callers -> CallType]
    BY <1>2, NothingIsTyped DEF Service
  <2>3. t \in Service
    BY <2>1, <2>2, Zenon DEF Service
  <2>4. CallEnds(s, t, owner) /\ SameTimers(s, t)
    BY <1>2, <2>1, Zenon DEF Service, CallEnds, SameTimers
  <2>5. t.rejected = TRUE /\ t.client = s.client /\ t.state = s.state /\ t.clients = s.clients
    BY <2>1, Zenon DEF Service
  <2> QED BY <1>2, <2>3, <2>4, <2>5, Zenon
<1> QED BY <1>1, <1>2, Zenon

(* onConnect() of client i: this.client, whichever it is, gets a set of    *)
(* handlers, and the promise of the attempt resolves.                      *)
Established(s, t, i) ==
    /\ t \in Service /\ SameTimers(s, t) /\ SameOutcome(s, t)
    /\ CallEnds(s, t, s.clients[i].owner)
    /\ t.client = s.client /\ t.state = "connected"
    /\ Fades(s, t) /\ ~Pursued(t, i)
    /\ \A j \in Clients :
        /\ t.clients[j].phase = IF j = i THEN "open" ELSE s.clients[j].phase
        /\ t.clients[j].handlers = IF j = s.client THEN s.clients[j].handlers + 1
                                   ELSE s.clients[j].handlers

LEMMA OnConnectDoes ==
    ASSUME NEW s \in Service, NEW i \in Clients, NEW t, t = OnConnect(s, i)
    PROVE  Established(s, t, i)
<1> USE DEF SameCalls, SameTimers, SameOutcome
<1> DEFINE a == [s EXCEPT !.clients[i].phase = "open"]
           b == Cleanup(a, i)
           u == [b EXCEPT !.state = "connected"]
           v == IF u.client = 0 THEN u ELSE [u EXCEPT !.clients[u.client].handlers = @ + 1]
<1>1. a = [s EXCEPT !.clients[i].phase = "open"]
  BY Zenon
<1>2. b = Cleanup(a, i)
  BY Zenon
<1>3. u = [b EXCEPT !.state = "connected"]
  BY Zenon
<1>4. v = IF u.client = 0 THEN u ELSE [u EXCEPT !.clients[u.client].handlers = @ + 1]
  BY Zenon
<1>5. t = Resolve(v, s.clients[i].owner)
  BY Zenon DEF OnConnect
<1> HIDE DEF a, b, u, v
<1>6. s.clients \in [Clients -> ClientType]
  BY Zenon DEF Service
<1>7. /\ a \in Service /\ SameCalls(s, a) /\ SameTimers(s, a) /\ SameOutcome(s, a)
      /\ a.client = s.client
      /\ a.clients[i].phase = "open" /\ a.clients[i].handlers = s.clients[i].handlers
      /\ \A j \in Clients \ {i} : a.clients[j] = s.clients[j]
  <2>1. PICK new : new = [s.clients[i] EXCEPT !.phase = "open"]
    BY Zenon
  <2>2. new \in ClientType /\ new.phase = "open" /\ new.handlers = s.clients[i].handlers
    BY <1>6, <2>1, Zenon DEF ClientType
  <2>3. a = [s EXCEPT !.clients = [s.clients EXCEPT ![i] = new]]
    BY <1>1, <2>1, Zenon DEF Service
  <2>4. a \in Service /\ a.clients = [s.clients EXCEPT ![i] = new]
    BY <1>6, <2>2, <2>3, Zenon DEF Service
  <2>5. SameCalls(s, a) /\ SameTimers(s, a) /\ SameOutcome(s, a) /\ a.client = s.client
    BY <2>3, Zenon DEF Service
  <2>6. a.clients[i] = new /\ \A j \in Clients \ {i} : a.clients[j] = s.clients[j]
    BY <1>6, <2>4, Zenon
  <2> QED BY <2>2, <2>4, <2>5, <2>6, Zenon
<1>8. /\ b \in Service /\ SameCalls(a, b) /\ SameTimers(a, b) /\ SameOutcome(a, b)
      /\ b.client = a.client
      /\ b.clients[i].phase = a.clients[i].phase /\ b.clients[i].handlers = a.clients[i].handlers
      /\ \A j \in Clients \ {i} : b.clients[j] = a.clients[j]
  BY <1>2, <1>7, CleanupDoes
<1>9. /\ u \in Service /\ SameCalls(b, u) /\ SameTimers(b, u) /\ SameOutcome(b, u)
      /\ u.client = b.client /\ u.clients = b.clients /\ u.state = "connected"
  BY <1>3, <1>8, Zenon DEF Service
<1>10. /\ v \in Service /\ SameCalls(u, v) /\ SameTimers(u, v) /\ SameOutcome(u, v)
       /\ v.client = u.client /\ v.state = u.state
       /\ \A j \in Clients :
            /\ v.clients[j].phase = u.clients[j].phase /\ v.clients[j].owner = u.clients[j].owner
            /\ v.clients[j].listening = u.clients[j].listening
            /\ v.clients[j].handlers = IF j = u.client THEN u.clients[j].handlers + 1
                                       ELSE u.clients[j].handlers
  <2>1. CASE u.client = 0
    <3>1. v = u /\ 0 \notin Clients
      BY <1>4, <2>1 DEF Clients
    <3> QED BY <1>9, <2>1, <3>1, Zenon
  <2>2. CASE u.client # 0
    <3>1. u.client \in Clients /\ u.clients \in [Clients -> ClientType]
      BY <1>9, <2>2, Zenon DEF Service
    <3>2. PICK old : old = u.clients[u.client]
      BY Zenon
    <3>3. PICK n \in Nat : n = old.handlers + 1
      BY <3>1, <3>2 DEF ClientType
    <3>4. PICK new : new = [old EXCEPT !.handlers = n]
      BY Zenon
    <3>5. /\ new \in ClientType /\ new.phase = old.phase /\ new.owner = old.owner
          /\ new.listening = old.listening /\ new.handlers = n
      BY <3>1, <3>2, <3>3, <3>4 DEF ClientType
    <3>6. v = [u EXCEPT !.clients = [u.clients EXCEPT ![u.client] = new]]
      BY <1>4, <1>9, <2>2, <3>1, <3>2, <3>3, <3>4, Zenon DEF Service
    <3>7. v \in Service /\ v.clients = [u.clients EXCEPT ![u.client] = new]
      BY <1>9, <3>1, <3>5, <3>6, Zenon DEF Service
    <3>8. /\ SameCalls(u, v) /\ SameTimers(u, v) /\ SameOutcome(u, v)
          /\ v.client = u.client /\ v.state = u.state
      BY <1>9, <3>6, Zenon DEF Service
    <3> QED BY <3>1, <3>2, <3>3, <3>5, <3>7, <3>8, Zenon
  <2> QED BY <2>1, <2>2, Zenon
<1>11. /\ t \in Service /\ CallEnds(v, t, s.clients[i].owner) /\ SameTimers(v, t) /\ SameOutcome(v, t)
       /\ t.client = v.client /\ t.state = v.state /\ t.clients = v.clients
  BY <1>5, <1>10, ResolveDoes
<1>12. CallEnds(s, t, s.clients[i].owner)
  BY <1>7, <1>8, <1>9, <1>10, <1>11 DEF CallEnds
<1>13. SameTimers(s, t) /\ SameOutcome(s, t) /\ t.client = s.client /\ t.state = "connected"
  BY <1>7, <1>8, <1>9, <1>10, <1>11
<1>14. \A j \in Clients :
        /\ t.clients[j].phase = IF j = i THEN "open" ELSE s.clients[j].phase
        /\ t.clients[j].handlers = IF j = s.client THEN s.clients[j].handlers + 1
                                   ELSE s.clients[j].handlers
  BY <1>7, <1>8, <1>9, <1>10, <1>11
<1>15. \A j \in Clients \ {i} : t.clients[j].owner = s.clients[j].owner
                                /\ t.clients[j].listening = s.clients[j].listening
  BY <1>7, <1>8, <1>9, <1>10, <1>11
<1>16. ~Pursued(t, i) /\ Fades(s, t)
  BY <1>14, <1>15, Zenon DEF Pursued, Fades
<1> QED BY <1>11, <1>12, <1>13, <1>14, <1>16, Zenon DEF Established

(* onError() of client i: the attempt's client and this.client are ended,  *)
(* this.client is forgotten, and the promise of the attempt rejects.       *)
Refused(s, t, i) ==
    LET owner == s.clients[i].owner
    IN  /\ t \in Service /\ CallEnds(s, t, owner) /\ t.client = 0
        /\ Fades(s, t) /\ ~Pursued(t, i)
        /\ t.intentional = s.intentional
        /\ owner \in Callers \/ s.intentional => t.armed = s.armed /\ t.timer = s.timer
        /\ owner \in Callers => t.rejected /\ t.state = "disconnected"
        /\ owner \notin Callers /\ ~s.intentional =>
            t.state = "waiting_retry" /\ t.armed = s.armed + 1 /\ t.timer
        /\ i = s.client /\ s.clients[i].handlers = 0 =>
            \A j \in Clients : t.clients[j].phase =
                IF j = i \/ s.clients[j].phase = "closed" THEN "none" ELSE s.clients[j].phase

LEMMA OnErrorDoes ==
    ASSUME NEW s \in Service, NEW i \in Clients, NEW t, t = OnError(s, i)
    PROVE  Refused(s, t, i)
<1> DEFINE a == Closing(s, i)
           b == Cleanup(a, i)
           u == IF b.client = 0 \/ b.clients[b.client].phase = "closed" THEN b
                ELSE Closing(b, b.client)
           v == [u EXCEPT !.client = 0, !.state = "disconnected"]
           w == Collect(v)
<1>1. a = Closing(s, i)
  BY Zenon
<1>2. b = Cleanup(a, i)
  BY Zenon
<1>3. u = IF b.client = 0 \/ b.clients[b.client].phase = "closed" THEN b ELSE Closing(b, b.client)
  BY Zenon
<1>4. v = [u EXCEPT !.client = 0, !.state = "disconnected"]
  BY Zenon
<1>5. w = Collect(v)
  BY Zenon
<1>6. t = Reject(w, s.clients[i].owner)
  BY Zenon DEF OnError
<1> HIDE DEF a, b, u, v, w
<1>7. /\ a \in Service /\ SameCalls(s, a) /\ SameTimers(s, a) /\ SameOutcome(s, a)
      /\ a.client = s.client
      /\ a.clients[i].phase = IF s.clients[i].handlers = 0 THEN "closed" ELSE "ending"
      /\ \A j \in Clients \ {i} : a.clients[j] = s.clients[j]
  BY <1>1, ClosingDoes
<1>8. /\ b \in Service /\ SameCalls(a, b) /\ SameTimers(a, b) /\ SameOutcome(a, b)
      /\ b.client = a.client /\ b.clients[i].phase = a.clients[i].phase
      /\ \A j \in Clients \ {i} : b.clients[j] = a.clients[j]
  BY <1>2, <1>7, CleanupDoes
<1>9. /\ u \in Service /\ SameCalls(b, u) /\ SameTimers(b, u)
      /\ \A j \in Clients : u.clients[j] = b.clients[j] \/ u.clients[j].phase \in {"closed", "ending"}
      /\ i = s.client /\ s.clients[i].handlers = 0 => u = b
  <2>1. CASE b.client = 0 \/ b.clients[b.client].phase = "closed"
    <3>1. u = b
      BY <1>3, <2>1, Zenon
    <3> QED BY <1>8, <3>1, Zenon DEF SameCalls, SameTimers
  <2>2. CASE ~(b.client = 0 \/ b.clients[b.client].phase = "closed")
    <3>1. u = Closing(b, b.client) /\ b.client \in Clients
      BY <1>3, <1>8, <2>2, Zenon DEF Service
    <3> PICK k \in Clients : k = b.client
      BY <3>1, Zenon
    <3>4. u = Closing(b, k)
      BY <3>1, Zenon
    <3>2. /\ u \in Service /\ SameCalls(b, u) /\ SameTimers(b, u)
          /\ u.clients[k].phase = IF b.clients[k].handlers = 0 THEN "closed" ELSE "ending"
          /\ \A j \in Clients \ {k} : u.clients[j] = b.clients[j]
      BY <1>8, <3>4, ClosingDoes
    <3>3. ~(i = s.client /\ s.clients[i].handlers = 0)
      BY <1>7, <1>8, <2>2, Zenon
    <3> QED BY <3>2, <3>3, Zenon
  <2> QED BY <2>1, <2>2, Zenon
<1>10. /\ v \in Service /\ SameCalls(u, v) /\ SameTimers(u, v)
       /\ v.client = 0 /\ v.clients = u.clients /\ v.state = "disconnected"
  BY <1>4, <1>9, Zenon DEF Service, SameCalls, SameTimers
<1>11. /\ w \in Service /\ SameCalls(v, w) /\ SameTimers(v, w)
       /\ w.client = v.client /\ w.state = v.state
       /\ \A j \in Clients : w.clients[j] =
            IF v.clients[j].phase = "closed" /\ j # v.client THEN NoClient ELSE v.clients[j]
  BY <1>5, <1>10, CollectDoes
<1> PICK owner : owner = s.clients[i].owner
  BY Zenon
<1>20. t = Reject(w, owner)
  BY <1>6, Zenon
<1>12. /\ t \in Service /\ CallEnds(w, t, owner)
       /\ t.client = w.client /\ t.clients = w.clients
       /\ owner \in Callers => SameTimers(w, t) /\ t.rejected /\ t.state = w.state
       /\ owner \notin Callers => t = StartReconnectionLoop(w)
  BY <1>11, <1>20, RejectDoes
<1>13. CallEnds(s, t, s.clients[i].owner)
  BY <1>7, <1>8, <1>9, <1>10, <1>11, <1>12 DEF CallEnds, SameCalls
<1>14. SameTimers(s, w)
  BY <1>7, <1>8, <1>9, <1>10, <1>11 DEF SameTimers
<1>15. \A j \in Clients :
         \/ j # i /\ t.clients[j] = s.clients[j]
         \/ t.clients[j].phase \in {"closed", "ending", "none"}
  BY <1>7, <1>8, <1>9, <1>10, <1>11, <1>12, NothingIsTyped
<1>16. ~Pursued(t, i) /\ Fades(s, t)
  BY <1>15, Zenon DEF Pursued, Fades
<1>17. i = s.client /\ s.clients[i].handlers = 0 =>
        \A j \in Clients : t.clients[j].phase =
            IF j = i \/ s.clients[j].phase = "closed" THEN "none" ELSE s.clients[j].phase
  <2> SUFFICES ASSUME i = s.client, s.clients[i].handlers = 0, NEW j \in Clients
               PROVE  t.clients[j].phase =
                        IF j = i \/ s.clients[j].phase = "closed" THEN "none" ELSE s.clients[j].phase
    BY Zenon
  <2>1. v.clients[j] = b.clients[j] /\ b.clients[i].phase = "closed"
    BY <1>7, <1>8, <1>9, <1>10, Zenon
  <2>2. j # v.client
    BY <1>10 DEF Clients
  <2>3. t.clients[j] = IF b.clients[j].phase = "closed" THEN NoClient ELSE b.clients[j]
    BY <1>11, <1>12, <2>1, <2>2
  <2>4. j # i => b.clients[j] = s.clients[j]
    BY <1>7, <1>8, Zenon
  <2> QED BY <2>1, <2>3, <2>4, NothingIsTyped, Zenon
<1>18. /\ s.clients[i].owner \in Callers => SameTimers(s, t) /\ t.rejected /\ t.state = "disconnected"
       /\ t.client = 0
  BY <1>10, <1>11, <1>12, <1>14, Zenon DEF SameTimers
<1>19. s.clients[i].owner \notin Callers =>
         /\ t.intentional = s.intentional
         /\ s.intentional => SameTimers(s, t)
         /\ ~s.intentional => t.state = "waiting_retry" /\ t.armed = s.armed + 1 /\ t.timer
  BY <1>11, <1>12, <1>14, StartReconnectionLoopDoes DEF SameTimers
<1> QED BY <1>12, <1>13, <1>16, <1>17, <1>18, <1>19, Zenon DEF Refused, SameTimers

(* The connection of client i is down, and its close handlers have run.    *)
Dropped(s, t, i) ==
    /\ t \in Service /\ SameCalls(s, t) /\ Fades(s, t) /\ ~Pursued(t, i)
    /\ t.client = s.client /\ t.intentional = s.intentional
    /\ Alerts(s, i) => t.state = "waiting_retry" /\ t.armed = s.armed + 1 /\ t.timer
    /\ ~Alerts(s, i) => t.state = s.state /\ SameTimers(s, t)
    /\ t.clients[i].phase = IF i = s.client THEN "closed" ELSE "none"
    /\ \A j \in Clients \ {i} : t.clients[j] =
        IF s.clients[j].phase = "closed" /\ j # s.client THEN NoClient ELSE s.clients[j]

LEMMA DropDoes ==
    ASSUME NEW s \in Service, NEW i \in Clients, NEW hung \in BOOLEAN, NEW t,
           t = Collect(CloseHandlers([s EXCEPT !.clients[i].phase = "closed", !.hung = hung], i))
    PROVE  Dropped(s, t, i) /\ t.hung = hung
<1> DEFINE a == [s EXCEPT !.clients[i].phase = "closed", !.hung = hung]
           b == CloseHandlers(a, i)
<1>1. a = [s EXCEPT !.clients[i].phase = "closed", !.hung = hung]
  BY Zenon
<1>2. b = CloseHandlers(a, i)
  BY Zenon
<1>3. t = Collect(b)
  BY Zenon
<1> HIDE DEF a, b
<1>4. s.clients \in [Clients -> ClientType] /\ s.clients[i] \in ClientType
  BY Zenon DEF Service
<1>5. PICK new : new = [s.clients[i] EXCEPT !.phase = "closed"]
  BY Zenon
<1>6. new \in ClientType /\ new.phase = "closed" /\ new.handlers = s.clients[i].handlers
  BY <1>4, <1>5, Zenon DEF ClientType
<1>7. a = [s EXCEPT !.clients = [s.clients EXCEPT ![i] = new], !.hung = hung]
  BY <1>1, <1>5, Zenon DEF Service
<1>8. a \in Service /\ a.clients = [s.clients EXCEPT ![i] = new] /\ a.hung = hung
  BY <1>4, <1>6, <1>7, Zenon DEF Service
<1>9. SameCalls(s, a) /\ SameTimers(s, a) /\ a.client = s.client /\ a.state = s.state
  BY <1>7, Zenon DEF Service, SameCalls, SameTimers
<1>10. a.clients[i] = new /\ \A j \in Clients \ {i} : a.clients[j] = s.clients[j]
  BY <1>4, <1>8, Zenon
<1>11. Alerts(a, i) <=> Alerts(s, i)
  BY <1>6, <1>9, <1>10, Zenon DEF Alerts, SameTimers
<1>12. /\ b \in Service /\ SameCalls(a, b) /\ SameOutcome(a, b)
       /\ b.clients = a.clients /\ b.client = a.client /\ b.intentional = a.intentional
       /\ ~Alerts(a, i) => b = a
       /\ Alerts(a, i) => b.state = "waiting_retry" /\ b.armed = a.armed + 1 /\ b.timer
  BY <1>2, <1>8, CloseHandlersDo
<1>13. /\ t \in Service /\ SameCalls(b, t) /\ SameTimers(b, t) /\ SameOutcome(b, t)
       /\ t.client = b.client /\ t.state = b.state
       /\ \A j \in Clients : t.clients[j] =
            IF b.clients[j].phase = "closed" /\ j # b.client THEN NoClient ELSE b.clients[j]
  BY <1>3, <1>12, CollectDoes
<1>14. t.hung = hung
  BY <1>8, <1>12, <1>13, Zenon DEF SameOutcome
<1>15. SameCalls(s, t) /\ t.client = s.client /\ t.intentional = s.intentional
  BY <1>9, <1>12, <1>13 DEF SameCalls, SameTimers
<1>16. Alerts(s, i) => t.state = "waiting_retry" /\ t.armed = s.armed + 1 /\ t.timer
  BY <1>9, <1>11, <1>12, <1>13, Zenon DEF SameTimers
<1>17. ~Alerts(s, i) => t.state = s.state /\ SameTimers(s, t)
  BY <1>9, <1>11, <1>12, <1>13, Zenon DEF SameTimers
<1>18. t.clients[i].phase = IF i = s.client THEN "closed" ELSE "none"
  BY <1>6, <1>9, <1>10, <1>12, <1>13, NothingIsTyped
<1>19. \A j \in Clients \ {i} : t.clients[j] =
         IF s.clients[j].phase = "closed" /\ j # s.client THEN NoClient ELSE s.clients[j]
  BY <1>9, <1>10, <1>12, <1>13
<1>20. ~Pursued(t, i) /\ Fades(s, t)
  BY <1>18, <1>19, NothingIsTyped DEF Pursued, Fades
<1> QED BY <1>13, <1>14, <1>15, <1>16, <1>17, <1>18, <1>19, <1>20, Zenon DEF Dropped

(* The end of the old connection lets connect() proceed: the credentials   *)
(* of the call are stored, and a new attempt is made for it.               *)
Replaced(s, t, c) ==
    /\ t \in Service
    /\ t.credentials = s.calls[c].as /\ t.overlapped = s.overlapped
    /\ t.calls[c].pc = "connecting" /\ \A d \in Callers \ {c} : t.calls[d] = s.calls[d]
    /\ t.armed = s.armed /\ t.timer = s.timer /\ ~t.intentional
    /\ t.state = "connecting" /\ ~t.rejected /\ ~t.hung
    /\ t.client \in Clients
    /\ t.clients[t.client].phase = "connecting" /\ t.clients[t.client].owner = c
    /\ t.clients[t.client].listening /\ t.clients[t.client].handlers = 0
    /\ \A j \in Clients \ {t.client} :
        t.clients[j] = IF s.clients[j].phase = "closed" THEN NoClient ELSE s.clients[j]

LEMMA DisconnectedDoes ==
    ASSUME NEW s \in Service, NEW c \in Callers, NEW t, t = Disconnected(s, c),
           \E j \in Clients : s.clients[j].phase \in {"none", "closed"}
    PROVE  Replaced(s, t, c)
<1> DEFINE a == [s EXCEPT !.client = 0, !.state = "disconnected"]
           b == Collect(a)
           u == [b EXCEPT !.intentional = FALSE, !.credentials = b.calls[c].as,
                          !.calls[c].pc = "connecting", !.calls[c].on = 0]
<1>1. a = [s EXCEPT !.client = 0, !.state = "disconnected"]
  BY Zenon
<1>2. b = Collect(a)
  BY Zenon
<1>3. u = [b EXCEPT !.intentional = FALSE, !.credentials = b.calls[c].as,
                    !.calls[c].pc = "connecting", !.calls[c].on = 0]
  BY Zenon
<1>4. t = AttemptConnection(u, c)
  BY Zenon DEF Disconnected, ConnectAs
<1> HIDE DEF a, b, u
<1>5. /\ a \in Service /\ SameCalls(s, a) /\ SameTimers(s, a)
      /\ a.client = 0 /\ a.clients = s.clients
  BY <1>1, Zenon DEF Service, SameCalls, SameTimers
<1>6. /\ b \in Service /\ SameCalls(a, b) /\ SameTimers(a, b)
      /\ \A j \in Clients : b.clients[j] =
           IF a.clients[j].phase = "closed" /\ j # a.client THEN NoClient ELSE a.clients[j]
  BY <1>2, <1>5, CollectDoes
<1>7. \A j \in Clients : b.clients[j] =
        IF s.clients[j].phase = "closed" THEN NoClient ELSE s.clients[j]
  BY <1>5, <1>6 DEF Clients
<1>8. b.calls \in [Callers -> CallType] /\ b.calls[c] \in CallType
  BY <1>6, Zenon DEF Service
<1>9. PICK call : call = [b.calls[c] EXCEPT !.pc = "connecting", !.on = 0]
  BY Zenon
<1>10. call \in CallType /\ call.pc = "connecting" /\ b.calls[c].as \in Credentials
  BY <1>8, <1>9, Zenon DEF CallType
<1>11. u = [b EXCEPT !.intentional = FALSE, !.credentials = b.calls[c].as,
                     !.calls = [b.calls EXCEPT ![c] = call]]
  BY <1>3, <1>6, <1>8, <1>9, Zenon DEF Service
<1>12. u \in Service
  BY <1>6, <1>8, <1>10, <1>11, Zenon DEF Service
<1>13. /\ u.intentional = FALSE /\ u.credentials = b.calls[c].as
       /\ u.calls = [b.calls EXCEPT ![c] = call] /\ u.clients = b.clients
       /\ u.armed = b.armed /\ u.timer = b.timer /\ u.overlapped = b.overlapped
  BY <1>6, <1>11, Zenon DEF Service
<1>14. FreeClients(u) # {}
  BY <1>7, <1>13, NothingIsTyped DEF FreeClients
<1>15. Attempted(u, t, c)
  BY <1>4, <1>12, <1>14, AttemptConnectionDoes, Zenon
<1>16. t.calls = [b.calls EXCEPT ![c] = call] /\ b.calls = s.calls
  BY <1>5, <1>6, <1>13, <1>15 DEF Attempted, SameCalls
<1>17. t.calls[c].pc = "connecting" /\ \A d \in Callers \ {c} : t.calls[d] = s.calls[d]
  BY <1>8, <1>10, <1>16
<1>18. /\ t.credentials = s.calls[c].as /\ t.overlapped = s.overlapped
       /\ t.armed = s.armed /\ t.timer = s.timer /\ t.intentional = FALSE
  BY <1>5, <1>6, <1>13, <1>15 DEF Attempted, SameCalls, SameTimers
<1>19. \A j \in Clients \ {t.client} :
         t.clients[j] = IF s.clients[j].phase = "closed" THEN NoClient ELSE s.clients[j]
  BY <1>7, <1>13, <1>15, NothingIsTyped DEF Attempted
<1> QED BY <1>15, <1>17, <1>18, <1>19, Zenon DEF Attempted, Replaced

-----------------------------------------------------------------------------
(* reconnectWithCredentials(), up to the end of the old connection.        *)

Begun(s, t, c, credential) ==
    /\ t \in Service
    /\ t.calls = [s.calls EXCEPT ![c] = [pc |-> "ending", on |-> s.client, as |-> credential]]
    /\ t.credentials = s.credentials
    /\ t.overlapped = (s.overlapped \/ \E d \in Callers : s.calls[d] # NoCall)
    /\ t.intentional /\ ~t.timer
    /\ t.armed = IF s.timer THEN s.armed - 1 ELSE s.armed
    /\ t.client = s.client /\ t.state = s.state /\ t.clients = s.clients

Ceases(s, t) ==
    /\ t \in Service /\ SameCalls(s, t) /\ SameTimers(s, t)
    /\ t.client = s.client /\ t.state = s.state
    /\ t.clients[s.client].phase = "ending"
    /\ \A j \in Clients \ {s.client} : t.clients[j] = s.clients[j]

LEMMA ClearTimerDoes ==
    ASSUME NEW s \in Service, s.timer => s.armed > 0, NEW c \in Callers,
           NEW credential \in Credentials, NEW t,
           t = ClearTimer([s EXCEPT
                   !.intentional = TRUE,
                   !.calls[c] = [pc |-> "ending", on |-> s.client, as |-> credential],
                   !.overlapped = @ \/ \E d \in Callers : s.calls[d] # NoCall])
    PROVE  Begun(s, t, c, credential)
<1>1. PICK call : call = [pc |-> "ending", on |-> s.client, as |-> credential]
  BY Zenon
<1>2. call \in CallType
  BY <1>1, Zenon DEF CallType, Service
<1>3. PICK over \in BOOLEAN : over = (s.overlapped \/ \E d \in Callers : s.calls[d] # NoCall)
  BY Zenon DEF Service
<1>4. PICK a : a = [s EXCEPT !.intentional = TRUE, !.calls = [s.calls EXCEPT ![c] = call],
                             !.overlapped = over]
  BY Zenon
<1>5. a = [s EXCEPT
             !.intentional = TRUE,
             !.calls[c] = [pc |-> "ending", on |-> s.client, as |-> credential],
             !.overlapped = @ \/ \E d \in Callers : s.calls[d] # NoCall]
  BY <1>1, <1>3, <1>4, Zenon DEF Service
<1>6. t = ClearTimer(a)
  BY <1>5, Zenon
<1>7. a \in Service
  BY <1>2, <1>4, ZenonT(60) DEF Service
<1>8. /\ a.intentional = TRUE /\ a.calls = [s.calls EXCEPT ![c] = call] /\ a.overlapped = over
      /\ a.credentials = s.credentials /\ a.timer = s.timer /\ a.armed = s.armed
      /\ a.client = s.client /\ a.state = s.state /\ a.clients = s.clients
  BY <1>4, Zenon DEF Service
<1>9. CASE ~s.timer
  <2>1. t = a
    BY <1>6, <1>8, <1>9, Zenon DEF ClearTimer
  <2> QED BY <1>1, <1>3, <1>7, <1>8, <1>9, <2>1 DEF Begun
<1>10. CASE s.timer
  <2>1. PICK n \in Nat : n = s.armed - 1
    BY <1>10 DEF Service
  <2>2. t = [a EXCEPT !.armed = n, !.timer = FALSE]
    BY <1>6, <1>8, <1>10, <2>1, Zenon DEF ClearTimer
  <2>3. t \in Service
    BY <1>7, <2>2, Zenon DEF Service
  <2>4. /\ t.intentional = TRUE /\ t.calls = [s.calls EXCEPT ![c] = call] /\ t.overlapped = over
        /\ t.credentials = s.credentials /\ t.timer = FALSE /\ t.armed = n
        /\ t.client = s.client /\ t.state = s.state /\ t.clients = s.clients
    BY <1>7, <1>8, <2>2, ZenonT(60) DEF Service
  <2> QED BY <1>1, <1>3, <1>10, <2>1, <2>3, <2>4 DEF Begun
<1> QED BY <1>9, <1>10, Zenon

LEMMA EndClientDoes ==
    ASSUME NEW s \in Service, s.client # 0, NEW t, t = EndClient(s)
    PROVE  Ceases(s, t)
<1>1. PICK i \in Clients : i = s.client
  BY Zenon DEF Service
<1>2. s.clients \in [Clients -> ClientType] /\ s.clients[i] \in ClientType
  BY Zenon DEF Service
<1>3. PICK n \in Nat : n = IF s.clients[i].phase = "closed" THEN 0 ELSE s.clients[i].handlers
  BY <1>2, Zenon DEF ClientType
<1>4. PICK new : new = [s.clients[i] EXCEPT !.phase = "ending", !.handlers = n]
  BY Zenon
<1>5. new \in ClientType /\ new.phase = "ending"
  BY <1>2, <1>4, Zenon DEF ClientType
<1>6. t = [s EXCEPT !.clients = [s.clients EXCEPT ![i] = new]]
  BY <1>1, <1>2, <1>3, <1>4, ZenonT(60) DEF EndClient, Service, ClientType
<1>7. t \in Service /\ t.clients = [s.clients EXCEPT ![i] = new]
  BY <1>2, <1>5, <1>6 DEF Service
<1>8. SameCalls(s, t) /\ SameTimers(s, t) /\ t.client = s.client /\ t.state = s.state
  BY <1>6, Zenon DEF Service, SameCalls, SameTimers
<1> QED BY <1>1, <1>2, <1>5, <1>7, <1>8, Zenon DEF Ceases

(* The old connection ends now, or its end is awaited.                     *)
Reconnects(s, t, c, credential) ==
    \E m : /\ Begun(s, m, c, credential)
           /\ \/ m.client # 0 /\ m.clients[m.client].phase # "ending" /\ Ceases(m, t)
              \/ (m.client = 0 \/ m.clients[m.client].phase = "ending") /\ Replaced(m, t, c)

LEMMA ReconnectDoes ==
    ASSUME svc \in Service, svc.timer => svc.armed > 0, NEW c \in Callers,
           NEW credential \in Credentials, Reconnect(c, credential)
    PROVE  Reconnects(svc, svc', c, credential) /\ svc.calls[c] = NoCall
<1>1. PICK m : m = ClearTimer([svc EXCEPT
                     !.intentional = TRUE,
                     !.calls[c] = [pc |-> "ending", on |-> svc.client, as |-> credential],
                     !.overlapped = @ \/ \E d \in Callers : svc.calls[d] # NoCall])
  BY Zenon
<1>2. /\ svc.calls[c] = NoCall /\ CanAttempt
      /\ IF m.client = 0 \/ m.clients[m.client].phase = "ending"
         THEN svc' = Disconnected(m, c) ELSE svc' = EndClient(m)
  BY <1>1, Zenon DEF Reconnect
<1>3. PICK s \in Service : s = svc
  BY Zenon
<1>4. m = ClearTimer([s EXCEPT
             !.intentional = TRUE,
             !.calls[c] = [pc |-> "ending", on |-> s.client, as |-> credential],
             !.overlapped = @ \/ \E d \in Callers : s.calls[d] # NoCall])
  BY <1>1, <1>3, ZenonT(60)
<1>5. Begun(s, m, c, credential)
  BY <1>3, <1>4, ClearTimerDoes, Zenon
<1>6. m \in Service /\ m.clients = s.clients
  BY <1>5, Zenon DEF Begun
<1>7. CASE m.client = 0 \/ m.clients[m.client].phase = "ending"
  <2>1. \E j \in Clients : m.clients[j].phase \in {"none", "closed"}
    BY <1>2, <1>3, <1>6, Zenon DEF CanAttempt, FreeClients
  <2>2. Replaced(m, svc', c)
    BY <1>2, <1>6, <1>7, <2>1, DisconnectedDoes
  <2> QED BY <1>2, <1>3, <1>5, <1>7, <2>2, Zenon DEF Reconnects
<1>8. CASE ~(m.client = 0 \/ m.clients[m.client].phase = "ending")
  <2>1. Ceases(m, svc')
    BY <1>2, <1>6, <1>8, EndClientDoes, Zenon
  <2> QED BY <1>2, <1>3, <1>5, <1>8, <2>1 DEF Reconnects
<1> QED BY <1>7, <1>8, Zenon

-----------------------------------------------------------------------------
(* What the events mean for the calls of reconnectWithCredentials().       *)

TimersOf(s) == s.timer => s.armed > 0

(* Nobody's call begins, proceeds or ends.                                 *)
Quiet(s, t) == t \in Service /\ TimersOf(t) /\ SameCalls(s, t) /\ Fades(s, t)

(* The attempt of client i settles, and the call that awaited it ends.     *)
Settled(s, t, i) ==
    /\ t \in Service /\ TimersOf(t)
    /\ CallEnds(s, t, s.clients[i].owner) /\ Fades(s, t) /\ ~Pursued(t, i)

LEMMA AttemptIsQuiet ==
    ASSUME NEW s \in Service, TimersOf(s), NEW owner \in {"startup", "loop"}, NEW t,
           Attempted(s, t, owner)
    PROVE  Quiet(s, t)
<1>1. t \in Service /\ SameCalls(s, t) /\ SameTimers(s, t)
  BY Zenon DEF Attempted
<1>2. TimersOf(t)
  BY <1>1, Zenon DEF TimersOf, SameTimers
<1>3. owner \notin Callers
  BY ConnectionAssumption, Zenon
<1>4. ASSUME NEW j \in Clients, Pursued(t, j)
      PROVE  Pursued(s, j) /\ t.clients[j].owner = s.clients[j].owner
  <2>1. j # t.client
    BY <1>3, <1>4, Zenon DEF Attempted, Pursued
  <2>2. t.clients[j] = IF s.clients[j].phase = "closed" THEN NoClient ELSE s.clients[j]
    BY <2>1, Zenon DEF Attempted
  <2>3. t.clients[j] = s.clients[j]
    BY <1>4, <2>2, NothingIsTyped DEF Pursued
  <2> QED BY <1>4, <2>3, Zenon DEF Pursued
<1> QED BY <1>1, <1>2, <1>4 DEF Quiet, Fades

LEMMA DropIsQuiet ==
    ASSUME NEW s \in Service, TimersOf(s), NEW i \in Clients, NEW t, Dropped(s, t, i)
    PROVE  Quiet(s, t)
<1>1. t \in Service /\ SameCalls(s, t) /\ Fades(s, t)
  BY Zenon DEF Dropped
<1>2. TimersOf(t)
  <2>1. s.armed \in Nat
    BY Zenon DEF Service
  <2>2. CASE Alerts(s, i)
    <3>1. t.armed = s.armed + 1
      BY <2>2, Zenon DEF Dropped
    <3> QED BY <2>1, <3>1 DEF TimersOf
  <2>3. CASE ~Alerts(s, i)
    <3>1. t.armed = s.armed /\ t.timer = s.timer
      BY <2>3, Zenon DEF Dropped, SameTimers
    <3> QED BY <3>1, Zenon DEF TimersOf
  <2> QED BY <2>2, <2>3, Zenon
<1> QED BY <1>1, <1>2, Zenon DEF Quiet

(* The steps of the timer: it is gone, and unless the service is told to   *)
(* disconnect, an attempt follows.                                         *)
Fired(s, t) ==
    \E m : /\ m \in Service /\ SameCalls(s, m) /\ SameOutcome(s, m)
           /\ m.client = s.client /\ m.state = s.state /\ m.clients = s.clients
           /\ m.intentional = s.intentional /\ ~m.timer /\ m.armed = s.armed - 1
           /\ IF s.intentional THEN t = m ELSE Attempted(m, t, "loop")

LEMMA TimerDoes ==
    ASSUME svc \in Service, TimerFires
    PROVE  Fired(svc, svc') /\ Quiet(svc, svc') /\ svc.armed > 0
<1>1. PICK s \in Service : s = svc
  BY Zenon
<1>2. PICK m : m = [s EXCEPT !.armed = s.armed - 1, !.timer = FALSE]
  BY Zenon
<1>3. /\ s.armed > 0 /\ FreeClients(s) # {}
      /\ svc' = IF m.intentional THEN m ELSE AttemptConnection(m, "loop")
  BY <1>1, <1>2, Zenon DEF TimerFires, CanAttempt
<1>4. PICK n \in Nat : n = s.armed - 1
  BY <1>3 DEF Service
<1>5. m = [s EXCEPT !.armed = n, !.timer = FALSE]
  BY <1>2, <1>4, Zenon
<1>6. m \in Service
  BY <1>5, Zenon DEF Service
<1>7. /\ SameCalls(s, m) /\ SameOutcome(s, m)
      /\ m.client = s.client /\ m.state = s.state /\ m.clients = s.clients
      /\ m.intentional = s.intentional /\ m.timer = FALSE /\ m.armed = n
  BY <1>5 DEF Service, SameCalls, SameOutcome
<1>8. FreeClients(m) # {} /\ TimersOf(m)
  BY <1>3, <1>7, Zenon DEF FreeClients, TimersOf
<1>9. CASE s.intentional
  <2>1. svc' = m
    BY <1>3, <1>7, <1>9, Zenon
  <2>2. Quiet(s, m)
    BY <1>6, <1>7, <1>8, Zenon DEF Quiet, Fades, Pursued
  <2> QED BY <1>1, <1>3, <1>4, <1>6, <1>7, <1>9, <2>1, <2>2, Zenon DEF Fired
<1>10. CASE ~s.intentional
  <2>1. svc' = AttemptConnection(m, "loop")
    BY <1>3, <1>7, <1>10, Zenon
  <2>2. Attempted(m, svc', "loop")
    BY <1>6, <1>8, <2>1, AttemptConnectionDoes, Zenon
  <2>3. Quiet(m, svc')
    BY <1>6, <1>8, <2>2, AttemptIsQuiet, Zenon
  <2>4. Quiet(s, svc')
    BY <1>7, <2>3, Zenon DEF Quiet, SameCalls, Fades, Pursued
  <2> QED BY <1>1, <1>3, <1>4, <1>6, <1>7, <1>10, <2>2, <2>4, Zenon DEF Fired
<1> QED BY <1>9, <1>10

(* connectWithRetry() at startup. *)
LEMMA ConnectWithRetryDoes ==
    ASSUME svc \in Service, TimersOf(svc), ConnectWithRetry
    PROVE  /\ Quiet(svc, svc')
           /\ \E m : /\ m \in Service /\ m.clients = svc.clients /\ SameCalls(svc, m)
                     /\ m.armed = svc.armed /\ m.timer = svc.timer /\ ~m.intentional
                     /\ Attempted(m, svc', "startup")
<1>1. PICK m : m = [svc EXCEPT !.intentional = FALSE]
  BY Zenon
<1>2. /\ m \in Service /\ m.clients = svc.clients /\ SameCalls(svc, m)
      /\ m.armed = svc.armed /\ m.timer = svc.timer /\ m.intentional = FALSE
  BY <1>1, Zenon DEF Service, SameCalls
<1>3. svc' = AttemptConnection(m, "startup") /\ FreeClients(m) # {}
  BY <1>1, <1>2, Zenon DEF ConnectWithRetry, CanAttempt, FreeClients
<1>4. Attempted(m, svc', "startup")
  BY <1>2, <1>3, AttemptConnectionDoes, Zenon
<1>5. Quiet(m, svc')
  BY <1>2, <1>4, AttemptIsQuiet, Zenon DEF TimersOf
<1> QED BY <1>2, <1>4, <1>5, Zenon DEF Quiet, SameCalls, Fades, Pursued

LEMMA ClosesQuietlyDoes ==
    ASSUME svc \in Service, TimersOf(svc), NEW i \in Clients, ClosesQuietly(i)
    PROVE  /\ Dropped(svc, svc', i) /\ Quiet(svc, svc')
           /\ svc'.hung <=> (svc.hung \/ i = svc.client)
<1>1. PICK s \in Service : s = svc
  BY Zenon
<1>2. PICK hung \in BOOLEAN : hung = (s.hung \/ i = s.client)
  BY Zenon DEF Service
<1>3. svc' = Collect(CloseHandlers([s EXCEPT !.clients[i].phase = "closed", !.hung = hung], i))
  BY <1>1, <1>2, Zenon DEF ClosesQuietly, Service
<1>4. Dropped(s, svc', i) /\ svc'.hung = hung
  BY <1>3, DropDoes, Zenon
<1> QED BY <1>1, <1>2, <1>4, DropIsQuiet, Zenon

LEMMA LostDoes ==
    ASSUME svc \in Service, TimersOf(svc), NEW i \in Clients, Lost(i)
    PROVE  Dropped(svc, svc', i) /\ Quiet(svc, svc')
<1>1. PICK s \in Service : s = svc
  BY Zenon
<1>2. PICK hung \in BOOLEAN : hung = s.hung
  BY Zenon DEF Service
<1>3. [s EXCEPT !.clients[i].phase = "closed"]
      = [s EXCEPT !.clients[i].phase = "closed", !.hung = hung]
  BY <1>2, Zenon DEF Service
<1>4. svc' = Collect(CloseHandlers([s EXCEPT !.clients[i].phase = "closed", !.hung = hung], i))
  BY <1>1, <1>3, Zenon DEF Lost
<1>5. Dropped(s, svc', i)
  BY <1>4, DropDoes, Zenon
<1> QED BY <1>1, <1>5, DropIsQuiet, Zenon

(* A client that was ended has closed; a call that waited for it proceeds. *)
Finished(s, t, i) ==
    \E m : /\ Dropped(s, m, i) /\ Quiet(s, m)
           /\ \/ /\ t = m
                 /\ ~\E c \in Callers : s.calls[c].pc = "ending" /\ s.calls[c].on = i
              \/ \E c \in Callers : /\ s.calls[c].pc = "ending" /\ s.calls[c].on = i
                                    /\ Replaced(m, t, c)

LEMMA EndedDoes ==
    ASSUME svc \in Service, TimersOf(svc), NEW i \in Clients, Ended(i)
    PROVE  Finished(svc, svc', i)
<1>1. PICK s \in Service : s = svc
  OBVIOUS
<1>2. PICK hung \in BOOLEAN : hung = s.hung
  BY DEF Service
<1>3. PICK m : m = Collect(CloseHandlers([s EXCEPT !.clients[i].phase = "closed"], i))
  BY Zenon
<1>4. PICK waiting : waiting = {c \in Callers : s.calls[c].pc = "ending" /\ s.calls[c].on = i}
  BY Zenon
<1>5. [s EXCEPT !.clients[i].phase = "closed"]
      = [s EXCEPT !.clients[i].phase = "closed", !.hung = hung]
  BY <1>2, Zenon DEF Service
<1>6. m = Collect(CloseHandlers([s EXCEPT !.clients[i].phase = "closed", !.hung = hung], i))
  BY <1>3, <1>5, Zenon
<1>7. Dropped(s, m, i)
  BY <1>6, DropDoes, Zenon
<1>8. Quiet(s, m) /\ m \in Service
  BY <1>1, <1>7, DropIsQuiet DEF Dropped
<1>9. IF waiting = {} THEN svc' = m
      ELSE \E c \in waiting : FreeClients(Collect([m EXCEPT !.client = 0])) # {}
                              /\ svc' = Disconnected(m, c)
  BY <1>1, <1>3, <1>4, Zenon DEF Ended
<1>10. CASE waiting = {}
  BY <1>1, <1>4, <1>7, <1>8, <1>9, <1>10 DEF Finished
<1>11. CASE waiting # {}
  <2>1. PICK c \in waiting : FreeClients(Collect([m EXCEPT !.client = 0])) # {}
                             /\ svc' = Disconnected(m, c)
    BY <1>9, <1>11, Zenon
  <2>2. c \in Callers /\ s.calls[c].pc = "ending" /\ s.calls[c].on = i
    BY <1>4, <2>1, Zenon
  <2>3. PICK a : a = [m EXCEPT !.client = 0]
    BY Zenon
  <2>4. a \in Service /\ a.clients = m.clients
    BY <1>8, <2>3, Zenon DEF Service
  <2>5. PICK b : b = Collect(a)
    BY Zenon
  <2>6. \A j \in Clients : b.clients[j] =
          IF a.clients[j].phase = "closed" /\ j # a.client THEN NoClient ELSE a.clients[j]
    BY <2>4, <2>5, CollectDoes
  <2>7. PICK j \in Clients : b.clients[j].phase = "none"
    BY <2>1, <2>3, <2>5, Zenon DEF FreeClients
  <2>8. m.clients[j].phase \in {"none", "closed"}
    BY <2>4, <2>6, <2>7, Zenon
  <2>9. Replaced(m, svc', c)
    BY <1>8, <2>1, <2>2, <2>8, DisconnectedDoes
  <2> QED BY <1>1, <1>7, <1>8, <2>2, <2>9 DEF Finished
<1> QED BY <1>10, <1>11, Zenon

LEMMA ConnectsDoes ==
    ASSUME svc \in Service, TimersOf(svc), NEW i \in Clients, Connects(i)
    PROVE  /\ svc.clients[i].listening => Established(svc, svc', i) /\ Settled(svc, svc', i)
           /\ ~svc.clients[i].listening => Quiet(svc, svc') /\ svc'.armed = svc.armed
<1>1. PICK s \in Service : s = svc
  OBVIOUS
<1>2. CASE s.clients[i].listening
  <2>1. svc' = OnConnect(s, i)
    BY <1>1, <1>2, Zenon DEF Connects
  <2>2. Established(s, svc', i)
    BY <2>1, OnConnectDoes, Zenon
  <2>3. TimersOf(svc')
    BY <1>1, <2>2, Zenon DEF Established, SameTimers, TimersOf
  <2>4. Settled(s, svc', i)
    BY <2>2, <2>3, Zenon DEF Established, Settled
  <2> QED BY <1>1, <1>2, <2>2, <2>4, Zenon
<1>3. CASE ~s.clients[i].listening
  <2>1. s.clients \in [Clients -> ClientType] /\ s.clients[i] \in ClientType
    BY Zenon DEF Service
  <2>2. PICK new : new = [s.clients[i] EXCEPT !.phase = "open"]
    BY Zenon
  <2>3. new \in ClientType /\ new.phase = "open"
    BY <2>1, <2>2 DEF ClientType
  <2>4. svc' = [s EXCEPT !.clients = [s.clients EXCEPT ![i] = new]]
    BY <1>1, <1>3, <2>2 DEF Connects, Service
  <2>5. svc' \in Service /\ svc'.clients = [s.clients EXCEPT ![i] = new]
    BY <2>1, <2>3, <2>4 DEF Service
  <2>6. SameCalls(s, svc') /\ svc'.armed = s.armed /\ svc'.timer = s.timer
    BY <2>4, Zenon DEF Service, SameCalls
  <2>7. Fades(s, svc')
    BY <2>1, <2>3, <2>5 DEF Fades, Pursued
  <2> QED BY <1>1, <1>3, <2>5, <2>6, <2>7 DEF Quiet, TimersOf
<1> QED BY <1>2, <1>3

LEMMA FailsDoes ==
    ASSUME svc \in Service, TimersOf(svc), NEW i \in Clients, Fails(i)
    PROVE  /\ svc.clients[i].listening => Refused(svc, svc', i) /\ Settled(svc, svc', i)
           /\ ~svc.clients[i].listening => Quiet(svc, svc')
<1>1. PICK s \in Service : s = svc
  OBVIOUS
<1>2. CASE s.clients[i].listening
  <2>1. svc' = OnError(s, i)
    BY <1>1, <1>2, Zenon DEF Fails
  <2>2. Refused(s, svc', i)
    BY <2>1, OnErrorDoes
  <2>3. TimersOf(svc')
    <3>1. s.armed \in Nat
      BY Zenon DEF Service
    <3>2. PICK owner : owner = s.clients[i].owner
      BY Zenon
    <3>3. CASE owner \in Callers \/ s.intentional
      <4>1. svc'.armed = s.armed /\ svc'.timer = s.timer
        BY <2>2, <3>2, <3>3, Zenon DEF Refused
      <4> QED BY <1>1, <4>1, Zenon DEF TimersOf
    <3>4. CASE ~(owner \in Callers \/ s.intentional)
      <4>1. svc'.armed = s.armed + 1
        BY <2>2, <3>2, <3>4, Zenon DEF Refused
      <4> QED BY <3>1, <4>1 DEF TimersOf
    <3> QED BY <3>3, <3>4, Zenon
  <2>4. Settled(s, svc', i)
    BY <2>2, <2>3, Zenon DEF Refused, Settled
  <2> QED BY <1>1, <1>2, <2>2, <2>4, Zenon
<1>3. CASE ~s.clients[i].listening
  <2>1. PICK m : m = Closing(s, i)
    BY Zenon
  <2>2. svc' = Collect(m)
    BY <1>1, <1>3, <2>1, Zenon DEF Fails
  <2>3. /\ m \in Service /\ SameCalls(s, m) /\ SameTimers(s, m)
        /\ m.clients[i].phase = IF s.clients[i].handlers = 0 THEN "closed" ELSE "ending"
        /\ \A j \in Clients \ {i} : m.clients[j] = s.clients[j]
    BY <2>1, ClosingDoes
  <2>4. /\ svc' \in Service /\ SameCalls(m, svc') /\ SameTimers(m, svc')
        /\ \A j \in Clients : svc'.clients[j] =
             IF m.clients[j].phase = "closed" /\ j # m.client THEN NoClient ELSE m.clients[j]
    BY <2>2, <2>3, CollectDoes
  <2>5. Fades(s, svc')
    BY <2>3, <2>4, NothingIsTyped DEF Fades, Pursued
  <2>6. SameCalls(s, svc') /\ TimersOf(svc')
    BY <1>1, <2>3, <2>4, Zenon DEF SameCalls, SameTimers, TimersOf
  <2> QED BY <1>1, <1>3, <2>4, <2>5, <2>6, Zenon DEF Quiet
<1> QED BY <1>2, <1>3, Zenon

-----------------------------------------------------------------------------
(* The state of the connection while calls have not overlapped: this.client *)
(* is the only client there is, no timer is armed but the one the service  *)
(* knows, and it is in one of six modes.                                   *)

This(s) == s.clients[s.client]
Idle(s) == \A c \in Callers : s.calls[c].pc # "ending"

Leaving(s, c) ==
    /\ s.calls[c].pc = "ending" /\ s.calls[c].on = s.client
    /\ \A d \in Callers \ {c} : s.calls[d].pc # "ending"
    /\ s.client # 0 /\ This(s).phase = "ending" /\ ~s.timer /\ s.intentional
Live(s) ==
    /\ s.state = "connected" /\ ~s.timer
    /\ s.client # 0 /\ This(s).phase = "open" /\ This(s).handlers = 1
Trying(s) ==
    /\ s.state = "connecting" /\ ~s.timer
    /\ s.client # 0 /\ This(s).phase = "connecting" /\ This(s).listening /\ This(s).handlers = 0
Waiting(s) ==
    /\ s.state = "waiting_retry" /\ s.timer
    /\ s.client # 0 => This(s).phase = "closed"
Rejected(s) == s.state = "disconnected" /\ ~s.timer /\ s.client = 0 /\ s.rejected
Hung(s) ==
    /\ s.state = "connecting" /\ ~s.timer /\ s.hung
    /\ s.client # 0 /\ This(s).phase = "closed"

ModeOf(s) ==
    /\ \A i \in Clients : i # s.client => s.clients[i].phase = "none"
    /\ s.armed = IF s.timer THEN 1 ELSE 0
    /\ \/ \E c \in Callers : Leaving(s, c)
       \/ /\ Idle(s) /\ ~s.intentional
          /\ Live(s) \/ Trying(s) \/ Waiting(s) \/ Rejected(s) \/ Hung(s)

LEMMA AttemptTries ==
    ASSUME NEW s \in Service, \A i \in Clients : s.clients[i].phase \in {"none", "closed"},
           Idle(s), ~s.intentional, s.armed = 0, ~s.timer, NEW owner, NEW t,
           Attempted(s, t, owner)
    PROVE  ModeOf(t)
<1>1. /\ t.calls = s.calls /\ t.armed = 0 /\ ~t.timer /\ ~t.intentional
      /\ t.state = "connecting" /\ t.client \in Clients
  BY Zenon DEF Attempted, SameCalls, SameTimers
<1>2. /\ This(t).phase = "connecting" /\ This(t).listening /\ This(t).handlers = 0
      /\ t.client # 0
  BY <1>1 DEF Attempted, This, Clients
<1>3. \A j \in Clients : j # t.client => t.clients[j].phase = "none"
  BY NothingIsTyped, Zenon DEF Attempted
<1> QED BY <1>1, <1>2, <1>3, Zenon DEF ModeOf, Trying, Idle

LEMMA ReplacementTries ==
    ASSUME NEW s \in Service, \A i \in Clients : s.clients[i].phase \in {"none", "closed"},
           NEW c \in Callers, \A d \in Callers \ {c} : s.calls[d].pc # "ending",
           s.armed = 0, ~s.timer, NEW t, Replaced(s, t, c)
    PROVE  ModeOf(t)
<1>1. /\ t.armed = 0 /\ ~t.timer /\ ~t.intentional
      /\ t.state = "connecting" /\ t.client \in Clients
  BY Zenon DEF Replaced
<1>2. /\ This(t).phase = "connecting" /\ This(t).listening /\ This(t).handlers = 0
      /\ t.client # 0
  BY <1>1 DEF Replaced, This, Clients
<1>3. \A j \in Clients : j # t.client => t.clients[j].phase = "none"
  BY NothingIsTyped DEF Replaced
<1>4. Idle(t)
  BY DEF Replaced, Idle
<1> QED BY <1>1, <1>2, <1>3, <1>4, Zenon DEF ModeOf, Trying

(* A client that is connecting, open or ending tells the mode.             *)
LEMMA PhaseTellsMode ==
    ASSUME NEW s, ModeOf(s), NEW i \in Clients, s.clients[i].phase # "none"
    PROVE  /\ i = s.client
           /\ s.clients[i].phase = "connecting" => Trying(s) /\ Idle(s) /\ ~s.intentional
           /\ s.clients[i].phase = "open" => Live(s) /\ Idle(s) /\ ~s.intentional
           /\ s.clients[i].phase = "ending" => \E c \in Callers : Leaving(s, c)
<1>1. i = s.client /\ i # 0
  BY DEF ModeOf, Clients
<1>2. This(s) = s.clients[i]
  BY <1>1, Zenon DEF This
<1> QED BY <1>1, <1>2, Zenon DEF ModeOf, Leaving, Live, Trying, Waiting, Rejected, Hung

LEMMA ConnectsMode ==
    ASSUME NEW s \in Service, ModeOf(s), NEW i \in Clients, s.clients[i].phase = "connecting",
           NEW t, Established(s, t, i)
    PROVE  ModeOf(t)
<1>1. i = s.client /\ Trying(s) /\ Idle(s) /\ ~s.intentional
  BY PhaseTellsMode, Zenon
<1>2. /\ t.client = i /\ t.state = "connected" /\ ~t.timer /\ ~t.intentional /\ t.armed = 0
  BY <1>1, Zenon DEF Established, SameTimers, Trying, ModeOf
<1>3. /\ t.clients[i].phase = "open" /\ t.clients[i].handlers = 1
      /\ \A j \in Clients : j # i => t.clients[j].phase = "none"
  BY <1>1 DEF Established, Trying, This, ModeOf
<1>4. Idle(t)
  <2>1. s.calls \in [Callers -> CallType]
    BY Zenon DEF Service
  <2> QED BY <1>1, <2>1, NothingIsTyped DEF Idle, Established, CallEnds
<1>5. i # 0
  BY DEF Clients
<1> QED BY <1>2, <1>3, <1>4, <1>5 DEF ModeOf, Live, This

LEMMA FailsMode ==
    ASSUME NEW s \in Service, ModeOf(s), NEW i \in Clients, s.clients[i].phase = "connecting",
           NEW t, Refused(s, t, i)
    PROVE  ModeOf(t)
<1>1. i = s.client /\ Trying(s) /\ Idle(s) /\ ~s.intentional
  BY PhaseTellsMode
<1>2. s.clients[i].handlers = 0 /\ s.armed = 0 /\ ~s.timer
  BY <1>1, Zenon DEF Trying, This, ModeOf
<1>3. t.client = 0 /\ t.intentional = s.intentional /\ CallEnds(s, t, s.clients[i].owner)
  BY Zenon DEF Refused
<1>4. \A j \in Clients : t.clients[j].phase = "none"
  BY <1>1, <1>2 DEF Refused, ModeOf
<1>5. Idle(t)
  <2>1. s.calls \in [Callers -> CallType]
    BY DEF Service
  <2> QED BY <1>1, <1>3, <2>1, NothingIsTyped DEF Idle, CallEnds
<1>6. CASE s.clients[i].owner \in Callers
  <2>1. t.armed = 0 /\ ~t.timer /\ t.rejected /\ t.state = "disconnected"
    BY <1>2, <1>6, Zenon DEF Refused
  <2> QED BY <1>1, <1>3, <1>4, <1>5, <2>1 DEF ModeOf, Rejected
<1>7. CASE s.clients[i].owner \notin Callers
  <2>1. t.armed = 1 /\ t.timer /\ t.state = "waiting_retry"
    BY <1>1, <1>2, <1>7 DEF Refused
  <2> QED BY <1>1, <1>3, <1>4, <1>5, <2>1 DEF ModeOf, Waiting
<1> QED BY <1>6, <1>7

LEMMA LostMode ==
    ASSUME NEW s \in Service, ModeOf(s), NEW i \in Clients, s.clients[i].phase = "open",
           NEW t, Dropped(s, t, i)
    PROVE  ModeOf(t)
<1>1. i = s.client /\ Live(s) /\ Idle(s) /\ ~s.intentional /\ i # 0
  BY PhaseTellsMode DEF Clients
<1>2. s.clients[i].handlers = 1 /\ s.state = "connected" /\ s.armed = 0
  BY <1>1, Zenon DEF Live, This, ModeOf
<1>3. Alerts(s, i)
  BY <1>1, <1>2 DEF Alerts
<1>4. t.state = "waiting_retry" /\ t.armed = 1 /\ t.timer
  BY <1>2, <1>3 DEF Dropped
<1>5. /\ t.client = i /\ t.clients[i].phase = "closed" /\ ~t.intentional
      /\ \A j \in Clients : j # i => t.clients[j].phase = "none"
  BY <1>1, NothingIsTyped DEF Dropped, ModeOf
<1>6. Idle(t)
  BY <1>1 DEF Idle, Dropped, SameCalls
<1> QED BY <1>4, <1>5, <1>6, Zenon DEF ModeOf, Waiting, This

LEMMA ClosesQuietlyMode ==
    ASSUME NEW s \in Service, ModeOf(s), NEW i \in Clients, s.clients[i].phase = "connecting",
           NEW t, Dropped(s, t, i), t.hung <=> (s.hung \/ i = s.client)
    PROVE  ModeOf(t)
<1>1. i = s.client /\ Trying(s) /\ Idle(s) /\ ~s.intentional /\ i # 0
  BY PhaseTellsMode DEF Clients
<1>2. s.clients[i].handlers = 0 /\ s.state = "connecting" /\ s.armed = 0 /\ ~s.timer
  BY <1>1, Zenon DEF Trying, This, ModeOf
<1>3. ~Alerts(s, i)
  BY <1>2, Zenon DEF Alerts
<1>4. t.state = "connecting" /\ t.armed = 0 /\ ~t.timer /\ t.hung
  BY <1>1, <1>2, <1>3, Zenon DEF Dropped, SameTimers
<1>5. /\ t.client = i /\ t.clients[i].phase = "closed" /\ ~t.intentional
      /\ \A j \in Clients : j # i => t.clients[j].phase = "none"
  BY <1>1, NothingIsTyped DEF Dropped, ModeOf
<1>6. Idle(t)
  BY <1>1, Zenon DEF Idle, Dropped, SameCalls
<1> QED BY <1>1, <1>4, <1>5, <1>6, Zenon DEF ModeOf, Hung, This

LEMMA EndedMode ==
    ASSUME NEW s \in Service, ModeOf(s), NEW i \in Clients, s.clients[i].phase = "ending",
           NEW t, Finished(s, t, i)
    PROVE  ModeOf(t)
<1>1. i = s.client /\ \E c \in Callers : Leaving(s, c)
  BY PhaseTellsMode, Zenon
<1>2. PICK c \in Callers : Leaving(s, c)
  BY <1>1, Zenon
<1>3. /\ s.calls[c].pc = "ending" /\ s.calls[c].on = i /\ s.intentional /\ ~s.timer
      /\ \A d \in Callers \ {c} : s.calls[d].pc # "ending"
      /\ s.armed = 0
  BY <1>1, <1>2, Zenon DEF Leaving, ModeOf
<1>4. PICK m : /\ Dropped(s, m, i)
               /\ \E d \in Callers : s.calls[d].pc = "ending" /\ Replaced(m, t, d)
  BY <1>3, Zenon DEF Finished
<1>5. Replaced(m, t, c)
  BY <1>3, <1>4, Zenon
<1>6. ~Alerts(s, i)
  BY <1>3, Zenon DEF Alerts
<1>7. m \in Service /\ m.calls = s.calls /\ m.armed = 0 /\ ~m.timer
  BY <1>3, <1>4, <1>6, Zenon DEF Dropped, SameCalls, SameTimers
<1>8. \A j \in Clients : m.clients[j].phase \in {"none", "closed"}
  BY <1>1, <1>4, NothingIsTyped DEF Dropped, ModeOf
<1> QED BY <1>3, <1>5, <1>7, <1>8, ReplacementTries

LEMMA TimerMode ==
    ASSUME NEW s \in Service, ModeOf(s), s.armed > 0, NEW t, Fired(s, t)
    PROVE  ModeOf(t)
<1>1. s.timer /\ s.armed = 1
  BY DEF ModeOf
<1>2. Waiting(s) /\ Idle(s) /\ ~s.intentional
  BY <1>1, Zenon DEF ModeOf, Leaving, Live, Trying, Rejected, Hung
<1>3. PICK m : /\ m \in Service /\ m.calls = s.calls /\ m.clients = s.clients
               /\ ~m.intentional /\ ~m.timer /\ m.armed = 0
               /\ Attempted(m, t, "loop")
  BY <1>1, <1>2 DEF Fired, SameCalls
<1>4. \A j \in Clients : m.clients[j].phase \in {"none", "closed"}
  BY <1>2, <1>3 DEF ModeOf, Waiting, This, Clients
<1>5. Idle(m)
  BY <1>2, <1>3, Zenon DEF Idle
<1> QED BY <1>3, <1>4, <1>5, AttemptTries, Zenon

LEMMA ReconnectMode ==
    ASSUME NEW s \in Service, ModeOf(s), NEW c \in Callers, NEW as, NEW t,
           Reconnects(s, t, c, as), ~t.overlapped
    PROVE  ModeOf(t) /\ ~s.overlapped
<1>1. PICK m : /\ Begun(s, m, c, as)
               /\ \/ m.client # 0 /\ m.clients[m.client].phase # "ending" /\ Ceases(m, t)
                  \/ (m.client = 0 \/ m.clients[m.client].phase = "ending") /\ Replaced(m, t, c)
  BY Zenon DEF Reconnects
<1>2. ~m.overlapped
  BY <1>1, Zenon DEF Ceases, Replaced, SameCalls
<1>3. ~s.overlapped /\ \A d \in Callers : s.calls[d] = NoCall
  BY <1>1, <1>2, Zenon DEF Begun
<1>4. s.calls \in [Callers -> CallType] /\ s.armed \in Nat
  BY Zenon DEF Service
<1>5. /\ m.calls[c].pc = "ending" /\ m.calls[c].on = m.client
      /\ \A d \in Callers \ {c} : m.calls[d].pc # "ending"
  <2>1. m.calls = [s.calls EXCEPT ![c] = [pc |-> "ending", on |-> s.client, as |-> as]]
        /\ m.client = s.client
    BY <1>1, Zenon DEF Begun
  <2> QED BY <1>3, <1>4, <2>1, NothingIsTyped
<1>6. m.armed = 0 /\ ~m.timer /\ m.intentional /\ m.client = s.client /\ m.clients = s.clients
  <2>1. m.armed = IF s.timer THEN s.armed - 1 ELSE s.armed
    BY <1>1, Zenon DEF Begun
  <2>2. m.armed = 0
    BY <1>4, <2>1 DEF ModeOf
  <2> QED BY <1>1, <2>2, Zenon DEF Begun
<1>7. CASE m.client # 0 /\ Ceases(m, t)
  <2>1. /\ t.calls = m.calls /\ t.armed = 0 /\ ~t.timer /\ t.intentional /\ t.client = m.client
        /\ t.clients[t.client].phase = "ending"
    BY <1>6, <1>7, Zenon DEF Ceases, SameCalls, SameTimers
  <2>2. \A j \in Clients : j # t.client => t.clients[j].phase = "none"
    BY <1>6, <1>7, <2>1 DEF Ceases, ModeOf
  <2>3. Leaving(t, c)
    BY <1>5, <1>7, <2>1, Zenon DEF Leaving, This
  <2> QED BY <1>3, <2>1, <2>2, <2>3 DEF ModeOf
<1>8. CASE (m.client = 0 \/ m.clients[m.client].phase = "ending") /\ Replaced(m, t, c)
  <2>1. ~\E d \in Callers : Leaving(s, d)
    BY <1>3, NothingIsTyped, Zenon DEF Leaving
  <2>2. s.client # 0 => s.clients[s.client].phase # "ending"
    BY <2>1, Zenon DEF ModeOf, Live, Trying, Waiting, Rejected, Hung, This
  <2>3. m.client = 0
    BY <1>6, <1>8, <2>2
  <2>4. \A j \in Clients : m.clients[j].phase \in {"none", "closed"}
    BY <1>6, <2>3 DEF ModeOf, Clients
  <2>5. m \in Service
    BY <1>1, Zenon DEF Begun
  <2>6. ModeOf(t)
    BY <1>5, <1>6, <1>8, <2>4, <2>5, ReplacementTries, Zenon
  <2> QED BY <1>3, <2>6, Zenon
<1> QED BY <1>1, <1>7, <1>8, Zenon

-----------------------------------------------------------------------------
(* The calls of reconnectWithCredentials() and the requests that await     *)
(* them, whatever has overlapped.                                          *)

CallsOf(s, q) ==
    /\ TimersOf(s)
    /\ \A c \in Callers : s.calls[c] # NoCall => q[c] # NoRequest
    /\ \A i \in Clients : Pursued(s, i) => s.calls[s.clients[i].owner].pc = "connecting"
    /\ \A i, j \in Clients :
        Pursued(s, i) /\ Pursued(s, j) /\ s.clients[i].owner = s.clients[j].owner => i = j

LEMMA QuietKeepsCalls ==
    ASSUME NEW s, NEW t, NEW q, CallsOf(s, q), Quiet(s, t)
    PROVE  CallsOf(t, q)
BY Zenon DEF CallsOf, Quiet, Fades, SameCalls

(* The requests other than owner's are the same.                           *)
Elsewhere(p, q, owner) == \A c \in Callers \ {owner} : p[c] = q[c]

SettledFor(s, t, q, p, i, owner) ==
    /\ CallsOf(s, q) /\ Pursued(s, i) /\ Settled(s, t, i) /\ owner = s.clients[i].owner
    /\ Elsewhere(p, q, owner)

LEMMA SettledKeepsCalls ==
    ASSUME NEW s \in Service, NEW t, NEW q, NEW i \in Clients, NEW owner, NEW p,
           SettledFor(s, t, q, p, i, owner)
    PROVE  /\ CallsOf(t, p) /\ s.calls[owner].pc = "connecting" /\ q[owner] # NoRequest
           /\ owner \in Callers /\ t.calls = [s.calls EXCEPT ![owner] = NoCall]
<1> /\ CallsOf(s, q) /\ Pursued(s, i) /\ Settled(s, t, i) /\ owner = s.clients[i].owner
    /\ Elsewhere(p, q, owner)
  BY Zenon DEF SettledFor
<1> owner \in Callers /\ s.calls \in [Callers -> CallType]
  BY Zenon DEF Pursued, Service
<1>2. t.calls = [s.calls EXCEPT ![owner] = NoCall]
  BY Zenon DEF Settled, CallEnds
<1>3. t.calls[owner] = NoCall /\ \A c \in Callers \ {owner} : t.calls[c] = s.calls[c]
  BY <1>2, Zenon
<1>4. s.calls[owner].pc = "connecting"
  BY Zenon DEF CallsOf
<1>5. q[owner] # NoRequest
  BY <1>4, NothingIsTyped, Zenon DEF CallsOf
<1>6. \A j \in Clients : Pursued(t, j) =>
        Pursued(s, j) /\ t.clients[j].owner = s.clients[j].owner /\ s.clients[j].owner # owner
  BY Zenon DEF Settled, Fades, CallsOf
<1>7. \A j \in Clients : Pursued(t, j) => t.calls[t.clients[j].owner].pc = "connecting"
  BY <1>3, <1>6 DEF CallsOf, Pursued
<1>8. \A c \in Callers : t.calls[c] # NoCall => p[c] # NoRequest
  BY <1>3, Zenon DEF CallsOf, Elsewhere
<1>9. \A j, k \in Clients :
        Pursued(t, j) /\ Pursued(t, k) /\ t.clients[j].owner = t.clients[k].owner => j = k
  BY <1>6, Zenon DEF CallsOf
<1> QED BY <1>2, <1>4, <1>5, <1>7, <1>8, <1>9 DEF CallsOf, Settled

LEMMA BegunKeepsCalls ==
    ASSUME NEW s \in Service, NEW t, NEW q, CallsOf(s, q), NEW c \in Callers, NEW credential,
           s.calls[c] = NoCall, Begun(s, t, c, credential),
           NEW p, p[c] # NoRequest, \A d \in Callers \ {c} : p[d] = q[d]
    PROVE  CallsOf(t, p) /\ t.calls[c].pc = "ending"
<1>1. s.calls \in [Callers -> CallType]
  BY Zenon DEF Service
<1> /\ t.calls[c] = [pc |-> "ending", on |-> s.client, as |-> credential]
    /\ \A d \in Callers \ {c} : t.calls[d] = s.calls[d]
    /\ t.clients = s.clients /\ TimersOf(t)
  BY <1>1, Zenon DEF Begun, TimersOf
<1>3. \A i \in Clients : Pursued(t, i) <=> Pursued(s, i)
  BY Zenon DEF Pursued
<1>4. \A i \in Clients : Pursued(s, i) => s.clients[i].owner # c
  BY NothingIsTyped, Zenon DEF CallsOf
<1>5. \A i \in Clients : Pursued(t, i) => t.calls[t.clients[i].owner].pc = "connecting"
  BY <1>3, <1>4 DEF CallsOf, Pursued
<1>6. \A d \in Callers : t.calls[d] # NoCall => p[d] # NoRequest
  BY Zenon DEF CallsOf
<1> QED BY <1>3, <1>5, <1>6 DEF CallsOf

LEMMA ReplacedKeepsCalls ==
    ASSUME NEW s \in Service, NEW t, NEW q, CallsOf(s, q), NEW c \in Callers,
           s.calls[c].pc = "ending", Replaced(s, t, c)
    PROVE  CallsOf(t, q)
<1> /\ t.calls[c].pc = "connecting" /\ \A d \in Callers \ {c} : t.calls[d] = s.calls[d]
    /\ t.client \in Clients /\ t.clients[t.client].owner = c
    /\ \A j \in Clients \ {t.client} :
        t.clients[j] = IF s.clients[j].phase = "closed" THEN NoClient ELSE s.clients[j]
  BY Zenon DEF Replaced
<1>2. \A j \in Clients \ {t.client} :
        Pursued(t, j) => Pursued(s, j) /\ t.clients[j] = s.clients[j] /\ s.clients[j].owner # c
  BY NothingIsTyped DEF Pursued, CallsOf
<1>3. \A j \in Clients : Pursued(t, j) => t.calls[t.clients[j].owner].pc = "connecting"
  BY <1>2 DEF CallsOf, Pursued
<1>4. \A j, k \in Clients :
        Pursued(t, j) /\ Pursued(t, k) /\ t.clients[j].owner = t.clients[k].owner => j = k
  BY <1>2 DEF CallsOf
<1>5. \A d \in Callers : t.calls[d] # NoCall => q[d] # NoRequest
  BY NothingIsTyped DEF CallsOf
<1>6. TimersOf(t)
  BY Zenon DEF CallsOf, TimersOf, Replaced
<1> QED BY <1>3, <1>4, <1>5, <1>6, Zenon DEF CallsOf

LEMMA FinishedKeepsCalls ==
    ASSUME NEW s \in Service, NEW t, NEW q, CallsOf(s, q), NEW i \in Clients, Finished(s, t, i)
    PROVE  CallsOf(t, q) /\ t \in Service
<1>1. PICK m : /\ Dropped(s, m, i) /\ Quiet(s, m)
               /\ t = m \/ \E c \in Callers : s.calls[c].pc = "ending" /\ Replaced(m, t, c)
  BY Zenon DEF Finished
<1>2. CallsOf(m, q) /\ m \in Service /\ m.calls = s.calls
  BY <1>1, QuietKeepsCalls, Zenon DEF Quiet, SameCalls
<1>3. CASE t = m
  BY <1>2, <1>3, Zenon
<1>4. ASSUME NEW c \in Callers, s.calls[c].pc = "ending", Replaced(m, t, c)
      PROVE  CallsOf(t, q) /\ t \in Service
  BY <1>2, <1>4, ReplacedKeepsCalls DEF Replaced
<1> QED BY <1>1, <1>3, <1>4, Zenon

LEMMA ReconnectsKeepsCalls ==
    ASSUME NEW s \in Service, NEW t, NEW q, CallsOf(s, q), NEW c \in Callers, NEW credential,
           s.calls[c] = NoCall, Reconnects(s, t, c, credential),
           NEW p, p[c] # NoRequest, \A d \in Callers \ {c} : p[d] = q[d]
    PROVE  CallsOf(t, p) /\ t \in Service
<1>1. PICK m : /\ Begun(s, m, c, credential)
               /\ (m.client # 0 /\ Ceases(m, t)) \/ Replaced(m, t, c)
  BY Zenon DEF Reconnects
<1>2. CallsOf(m, p) /\ m.calls[c].pc = "ending" /\ m \in Service
  <2>1. CallsOf(m, p) /\ m.calls[c].pc = "ending"
    BY <1>1, BegunKeepsCalls, Zenon
  <2> QED BY <1>1, <2>1, Zenon DEF Begun
<1>3. CASE m.client # 0 /\ Ceases(m, t)
  <2>1. TimersOf(t)
    BY <1>2, <1>3, Zenon DEF Ceases, SameTimers, CallsOf, TimersOf
  <2>2. Fades(m, t)
    BY <1>3 DEF Ceases, Fades, Pursued
  <2>3. Quiet(m, t)
    BY <1>3, <2>1, <2>2, Zenon DEF Ceases, Quiet
  <2> QED BY <1>2, <2>3, QuietKeepsCalls, Zenon DEF Quiet
<1>4. CASE Replaced(m, t, c)
  BY <1>2, <1>4, ReplacedKeepsCalls DEF Replaced
<1> QED BY <1>1, <1>3, <1>4, Zenon

-----------------------------------------------------------------------------
(* The durable writes of the operations.                                   *)

DiskType == [level: Levels, backend: Passwords, shared: Passwords,
             rows: SUBSET Devices, conf: {"open", "auth"}, file: SUBSET Credentials]

LEMMA LinesAreCredentials ==
    /\ \A v \in Passwords : Backend(v) \in Credentials /\ Shared(v) \in Credentials
    /\ \A d \in Devices : Device(d) \in Credentials
    /\ Anonymous \in Credentials
BY ProvisioningAssumption, Zenon

LEMMA DeviceLinesAreCredentials ==
    ASSUME NEW d \in DiskType
    PROVE  DeviceLines(d) \subseteq Credentials
BY LinesAreCredentials, Zenon DEF DeviceLines, DiskType

(* What stays and what is written, of the six fields.                      *)
Wrote(d, e, level, backend, shared, rows, conf, file) ==
    /\ e \in DiskType
    /\ e.level = level /\ e.backend = backend /\ e.shared = shared
    /\ e.rows = rows /\ e.conf = conf /\ e.file = file

LEMMA PutsAreTyped ==
    ASSUME NEW d \in DiskType
    PROVE  /\ \A lines \in SUBSET Credentials :
                Wrote(d, PutFile(d, lines), d.level, d.backend, d.shared, d.rows, d.conf, lines)
           /\ \A conf \in {"open", "auth"} :
                Wrote(d, PutConf(d, conf), d.level, d.backend, d.shared, d.rows, conf, d.file)
           /\ \A level \in Levels :
                Wrote(d, PutLevel(d, level), level, d.backend, d.shared, d.rows, d.conf, d.file)
           /\ \A v \in Passwords :
                Wrote(d, PutShared(d, v), d.level, d.backend, v, d.rows, d.conf, d.file)
           /\ \A v \in Passwords : Wrote(d, [d EXCEPT !.backend = v],
                d.level, v, d.shared, d.rows, d.conf, d.file)
           /\ \A rows \in SUBSET Devices : Wrote(d, [d EXCEPT !.rows = rows],
                d.level, d.backend, d.shared, rows, d.conf, d.file)
BY Zenon DEF DiskType, Wrote, PutFile, PutConf, PutLevel, PutShared

LEMMA InitializeWritesDo ==
    ASSUME disk \in DiskType, NEW v \in Passwords
    PROVE  /\ StopsAmid(InitializeWrites(v)) => disk' \in DiskType
           /\ Completes(InitializeWrites(v)) =>
                /\ disk' \in DiskType /\ disk'.level = disk.level /\ disk'.backend = v
                /\ disk.level = "open" => disk'.conf = "open"
                /\ disk.level # "open" => disk'.conf = "auth" /\ disk'.file = Composed(disk')
<1> PICK d : d = [disk EXCEPT !.backend = v]
  BY Zenon
<1> Wrote(disk, d, disk.level, v, disk.shared, disk.rows, disk.conf, disk.file)
  BY PutsAreTyped, Zenon
<1> d \in DiskType
  BY Zenon DEF Wrote
<1>4. CASE disk.level = "open"
  <2>1. InitializeWrites(v) = <<d, PutConf(d, "open")>>
    BY <1>4, Zenon DEF InitializeWrites, Wrote
  <2>2. Wrote(d, PutConf(d, "open"), d.level, d.backend, d.shared, d.rows, "open", d.file)
    BY PutsAreTyped, Zenon
  <2>3. StopsAmid(InitializeWrites(v)) => disk' = d
    BY <2>1 DEF StopsAmid
  <2>4. Completes(InitializeWrites(v)) => disk' = PutConf(d, "open")
    BY <2>1 DEF Completes
  <2> QED BY <1>4, <2>2, <2>3, <2>4, Zenon DEF Wrote
<1>5. CASE disk.level # "open"
  <2>1. PICK e : e = PutConf(d, "auth")
    BY Zenon
  <2>2. PICK f : f = PutFile(e, Composed(d))
    BY Zenon
  <2>3. InitializeWrites(v) = <<d, e, f>>
    BY <1>5, <2>1, <2>2, Zenon DEF InitializeWrites, Wrote
  <2> Wrote(d, e, d.level, d.backend, d.shared, d.rows, "auth", d.file)
    BY <2>1, PutsAreTyped, Zenon
  <2>5. Composed(d) \subseteq Credentials
    BY LinesAreCredentials, DeviceLinesAreCredentials DEF Composed, DiskType
  <2>6. Wrote(e, f, e.level, e.backend, e.shared, e.rows, e.conf, Composed(d))
    BY <2>2, <2>5, PutsAreTyped DEF Wrote
  <2>7. StopsAmid(InitializeWrites(v)) => disk' = d \/ disk' = e
    BY <2>3 DEF StopsAmid
  <2>8. Completes(InitializeWrites(v)) => disk' = f
    BY <2>3 DEF Completes
  <2>9. Composed(f) = Composed(d)
    BY <2>6, Zenon DEF Composed, DeviceLines, Wrote
  <2> QED BY <1>5, <2>6, <2>7, <2>8, <2>9, Zenon DEF Wrote
<1> QED BY <1>4, <1>5, Zenon

(* The lines setSecurityLevel() writes for a level other than open.        *)
LevelLines(d, level, v) ==
    IF level = "per_device" THEN {Backend(d.backend)} \cup DeviceLines(d)
    ELSE {Shared(v), Backend(d.backend)}

LEMMA LevelWritesDo ==
    ASSUME disk \in DiskType, NEW level \in Levels, NEW v \in Passwords
    PROVE  /\ StopsAmid(LevelWrites(level, v)) =>
                /\ level # "open"
                /\ Wrote(disk, disk', disk.level, disk.backend, disk.shared, disk.rows, disk.conf,
                         LevelLines(disk, level, v))
           /\ Completes(LevelWrites(level, v)) =>
                /\ disk' \in DiskType /\ disk'.level = disk.level /\ disk'.backend = disk.backend
                /\ disk'.shared = disk.shared /\ disk'.rows = disk.rows
                /\ level = "open" => disk'.conf = "open" /\ disk'.file = disk.file
                /\ level # "open" => disk'.conf = "auth" /\ disk'.file = LevelLines(disk, level, v)
<1>1. CASE level = "open"
  <2>1. LevelWrites(level, v) = <<PutConf(disk, "open")>>
    BY <1>1, Zenon DEF LevelWrites
  <2>2. Wrote(disk, PutConf(disk, "open"), disk.level, disk.backend, disk.shared, disk.rows,
              "open", disk.file)
    BY PutsAreTyped, Zenon
  <2>3. ~StopsAmid(LevelWrites(level, v))
    BY <2>1 DEF StopsAmid
  <2>4. Completes(LevelWrites(level, v)) => disk' = PutConf(disk, "open")
    BY <2>1 DEF Completes
  <2> QED BY <1>1, <2>2, <2>3, <2>4 DEF Wrote
<1>2. CASE level # "open"
  <2> PICK lines : lines = LevelLines(disk, level, v)
    BY Zenon
  <2>2. lines \subseteq Credentials
    BY LinesAreCredentials, DeviceLinesAreCredentials DEF LevelLines, DiskType
  <2>3. PICK d : d = PutFile(disk, lines)
    BY Zenon
  <2>4. PICK e : e = PutConf(d, "auth")
    BY Zenon
  <2>5. LevelWrites(level, v) = <<d, e>>
    BY <1>2, <2>3, <2>4 DEF LevelWrites, LevelLines
  <2>6. Wrote(disk, d, disk.level, disk.backend, disk.shared, disk.rows, disk.conf, lines)
    BY <2>2, <2>3, PutsAreTyped
  <2>7. Wrote(d, e, d.level, d.backend, d.shared, d.rows, "auth", d.file)
    BY <2>4, <2>6, PutsAreTyped DEF Wrote
  <2>8. StopsAmid(LevelWrites(level, v)) => disk' = d
    BY <2>5 DEF StopsAmid
  <2>9. Completes(LevelWrites(level, v)) => disk' = e
    BY <2>5 DEF Completes
  <2> QED BY <1>2, <2>6, <2>7, <2>8, <2>9 DEF Wrote
<1> QED BY <1>1, <1>2

LEMMA PersistWritesDo ==
    ASSUME disk \in DiskType, NEW level \in Levels, NEW v \in Passwords
    PROVE  /\ StopsAmid(PersistWrites(level, v)) =>
                Wrote(disk, disk', level, disk.backend, disk.shared, disk.rows, disk.conf, disk.file)
           /\ Completes(PersistWrites(level, v)) =>
                Wrote(disk, disk', level, disk.backend,
                      IF level = "shared_password" THEN v ELSE disk.shared,
                      disk.rows, disk.conf, disk.file)
<1> PICK d : d = PutLevel(disk, level)
  BY Zenon
<1> Wrote(disk, d, level, disk.backend, disk.shared, disk.rows, disk.conf, disk.file)
  BY PutsAreTyped, Zenon
<1>3. CASE level = "shared_password"
  <2>1. PersistWrites(level, v) = <<d, PutShared(d, v)>>
    BY <1>3, Zenon DEF PersistWrites
  <2>2. Wrote(d, PutShared(d, v), d.level, d.backend, v, d.rows, d.conf, d.file)
    BY PutsAreTyped, Zenon DEF Wrote
  <2>3. StopsAmid(PersistWrites(level, v)) => disk' = d
    BY <2>1 DEF StopsAmid
  <2>4. Completes(PersistWrites(level, v)) => disk' = PutShared(d, v)
    BY <2>1 DEF Completes
  <2> QED BY <1>3, <2>2, <2>3, <2>4, Zenon DEF Wrote
<1>4. CASE level # "shared_password"
  <2>1. PersistWrites(level, v) = <<d>>
    BY <1>4, Zenon DEF PersistWrites
  <2>2. ~StopsAmid(PersistWrites(level, v))
    BY <2>1 DEF StopsAmid
  <2>3. Completes(PersistWrites(level, v)) => disk' = d
    BY <2>1 DEF Completes
  <2> QED BY <1>4, <2>2, <2>3, Zenon DEF Wrote
<1> QED BY <1>3, <1>4, Zenon

LEMMA RegenerateWritesDo ==
    ASSUME disk \in DiskType, NEW v \in Passwords
    PROVE  /\ StopsAmid(RegenerateWrites(v)) =>
                Wrote(disk, disk', disk.level, disk.backend, disk.shared, disk.rows, disk.conf,
                      {Shared(v), Backend(disk.backend)})
           /\ Completes(RegenerateWrites(v)) =>
                Wrote(disk, disk', disk.level, disk.backend, v, disk.rows, disk.conf,
                      {Shared(v), Backend(disk.backend)})
<1> PICK lines : lines = {Shared(v), Backend(disk.backend)}
  BY Zenon
<1>2. lines \subseteq Credentials
  BY LinesAreCredentials, Zenon DEF DiskType
<1>3. PICK d : d = PutFile(disk, lines)
  BY Zenon
<1>4. Wrote(disk, d, disk.level, disk.backend, disk.shared, disk.rows, disk.conf, lines)
  BY <1>2, <1>3, PutsAreTyped, Zenon
<1>5. RegenerateWrites(v) = <<d, PutShared(d, v)>>
  BY <1>3, Zenon DEF RegenerateWrites
<1>6. Wrote(d, PutShared(d, v), d.level, d.backend, v, d.rows, d.conf, d.file)
  BY <1>4, PutsAreTyped DEF Wrote
<1>7. /\ StopsAmid(RegenerateWrites(v)) => disk' = d
      /\ Completes(RegenerateWrites(v)) => disk' = PutShared(d, v)
  BY <1>5 DEF StopsAmid, Completes
<1> QED BY <1>4, <1>6, <1>7, Zenon DEF Wrote

LEMMA RowWritesDo ==
    ASSUME disk \in DiskType, NEW rows \in SUBSET Devices
    PROVE  /\ StopsAmid(RowWrites(rows)) =>
                Wrote(disk, disk', disk.level, disk.backend, disk.shared, rows, disk.conf, disk.file)
           /\ Completes(RowWrites(rows)) =>
                /\ Wrote(disk, disk', disk.level, disk.backend, disk.shared, rows, disk.conf,
                         {Backend(disk.backend)} \cup {Device(x) : x \in rows})
<1> PICK lines : lines = {Backend(disk.backend)} \cup {Device(x) : x \in rows}
  BY Zenon
<1>2. lines \subseteq Credentials
  BY LinesAreCredentials, Zenon DEF DiskType
<1>3. PICK d : d = [disk EXCEPT !.rows = rows]
  BY Zenon
<1> Wrote(disk, d, disk.level, disk.backend, disk.shared, rows, disk.conf, disk.file)
  BY <1>3, PutsAreTyped, Zenon
<1>8. {Backend(d.backend)} \cup DeviceLines(d) = lines
  BY Zenon DEF DeviceLines, Wrote
<1>5. RowWrites(rows) = <<d, PutFile(d, lines)>>
  BY <1>3, <1>8, Zenon DEF RowWrites, Regenerated
<1>6. Wrote(d, PutFile(d, lines), d.level, d.backend, d.shared, d.rows, d.conf, lines)
  <2>1. d \in DiskType /\ lines \in SUBSET Credentials
    BY <1>2, Zenon DEF Wrote
  <2> QED BY <2>1, PutsAreTyped, Zenon
<1>7. /\ StopsAmid(RowWrites(rows)) => disk' = d
      /\ Completes(RowWrites(rows)) => disk' = PutFile(d, lines)
  BY <1>5 DEF StopsAmid, Completes
<1> QED BY <1>6, <1>7, Zenon DEF Wrote

-----------------------------------------------------------------------------
(* The invariant about calls and requests, and the kinds of steps.         *)

CallsInv ==
    /\ CallsOf(svc, request)
    /\ \A r \in Requests : request[r] # NoRequest => request[r].kind \in Levels
    /\ process = "down" => svc = Fresh /\ ~strayed /\ ~fromRows /\ \A r \in Requests : request[r] = NoRequest
    /\ process = "starting" => \E as \in Credentials : svc = [Fresh EXCEPT !.credentials = as]

BaseInv == TypeOK /\ CallsInv

OtherTypes ==
    /\ accepting \subseteq Credentials /\ disk \in DiskType
    /\ process \in {"down", "starting", "connecting", "running"}
    /\ request \in [Requests -> [kind: Levels \cup {"none"}, arg: Passwords]]
    /\ up \in BOOLEAN /\ strayed \in BOOLEAN /\ fromRows \in BOOLEAN
    /\ lingering \subseteq Devices
    /\ minted \in Passwords /\ crashes \in 0..MaxCrashes /\ outages \in 0..MaxOutages

LEMMA TypeOKSplits == TypeOK <=> svc \in Service /\ svc.armed <= MaxTimers /\ OtherTypes
<1>1. MaxTimers \in Nat
  BY ConnectionAssumption, Zenon
<1>2. TypeOK => svc \in Service /\ svc.armed <= MaxTimers
  BY <1>1 DEF TypeOK, Service, ClientType, CallType
<1>3. TypeOK <=> /\ svc \in [client: {0} \cup Clients,
                     state: {"disconnected", "connecting", "connected", "waiting_retry"},
                     armed: 0..MaxTimers, timer: BOOLEAN, intentional: BOOLEAN,
                     credentials: Credentials, clients: [Clients -> ClientType],
                     calls: [Callers -> CallType],
                     rejected: BOOLEAN, hung: BOOLEAN, overlapped: BOOLEAN]
                 /\ OtherTypes
  BY Zenon DEF TypeOK, OtherTypes, ClientType, CallType, DiskType
<1>4. svc \in Service /\ svc.armed <= MaxTimers =>
        svc \in [client: {0} \cup Clients,
                 state: {"disconnected", "connecting", "connected", "waiting_retry"},
                 armed: 0..MaxTimers, timer: BOOLEAN, intentional: BOOLEAN,
                 credentials: Credentials, clients: [Clients -> ClientType],
                 calls: [Callers -> CallType],
                 rejected: BOOLEAN, hung: BOOLEAN, overlapped: BOOLEAN]
  BY <1>1 DEF Service
<1> QED BY <1>2, <1>3, <1>4

LEMMA TypeOKJoins ==
    svc' \in Service /\ svc'.armed <= MaxTimers /\ OtherTypes' => TypeOK'
<1> DEFINE P == svc \in Service /\ svc.armed <= MaxTimers
<1>1. P /\ OtherTypes => TypeOK
  BY TypeOKSplits, Zenon
<1>2. svc' \in Service /\ svc'.armed <= MaxTimers => P'
  BY Zenon
<1> HIDE DEF P
<1>3. P' /\ OtherTypes' => TypeOK'
  BY <1>1, PTL
<1> QED BY <1>2, <1>3, Zenon

(* At startup nothing is connected, armed or called.                       *)
Blank(s) ==
    /\ s \in Service /\ s.client = 0 /\ s.state = "disconnected"
    /\ s.armed = 0 /\ ~s.timer /\ ~s.intentional /\ ~s.overlapped
    /\ \A i \in Clients : s.clients[i] = NoClient
    /\ \A c \in Callers : s.calls[c] = NoCall

LEMMA FreshIsBlank ==
    /\ Blank(Fresh) /\ Fresh.credentials = Anonymous
    /\ \A as \in Credentials : LET s == [Fresh EXCEPT !.credentials = as]
                               IN  Blank(s) /\ s.credentials = as
<1>1. Blank(Fresh) /\ Fresh.credentials = Anonymous
  BY NothingIsTyped, Zenon DEF Blank, Fresh
<1>2. ASSUME NEW as \in Credentials, NEW s, s = [Fresh EXCEPT !.credentials = as]
      PROVE  Blank(s) /\ s.credentials = as
  <2>1. s \in Service
    BY <1>2, NothingIsTyped, Zenon DEF Service
  <2>2. /\ s.credentials = as /\ s.client = 0 /\ s.state = "disconnected"
        /\ s.armed = 0 /\ s.timer = FALSE /\ s.intentional = FALSE /\ s.overlapped = FALSE
        /\ s.clients = [i \in Clients |-> NoClient] /\ s.calls = [c \in Callers |-> NoCall]
    BY <1>2, Zenon DEF Fresh
  <2> QED BY <2>1, <2>2, Zenon DEF Blank
<1> QED BY <1>1, <1>2, Zenon

LEMMA BlankHasNoCalls ==
    ASSUME NEW s, Blank(s), NEW q
    PROVE  CallsOf(s, q) /\ \A i \in Clients : s.clients[i].phase = "none"
BY NothingIsTyped, Zenon DEF Blank, CallsOf, TimersOf, Pursued

(* The process ends.                                                       *)
Downs == /\ process' = "down" /\ svc' = Fresh /\ strayed' = FALSE /\ fromRows' = FALSE
         /\ \A r \in Requests : request'[r] = NoRequest

(* The process has initialised.                                            *)
Initialized ==
    /\ process = "down" /\ process' = "starting"
    /\ minted' \in Passwords /\ Completes(InitializeWrites(minted'))
    /\ svc' = [Fresh EXCEPT !.credentials =
                  IF disk.level = "open" THEN Anonymous ELSE Backend(minted')]
    /\ UNCHANGED <<request, strayed, fromRows>>

(* A request has prepared the files and reconnects.                        *)
LevelSet(r, level) ==
    /\ process = "running" /\ process' = process
    /\ request[r] = NoRequest /\ svc.calls[r] = NoCall
    /\ minted' \in Passwords
    /\ level = "shared_password" => minted' # 0
    /\ Completes(LevelWrites(level, minted')) /\ Begin(r, level, minted')
    /\ Reconnects(svc, svc', r, IF level = "open" THEN Anonymous ELSE Backend(disk.backend))
    /\ Stray(Overlaps) /\ (level # "open" => ~fromRows')

(* The attempt a request awaits succeeds and the level is persisted; or    *)
(* the attempt fails, or a setting cannot be written.                      *)
Persisted(owner) ==
    /\ Completes(PersistWrites(request[owner].kind, request[owner].arg))
    /\ request' = [request EXCEPT ![owner] = NoRequest]
    /\ UNCHANGED <<process, strayed, fromRows, lingering>>

CallSucceeds(i) ==
    Pursued(svc, i) /\ Settled(svc, svc', i) /\ Persisted(svc.clients[i].owner)

SameFiles(d, e) ==
    e.conf = d.conf /\ e.backend = d.backend /\ e.rows = d.rows /\ e.file = d.file

CallFails(i) ==
    /\ Pursued(svc, i) /\ Settled(svc, svc', i)
    /\ request' = [request EXCEPT ![svc.clients[i].owner] = NoRequest]
    /\ strayed' = TRUE /\ SameFiles(disk, disk') /\ UNCHANGED <<process, fromRows, lingering>>

(* The connection goes on, or nothing happens to it.                       *)
Proceeds ==
    /\ UNCHANGED <<disk, request, strayed, fromRows, lingering>>
    /\ \/ UNCHANGED <<svc, process>>
       \/ /\ process # "down" /\ process' \in {"connecting", "running"}
          /\ Quiet(svc, svc') \/ \E i \in Clients : Finished(svc, svc', i)

(* The shared password or the device credentials change.                   *)
FileChanges ==
    /\ process = "running" /\ UNCHANGED <<svc, process, request>>
    /\ \/ /\ disk.level = "shared_password"
          /\ \E v \in Passwords \ {0} : Completes(RegenerateWrites(v))
          /\ Stray(Overlaps) /\ fromRows' = FALSE
       \/ /\ \E rows \in SUBSET Devices : Completes(RowWrites(rows))
          /\ Stray(Overlaps) /\ fromRows' = TRUE

(* A request fails after its first write: the rows, or the password file.  *)
FileFails ==
    /\ process = "running" /\ UNCHANGED <<svc, process, request>> /\ strayed' = TRUE
    /\ disk'.conf = disk.conf /\ disk'.backend = disk.backend
    /\ \/ disk'.file = disk.file /\ lingering' = lingering \cup (disk.rows \ disk'.rows)
       \/ /\ disk'.rows = disk.rows
          /\ \E level \in Levels, v \in Passwords : disk'.file = LevelLines(disk, level, v)

StepKinds ==
    \/ Downs \/ Initialized
    \/ \E r \in Requests, level \in Levels : LevelSet(r, level)
    \/ \E i \in Clients : CallSucceeds(i) \/ CallFails(i)
    \/ Proceeds \/ FileChanges \/ FileFails

LEMMA EndsDo ==
    ASSUME BaseInv, Ends, disk' \in DiskType, minted' \in Passwords
    PROVE  TypeOK' /\ StepKinds
<1>1. OtherTypes
  BY TypeOKSplits, Zenon DEF BaseInv
<1>2. NoRequest \in [kind: Levels \cup {"none"}, arg: Passwords]
  BY ProvisioningAssumption DEF NoRequest, Passwords
<1> /\ process' = "down" /\ svc' = Fresh /\ strayed' = FALSE /\ fromRows' = FALSE /\ lingering' = {}
    /\ request' = [r \in Requests |-> NoRequest] /\ UNCHANGED <<up, outages, accepting>>
    /\ crashes < MaxCrashes /\ crashes' = crashes + 1
  BY Zenon DEF Ends
<1>4. crashes' \in 0..MaxCrashes
  BY <1>1, ProvisioningAssumption DEF OtherTypes
<1>5. OtherTypes'
  BY <1>1, <1>2, <1>4, Zenon DEF OtherTypes
<1>6. svc' \in Service /\ svc'.armed <= MaxTimers
  BY FreshIsBlank, ConnectionAssumption DEF Blank
<1>7. TypeOK'
  BY <1>5, <1>6, TypeOKJoins, Zenon
<1> QED BY <1>7, Zenon DEF Downs, StepKinds

LEMMA StartupSteps ==
    ASSUME BaseInv, Startup
    PROVE  TypeOK' /\ StepKinds
<1> OtherTypes /\ CallsInv
  BY TypeOKSplits, Zenon DEF BaseInv
<1>2. process = "down" /\ minted < MaxPassword /\ minted' = minted + 1
  BY Zenon DEF Startup
<1> PICK v \in Passwords : v = minted'
  BY <1>2, ProvisioningAssumption DEF OtherTypes, Passwords
<1>4. disk \in DiskType
  BY Zenon DEF OtherTypes
<1>5. CASE EndsAmid(InitializeWrites(minted'))
  <2>1. StopsAmid(InitializeWrites(v)) /\ Ends
    BY <1>5, Zenon DEF EndsAmid
  <2>2. disk' \in DiskType
    BY <1>4, <2>1, InitializeWritesDo, Zenon
  <2> QED BY <2>1, <2>2, EndsDo, Zenon
<1>6. CASE /\ Completes(InitializeWrites(minted')) /\ process' = "starting"
           /\ svc' = [Fresh EXCEPT !.credentials =
                         IF disk.level = "open" THEN Anonymous ELSE Backend(minted')]
           /\ UNCHANGED <<request, up, crashes, outages, strayed, fromRows, lingering, accepting>>
  <2>1. Initialized
    BY <1>2, <1>6, Zenon DEF Initialized
  <2>2. Completes(InitializeWrites(v))
    BY <1>6, Zenon
  <2>3. disk' \in DiskType
    BY <1>4, <2>2, InitializeWritesDo
  <2>4. OtherTypes'
    BY <1>6, <2>3 DEF OtherTypes
  <2>5. PICK as \in Credentials : as = IF disk.level = "open" THEN Anonymous ELSE Backend(minted')
    BY LinesAreCredentials, Zenon
  <2>6. svc' = [Fresh EXCEPT !.credentials = as]
    BY <1>6, <2>5, Zenon
  <2>7. svc' \in Service /\ svc'.armed <= MaxTimers
    <3>1. Blank(svc')
      BY <2>6, FreshIsBlank, Zenon
    <3> QED BY <3>1, ConnectionAssumption DEF Blank
  <2>8. TypeOK'
    BY <2>4, <2>7, TypeOKJoins
  <2> QED BY <2>1, <2>8, Zenon DEF StepKinds
<1> QED BY <1>5, <1>6, Zenon DEF Startup

LEMMA StartupConnectsSteps ==
    ASSUME BaseInv, StartupConnects
    PROVE  TypeOK' /\ StepKinds
<1> svc \in Service /\ svc.armed <= MaxTimers /\ OtherTypes /\ TimersOf(svc)
  BY TypeOKSplits, Zenon DEF BaseInv, CallsInv, CallsOf
<1> /\ process = "starting" /\ process' = "connecting" /\ ConnectWithRetry
    /\ UNCHANGED <<accepting, disk, request, up, minted, crashes, outages, strayed, fromRows,
                   lingering>>
  BY Zenon DEF StartupConnects
<1>3. PICK m : /\ m.armed = svc.armed /\ Attempted(m, svc', "startup")
               /\ Quiet(svc, svc')
  BY ConnectWithRetryDoes, Zenon
<1>4. svc' \in Service /\ svc'.armed <= MaxTimers
  BY <1>3, Zenon DEF Quiet, Attempted, SameTimers
<1>5. OtherTypes'
  BY Zenon DEF OtherTypes
<1>6. TypeOK'
  BY <1>4, <1>5, TypeOKJoins
<1> QED BY <1>3, <1>6, Zenon DEF Proceeds, StepKinds

LEMMA CrashSteps ==
    ASSUME BaseInv, Crash
    PROVE  TypeOK' /\ StepKinds
<1>1. OtherTypes
  BY TypeOKSplits, Zenon DEF BaseInv
<1>2. Ends /\ disk' \in DiskType /\ minted' \in Passwords
  BY <1>1, Zenon DEF Crash, OtherTypes
<1> QED BY <1>2, EndsDo, Zenon

LEMMA SetSecurityLevelSteps ==
    ASSUME BaseInv, NEW r \in Requests, NEW level \in Levels, SetSecurityLevel(r, level)
    PROVE  TypeOK' /\ StepKinds
<1> svc \in Service /\ svc.armed <= MaxTimers /\ OtherTypes /\ TimersOf(svc)
  BY TypeOKSplits, Zenon DEF BaseInv, CallsInv, CallsOf
<1>2. process = "running" /\ request[r] = NoRequest /\ Mints(level) /\ minted' <= MaxPassword
  BY Zenon DEF SetSecurityLevel
<1> minted' \in Passwords /\ (level = "shared_password" => minted' # 0)
  BY <1>2, ProvisioningAssumption DEF Mints, OtherTypes, Passwords
<1> PICK v \in Passwords : v = minted'
  BY Zenon
<1> disk \in DiskType
  BY Zenon DEF OtherTypes
<1>6. CASE EndsAmid(LevelWrites(level, minted'))
  <2>1. StopsAmid(LevelWrites(level, v)) /\ Ends
    BY <1>6, Zenon DEF EndsAmid
  <2>2. disk' \in DiskType
    BY <2>1, LevelWritesDo, Zenon DEF Wrote
  <2> QED BY <2>1, <2>2, EndsDo, Zenon
<1>7. CASE /\ Completes(LevelWrites(level, minted')) /\ Begin(r, level, minted')
           /\ Reconnect(r, IF level = "open" THEN Anonymous ELSE Backend(disk.backend))
           /\ Stray(Overlaps)
           /\ IF level = "open" THEN UNCHANGED <<fromRows, lingering>> ELSE Renewed(FALSE)
           /\ UNCHANGED <<accepting, process, up, crashes, outages>>
  <2>1. PICK as \in Credentials : as = IF level = "open" THEN Anonymous ELSE Backend(disk.backend)
    BY LinesAreCredentials, Zenon DEF DiskType
  <2>2. Reconnect(r, as) /\ r \in Callers
    BY <1>7, <2>1, Zenon DEF Requests
  <2>3. Reconnects(svc, svc', r, as) /\ svc.calls[r] = NoCall
    BY <2>2, ReconnectDoes, Zenon DEF TimersOf
  <2>4. svc' \in Service /\ svc'.armed <= svc.armed
    <3>1. PICK m : Begun(svc, m, r, as) /\ (Ceases(m, svc') \/ Replaced(m, svc', r))
      BY <2>3, Zenon DEF Reconnects
    <3>2. svc' \in Service /\ svc'.armed = m.armed
      BY <3>1, Zenon DEF Ceases, Replaced, SameTimers
    <3>3. m.armed <= svc.armed
      BY <3>1 DEF Begun, Service
    <3> QED BY <3>2, <3>3, Zenon
  <2>5. Completes(LevelWrites(level, v))
    BY <1>7, Zenon
  <2>6. disk' \in DiskType
    BY <2>5, LevelWritesDo, Zenon
  <2>7. [kind |-> level, arg |-> v] \in [kind: Levels \cup {"none"}, arg: Passwords]
    BY Zenon
  <2>12. /\ fromRows' \in BOOLEAN /\ lingering' \subseteq Devices
         /\ level # "open" => ~fromRows'
    BY <1>7, Zenon DEF Renewed, OtherTypes
  <2>8. OtherTypes'
    BY <1>7, <2>6, <2>7, <2>12, Zenon DEF OtherTypes, Begin, Stray
  <2>9. svc'.armed <= MaxTimers
    BY <2>4, ConnectionAssumption DEF Service
  <2>10. TypeOK'
    BY <2>4, <2>8, <2>9, TypeOKJoins, Zenon
  <2>11. LevelSet(r, level)
    BY <1>2, <1>7, <2>1, <2>3, <2>12, Zenon DEF LevelSet
  <2> QED BY <2>10, <2>11, Zenon DEF StepKinds
<1>8. CASE /\ StopsAmid(LevelWrites(level, minted')) /\ Stray(TRUE) /\ Renewed(FALSE)
           /\ UNCHANGED <<svc, accepting, process, request, up, crashes, outages>>
  <2>1. StopsAmid(LevelWrites(level, v))
    BY <1>8, Zenon
  <2>2. Wrote(disk, disk', disk.level, disk.backend, disk.shared, disk.rows, disk.conf,
              LevelLines(disk, level, v))
    BY <2>1, LevelWritesDo, Zenon
  <2>3. OtherTypes'
    BY <1>8, <2>2, Zenon DEF OtherTypes, Wrote, Stray, Renewed
  <2>4. TypeOK'
    BY <1>8, <2>3, TypeOKJoins, Zenon
  <2>5. FileFails
    BY <1>2, <1>8, <2>2, Zenon DEF FileFails, Wrote, Stray
  <2> QED BY <2>4, <2>5, Zenon DEF StepKinds
<1> QED BY <1>6, <1>7, <1>8, Zenon DEF SetSecurityLevel

(* A connection has an event only once startup has attempted one.          *)
LEMMA EventsFollowStartup ==
    ASSUME BaseInv, svc.armed > 0 \/ \E i \in Clients : svc.clients[i].phase # "none"
    PROVE  process \in {"connecting", "running"}
<1>1. process \in {"down", "starting"} => Blank(svc)
  BY FreshIsBlank, Zenon DEF BaseInv, CallsInv
<1>2. Blank(svc) => svc.armed = 0 /\ \A i \in Clients : svc.clients[i].phase = "none"
  BY NothingIsTyped, Zenon DEF Blank
<1>3. process \in {"down", "starting", "connecting", "running"}
  BY TypeOKSplits, Zenon DEF BaseInv, OtherTypes
<1> QED BY <1>1, <1>2, <1>3

(* Whoever awaits an attempt is a request with a level to persist.         *)
LEMMA PursuedIsRequested ==
    ASSUME BaseInv, NEW i \in Clients, Pursued(svc, i), NEW owner, owner = svc.clients[i].owner
    PROVE  /\ owner \in Requests /\ request[owner] # NoRequest
           /\ request[owner].kind \in Levels /\ request[owner].arg \in Passwords
<1>1. owner \in Requests /\ svc.calls[owner].pc = "connecting"
  BY Zenon DEF Pursued, Requests, BaseInv, CallsInv, CallsOf
<1>2. request[owner] # NoRequest /\ request[owner].kind \in Levels
  BY <1>1, NothingIsTyped, Zenon DEF BaseInv, CallsInv, CallsOf, Requests
<1>3. request \in [Requests -> [kind: Levels \cup {"none"}, arg: Passwords]]
  BY TypeOKSplits, Zenon DEF BaseInv, OtherTypes
<1> QED BY <1>1, <1>2, <1>3, Zenon

(* An attempt nobody calls for settles without a word.                     *)
LEMMA SettledIsQuiet ==
    ASSUME NEW s, NEW t, NEW i \in Clients, Settled(s, t, i), s.clients[i].owner \notin Callers
    PROVE  Quiet(s, t)
BY Zenon DEF Settled, Quiet, CallEnds, SameCalls

LEMMA NoRequestIsTyped == NoRequest \in [kind: Levels \cup {"none"}, arg: Passwords]
BY ProvisioningAssumption DEF NoRequest, Passwords

LEMMA ClientConnectsSteps ==
    ASSUME BaseInv, NEW i \in Clients, ClientConnects(i)
    PROVE  TypeOK' /\ StepKinds
<1> svc \in Service /\ svc.armed <= MaxTimers /\ OtherTypes /\ TimersOf(svc)
  BY TypeOKSplits, Zenon DEF BaseInv, CallsInv, CallsOf
<1> /\ Connects(i) /\ svc.clients[i].phase = "connecting"
    /\ UNCHANGED <<accepting, up, minted, crashes, outages, fromRows, lingering>>
  BY Zenon DEF ClientConnects, Connects
<1>3. process \in {"connecting", "running"}
  BY EventsFollowStartup, Zenon
<1> /\ svc.clients[i].listening => Established(svc, svc', i) /\ Settled(svc, svc', i)
    /\ ~svc.clients[i].listening => Quiet(svc, svc') /\ svc'.armed = svc.armed
  BY ConnectsDoes, Zenon
<1>5. svc' \in Service /\ svc'.armed <= MaxTimers
  BY Zenon DEF Established, Quiet, SameTimers
<1> PICK owner : owner = svc.clients[i].owner
  BY Zenon
<1>7. CASE owner \in Requests /\ svc.clients[i].listening /\ Persist(owner)
  <2>1. Pursued(svc, i)
    BY <1>7, Zenon DEF Pursued, Requests
  <2>3. request[owner].kind \in Levels /\ request[owner].arg \in Passwords
    BY <2>1, PursuedIsRequested, Zenon
  <2>4. PICK level \in Levels, v \in Passwords :
          level = request[owner].kind /\ v = request[owner].arg
    BY <2>3, Zenon
  <2>2. request' = [request EXCEPT ![owner] = NoRequest] /\ UNCHANGED process
    BY <1>7, Zenon DEF Persist
  <2>5. CASE Completes(PersistWrites(level, v)) /\ Stray(FALSE)
    <3>1. disk' \in DiskType
      BY <2>5, PersistWritesDo, Zenon DEF OtherTypes, Wrote
    <3>2. strayed' = strayed
      BY <2>5, Zenon DEF Stray, OtherTypes
    <3>3. OtherTypes'
      BY <2>2, <3>1, <3>2, NoRequestIsTyped, Zenon DEF OtherTypes
    <3>4. CallSucceeds(i)
      BY <1>7, <2>1, <2>2, <2>4, <2>5, <3>2, Zenon DEF CallSucceeds, Persisted
    <3> QED BY <1>5, <3>3, <3>4, TypeOKJoins, Zenon DEF StepKinds
  <2>6. CASE (UNCHANGED disk \/ StopsAmid(PersistWrites(level, v))) /\ Stray(TRUE)
    <3>1. disk' \in DiskType /\ SameFiles(disk, disk')
      BY <2>6, PersistWritesDo, Zenon DEF OtherTypes, Wrote, SameFiles
    <3>2. strayed' = TRUE
      BY <2>6, Zenon DEF Stray
    <3>3. OtherTypes'
      BY <2>2, <3>1, <3>2, NoRequestIsTyped, Zenon DEF OtherTypes
    <3>4. CallFails(i)
      BY <1>7, <2>1, <2>2, <3>1, <3>2, Zenon DEF CallFails
    <3> QED BY <1>5, <3>3, <3>4, TypeOKJoins, Zenon DEF StepKinds
  <2> QED BY <1>7, <2>4, <2>5, <2>6, Zenon DEF Persist
<1>8. CASE /\ owner \notin Requests \/ ~svc.clients[i].listening
           /\ process' = IF owner = "startup" THEN "running" ELSE process
           /\ UNCHANGED <<disk, request, strayed>>
  <2>1. Quiet(svc, svc')
    BY <1>8, SettledIsQuiet, Zenon DEF Requests
  <2>2. process' \in {"connecting", "running"} /\ process # "down"
    BY <1>3, <1>8, Zenon
  <2>3. OtherTypes'
    BY <1>8, <2>2, Zenon DEF OtherTypes
  <2>4. TypeOK'
    BY <1>5, <2>3, TypeOKJoins, Zenon
  <2> QED BY <1>8, <2>1, <2>2, <2>4, Zenon DEF Proceeds, StepKinds
<1> QED BY <1>7, <1>8, Zenon DEF ClientConnects

LEMMA EndsPersistingSteps ==
    ASSUME BaseInv, NEW i \in Clients, EndsPersisting(i)
    PROVE  TypeOK' /\ StepKinds
<1>1. OtherTypes
  BY TypeOKSplits, Zenon DEF BaseInv
<1> PICK owner : owner = svc.clients[i].owner
  BY Zenon
<1> /\ svc.clients[i].phase = "connecting" /\ svc.clients[i].listening /\ owner \in Requests
    /\ EndsAmid(PersistWrites(request[owner].kind, request[owner].arg)) /\ UNCHANGED minted
  BY Zenon DEF EndsPersisting
<1>4. Pursued(svc, i)
  BY Zenon DEF Pursued, Requests
<1>5. request[owner].kind \in Levels /\ request[owner].arg \in Passwords
  BY <1>4, PursuedIsRequested, Zenon
<1>6. PICK level \in Levels, v \in Passwords :
        level = request[owner].kind /\ v = request[owner].arg
  BY <1>5, Zenon
<1>7. StopsAmid(PersistWrites(level, v)) /\ Ends
  BY <1>6, Zenon DEF EndsAmid
<1>8. disk' \in DiskType /\ minted' \in Passwords
  BY <1>1, <1>7, PersistWritesDo, Zenon DEF OtherTypes, Wrote
<1> QED BY <1>7, <1>8, EndsDo, Zenon

LEMMA ClientFailsSteps ==
    ASSUME BaseInv, NEW i \in Clients, ClientFails(i)
    PROVE  TypeOK' /\ StepKinds
<1> svc \in Service /\ OtherTypes /\ TimersOf(svc)
  BY TypeOKSplits, Zenon DEF BaseInv, CallsInv, CallsOf
<1> PICK owner : owner = svc.clients[i].owner
  BY Zenon
<1> PICK hit \in BOOLEAN : hit = svc.clients[i].listening
  BY Zenon DEF Service, ClientType
<1> /\ Fails(i) /\ svc.clients[i].phase = "connecting" /\ svc'.armed <= MaxTimers
    /\ process' = IF owner = "startup" THEN "running" ELSE process
    /\ request' = [r \in Requests |-> IF hit /\ r = owner THEN NoRequest ELSE request[r]]
    /\ Stray(hit /\ owner \in Requests)
    /\ UNCHANGED <<accepting, disk, up, minted, crashes, outages, fromRows, lingering>>
  BY Zenon DEF ClientFails, Fails, WithinBounds
<1>5. process \in {"connecting", "running"}
  BY EventsFollowStartup, Zenon
<1> /\ svc.clients[i].listening => Settled(svc, svc', i)
    /\ ~svc.clients[i].listening => Quiet(svc, svc')
  BY FailsDoes, Zenon
<1>7. svc' \in Service
  BY Zenon DEF Settled, Quiet
<1>8. request' \in [Requests -> [kind: Levels \cup {"none"}, arg: Passwords]]
  BY NoRequestIsTyped, Zenon DEF OtherTypes
<1>9. OtherTypes'
  BY <1>5, <1>8, Zenon DEF OtherTypes, Stray
<1>10. TypeOK'
  BY <1>7, <1>9, TypeOKJoins, Zenon
<1>11. request \in [Requests -> [kind: Levels \cup {"none"}, arg: Passwords]]
  BY Zenon DEF OtherTypes
<1>12. CASE hit /\ owner \in Requests
  <2>1. Pursued(svc, i) /\ Settled(svc, svc', i)
    BY <1>12, Zenon DEF Pursued, Requests
  <2>2. request' = [request EXCEPT ![owner] = NoRequest]
    BY <1>11, <1>12, Zenon
  <2>3. owner # "startup"
    BY <1>12, ConnectionAssumption, Zenon DEF Requests
  <2>4. strayed' = TRUE /\ UNCHANGED <<disk, process>>
    BY <1>12, <2>3, Zenon DEF Stray
  <2> QED BY <1>10, <2>1, <2>2, <2>4, Zenon DEF CallFails, SameFiles, StepKinds
<1>13. CASE ~(hit /\ owner \in Requests)
  <2>1. Quiet(svc, svc')
    BY <1>13, SettledIsQuiet, Zenon DEF Requests
  <2>2. request' = request
    BY <1>11, <1>13, Zenon
  <2>3. strayed' = strayed
    BY <1>13, Zenon DEF Stray, OtherTypes
  <2>4. process # "down" /\ process' \in {"connecting", "running"}
    BY <1>5, Zenon
  <2> QED BY <1>10, <2>1, <2>2, <2>3, <2>4, Zenon DEF Proceeds, StepKinds
<1> QED BY <1>12, <1>13, Zenon

LEMMA ConnectionEventSteps ==
    ASSUME BaseInv, ConnectionEvent
    PROVE  TypeOK' /\ StepKinds
<1> svc \in Service /\ OtherTypes /\ TimersOf(svc) /\ CallsOf(svc, request)
  BY TypeOKSplits, Zenon DEF BaseInv, CallsInv, CallsOf
<1> /\ TimerFires \/ \E i \in Clients : Ended(i) \/ Lost(i) \/ ClosesQuietly(i)
    /\ svc'.armed <= MaxTimers
    /\ UNCHANGED <<accepting, disk, process, request, up, minted, crashes, outages, strayed,
                   fromRows, lingering>>
  BY Zenon DEF ConnectionEvent, WithinBounds
<1>3. OtherTypes'
  BY Zenon DEF OtherTypes
<1>4. SUFFICES /\ svc' \in Service /\ process \in {"connecting", "running"}
               /\ Quiet(svc, svc') \/ \E i \in Clients : Finished(svc, svc', i)
  BY <1>3, TypeOKJoins, Zenon DEF Proceeds, StepKinds
<1>5. CASE TimerFires
  BY <1>5, TimerDoes, EventsFollowStartup, Zenon DEF Quiet
<1>6. ASSUME NEW i \in Clients, Ended(i)
      PROVE  svc' \in Service /\ process \in {"connecting", "running"} /\ Finished(svc, svc', i)
  <2>1. Finished(svc, svc', i)
    BY <1>6, EndedDoes, Zenon
  <2>2. process \in {"connecting", "running"}
    BY <1>6, EventsFollowStartup, Zenon DEF Ended
  <2> QED BY <2>1, <2>2, FinishedKeepsCalls, Zenon
<1>7. ASSUME NEW i \in Clients, Lost(i)
      PROVE  svc' \in Service /\ process \in {"connecting", "running"} /\ Quiet(svc, svc')
  <2>1. Quiet(svc, svc')
    BY <1>7, LostDoes, Zenon
  <2>2. process \in {"connecting", "running"}
    BY <1>7, EventsFollowStartup DEF Lost
  <2> QED BY <2>1, <2>2, Zenon DEF Quiet
<1>8. ASSUME NEW i \in Clients, ClosesQuietly(i)
      PROVE  svc' \in Service /\ process \in {"connecting", "running"} /\ Quiet(svc, svc')
  <2>1. Quiet(svc, svc')
    BY <1>8, ClosesQuietlyDoes, Zenon
  <2>2. process \in {"connecting", "running"}
    BY <1>8, EventsFollowStartup, Zenon DEF ClosesQuietly
  <2> QED BY <2>1, <2>2 DEF Quiet
<1> QED BY <1>5, <1>6, <1>7, <1>8, Zenon

LEMMA RegenerateSteps ==
    ASSUME BaseInv, RegenerateSharedPassword
    PROVE  TypeOK' /\ StepKinds
<1> svc \in Service /\ svc.armed <= MaxTimers /\ OtherTypes
  BY TypeOKSplits, Zenon DEF BaseInv
<1>2. /\ process = "running" /\ disk.level = "shared_password"
      /\ minted < MaxPassword /\ minted' = minted + 1
  BY Zenon DEF RegenerateSharedPassword
<1> PICK v \in Passwords \ {0} : v = minted'
  BY <1>2, ProvisioningAssumption DEF OtherTypes, Passwords
<1>4. CASE EndsAmid(RegenerateWrites(minted'))
  <2>1. StopsAmid(RegenerateWrites(v)) /\ Ends
    BY <1>4, Zenon DEF EndsAmid
  <2>2. disk' \in DiskType
    BY <2>1, RegenerateWritesDo, Zenon DEF OtherTypes, Wrote
  <2> QED BY <2>1, <2>2, EndsDo, Zenon
<1>5. CASE /\ Completes(RegenerateWrites(minted')) /\ Stray(Overlaps) /\ Renewed(FALSE)
           /\ UNCHANGED <<svc, accepting, process, request, up, crashes, outages>>
  <2>1. Completes(RegenerateWrites(v))
    BY <1>5, Zenon
  <2>2. disk' \in DiskType
    BY <2>1, RegenerateWritesDo, Zenon DEF OtherTypes, Wrote
  <2>3. OtherTypes'
    BY <1>5, <2>2, Zenon DEF OtherTypes, Stray, Renewed
  <2>4. TypeOK'
    BY <1>5, <2>3, TypeOKJoins, Zenon
  <2>5. FileChanges
    BY <1>2, <1>5, <2>1, Zenon DEF FileChanges, Renewed
  <2> QED BY <2>4, <2>5, Zenon DEF StepKinds
<1>6. CASE /\ StopsAmid(RegenerateWrites(minted')) /\ Stray(TRUE) /\ Renewed(FALSE)
           /\ UNCHANGED <<svc, accepting, process, request, up, crashes, outages>>
  <2>1. StopsAmid(RegenerateWrites(v))
    BY <1>6, Zenon
  <2>2. Wrote(disk, disk', disk.level, disk.backend, disk.shared, disk.rows, disk.conf,
              LevelLines(disk, "shared_password", v))
    BY <2>1, RegenerateWritesDo, Zenon DEF OtherTypes, LevelLines
  <2>3. OtherTypes'
    BY <1>6, <2>2, Zenon DEF OtherTypes, Wrote, Stray, Renewed
  <2>4. TypeOK'
    BY <1>6, <2>3, TypeOKJoins, Zenon
  <2>5. FileFails
    BY <1>2, <1>6, <2>2, Zenon DEF FileFails, Wrote, Stray, Levels
  <2> QED BY <2>4, <2>5, Zenon DEF StepKinds
<1> QED BY <1>4, <1>5, <1>6, Zenon DEF RegenerateSharedPassword

LEMMA ChangeRowsSteps ==
    ASSUME BaseInv, NEW rows \in SUBSET Devices, ChangeRows(rows)
    PROVE  TypeOK' /\ StepKinds
<1> svc \in Service /\ svc.armed <= MaxTimers /\ OtherTypes
  BY TypeOKSplits, Zenon DEF BaseInv
<1> process = "running" /\ UNCHANGED minted
  BY Zenon DEF ChangeRows
<1>3. CASE EndsAmid(RowWrites(rows))
  <2>1. Ends
    BY <1>3, Zenon DEF EndsAmid
  <2>2. disk' \in DiskType /\ minted' \in Passwords
    BY <1>3, RowWritesDo, Zenon DEF OtherTypes, EndsAmid, Wrote
  <2> QED BY <2>1, <2>2, EndsDo, Zenon
<1>4. CASE /\ Completes(RowWrites(rows)) /\ Stray(Overlaps) /\ Renewed(TRUE)
           /\ UNCHANGED <<svc, accepting, process, request, up, crashes, outages>>
  <2>1. disk' \in DiskType
    BY <1>4, RowWritesDo, Zenon DEF OtherTypes, Wrote
  <2>2. OtherTypes'
    BY <1>4, <2>1, Zenon DEF OtherTypes, Stray, Renewed
  <2>3. TypeOK'
    BY <1>4, <2>2, TypeOKJoins, Zenon
  <2>4. FileChanges
    BY <1>4, Zenon DEF FileChanges, Renewed
  <2> QED BY <2>3, <2>4, Zenon DEF StepKinds
<1>5. CASE /\ StopsAmid(RowWrites(rows)) /\ Stray(TRUE)
           /\ lingering' = lingering \cup (disk.rows \ rows) /\ UNCHANGED fromRows
           /\ UNCHANGED <<svc, accepting, process, request, up, crashes, outages>>
  <2>1. Wrote(disk, disk', disk.level, disk.backend, disk.shared, rows, disk.conf, disk.file)
    BY <1>5, RowWritesDo, Zenon DEF OtherTypes
  <2>2. lingering' \subseteq Devices
    BY <1>5, Zenon DEF OtherTypes, DiskType
  <2>3. OtherTypes'
    BY <1>5, <2>1, <2>2, Zenon DEF OtherTypes, Wrote, Stray
  <2>4. TypeOK'
    BY <1>5, <2>3, TypeOKJoins, Zenon
  <2>5. FileFails
    BY <1>5, <2>1, Zenon DEF FileFails, Wrote, Stray
  <2> QED BY <2>4, <2>5, Zenon DEF StepKinds
<1> QED BY <1>3, <1>4, <1>5, Zenon DEF ChangeRows

LEMMA BrokerSteps ==
    ASSUME BaseInv, Reload \/ BrokerStops \/ BrokerStarts \/ UNCHANGED vars
    PROVE  TypeOK' /\ StepKinds
<1> svc \in Service /\ svc.armed <= MaxTimers /\ OtherTypes
  BY TypeOKSplits, Zenon DEF BaseInv
<1>2. FileAccepts(disk) \subseteq Credentials
  BY Zenon DEF FileAccepts, OtherTypes, DiskType
<1> UNCHANGED <<svc, disk, process, request, strayed, fromRows, lingering, minted, crashes>>
  BY Zenon DEF Reload, BrokerStops, BrokerStarts, vars
<1>4. accepting' \subseteq Credentials /\ up' \in BOOLEAN
  BY <1>2, Zenon DEF Reload, BrokerStops, BrokerStarts, vars, OtherTypes
<1>5. outages' \in 0..MaxOutages
  BY ProvisioningAssumption DEF Reload, BrokerStops, BrokerStarts, vars, OtherTypes
<1>6. OtherTypes'
  BY <1>4, <1>5, Zenon DEF OtherTypes
<1>7. TypeOK'
  BY <1>6, TypeOKJoins, Zenon
<1> QED BY <1>7, Zenon DEF Proceeds, StepKinds

LEMMA Steps ==
    ASSUME BaseInv, [Next]_vars
    PROVE  TypeOK' /\ StepKinds
<1>1. CASE Startup
  BY <1>1, StartupSteps, Zenon
<1>2. CASE StartupConnects
  BY <1>2, StartupConnectsSteps
<1>3. CASE Crash
  BY <1>3, CrashSteps
<1>4. ASSUME NEW r \in Requests, NEW level \in Levels, SetSecurityLevel(r, level)
      PROVE  TypeOK' /\ StepKinds
  BY <1>4, SetSecurityLevelSteps, Zenon
<1>5. CASE RegenerateSharedPassword
  BY <1>5, RegenerateSteps
<1>6. CASE CreateDeviceCredential \/ RevokeDeviceCredential
  <2>1. disk.rows \in SUBSET Devices
    BY TypeOKSplits, Zenon DEF BaseInv, OtherTypes, DiskType
  <2>2. PICK rows \in SUBSET Devices : ChangeRows(rows)
    BY <1>6, <2>1, Zenon DEF CreateDeviceCredential, RevokeDeviceCredential
  <2> QED BY <2>2, ChangeRowsSteps, Zenon
<1>7. ASSUME NEW i \in Clients, ClientConnects(i) \/ EndsPersisting(i) \/ ClientFails(i)
      PROVE  TypeOK' /\ StepKinds
  BY <1>7, ClientConnectsSteps, EndsPersistingSteps, ClientFailsSteps, Zenon
<1>8. CASE ConnectionEvent
  BY <1>8, ConnectionEventSteps
<1>9. CASE Reload \/ BrokerStops \/ BrokerStarts \/ UNCHANGED vars
  BY <1>9, BrokerSteps, Zenon
<1> QED BY <1>1, <1>2, <1>3, <1>4, <1>5, <1>6, <1>7, <1>8, <1>9, Zenon DEF Next

LEMMA LevelSetKeepsCalls ==
    ASSUME BaseInv, NEW r \in Requests, NEW level \in Levels, LevelSet(r, level)
    PROVE  CallsInv'
<1>1. svc \in Service /\ CallsOf(svc, request)
      /\ request \in [Requests -> [kind: Levels \cup {"none"}, arg: Passwords]]
  BY TypeOKSplits, Zenon DEF BaseInv, CallsInv, OtherTypes
<1>2. PICK as : Reconnects(svc, svc', r, as)
  BY Zenon DEF LevelSet
<1>3. request'[r] = [kind |-> level, arg |-> minted']
      /\ \A q \in Requests \ {r} : request'[q] = request[q]
  BY <1>1, Zenon DEF LevelSet, Begin
<1>4. request'[r].kind = level /\ request'[r] # NoRequest
  BY <1>3 DEF NoRequest, Levels
<1>5. svc.calls[r] = NoCall /\ r \in Callers /\ process' = "running"
  BY Zenon DEF LevelSet, Requests
<1>6. PICK p : p = request'
  BY Zenon
<1>7. p[r] # NoRequest /\ \A q \in Callers \ {r} : p[q] = request[q]
  BY <1>3, <1>4, <1>6, Zenon DEF Requests
<1>8. CallsOf(svc', p)
  BY <1>1, <1>2, <1>5, <1>7, ReconnectsKeepsCalls, Zenon
<1>9. \A q \in Requests : request'[q] # NoRequest => request'[q].kind \in Levels
  BY <1>3, <1>4, Zenon DEF BaseInv, CallsInv
<1> QED BY <1>5, <1>6, <1>8, <1>9, Zenon DEF CallsInv

LEMMA SettledKeepsCallsInv ==
    ASSUME BaseInv, NEW i \in Clients, Pursued(svc, i), Settled(svc, svc', i), process' = process,
           NEW owner, owner = svc.clients[i].owner,
           request' = [request EXCEPT ![owner] = NoRequest]
    PROVE  CallsInv'
<1> svc \in Service /\ CallsOf(svc, request)
    /\ request \in [Requests -> [kind: Levels \cup {"none"}, arg: Passwords]]
  BY TypeOKSplits, Zenon DEF BaseInv, CallsInv, OtherTypes
<1>2. process \in {"connecting", "running"}
  BY EventsFollowStartup, Zenon DEF Pursued
<1>3. owner \in Requests
  BY PursuedIsRequested, Zenon
<1>4. PICK p : p = request'
  BY Zenon
<1>5. \A c \in Callers \ {owner} : p[c] = request[c]
  BY <1>4, Zenon DEF Requests
<1>6. PICK s \in Service : s = svc
  BY Zenon
<1> PICK t, q : t = svc' /\ q = request
  BY Zenon
<1>8. CallsOf(s, q) /\ Pursued(s, i) /\ Settled(s, t, i) /\ owner = s.clients[i].owner
  BY <1>6, Zenon
<1>9. Elsewhere(p, q, owner)
  BY <1>5, Zenon DEF Elsewhere
<1>13. SettledFor(s, t, q, p, i, owner)
  BY <1>8, <1>9, Zenon DEF SettledFor
<1>10. CallsOf(t, p)
  BY <1>13, SettledKeepsCalls, Zenon
<1>11. CallsOf(svc', p)
  BY <1>10, Zenon
<1>12. \A c \in Requests : request'[c] # NoRequest => request'[c].kind \in Levels
  BY <1>3, Zenon DEF BaseInv, CallsInv
<1> QED BY <1>2, <1>4, <1>11, <1>12, Zenon DEF CallsInv

LEMMA ProceedsKeepsCalls ==
    ASSUME BaseInv, Proceeds
    PROVE  CallsInv'
<1> /\ svc \in Service /\ CallsOf(svc, request)
    /\ request' = request /\ strayed' = strayed /\ fromRows' = fromRows
  BY TypeOKSplits, Zenon DEF BaseInv, CallsInv, Proceeds
<1>2. CASE UNCHANGED <<svc, process>>
  BY <1>2, Zenon DEF BaseInv, CallsInv
<1>3. CASE process' \in {"connecting", "running"} /\ Quiet(svc, svc')
  BY <1>3, QuietKeepsCalls, Zenon DEF BaseInv, CallsInv
<1>4. ASSUME NEW i \in Clients, process' \in {"connecting", "running"}, Finished(svc, svc', i)
      PROVE  CallsInv'
  BY <1>4, FinishedKeepsCalls, Zenon DEF BaseInv, CallsInv
<1> QED BY <1>2, <1>3, <1>4, Zenon DEF Proceeds

LEMMA BaseStep == BaseInv /\ [Next]_vars => BaseInv' /\ StepKinds
<1> SUFFICES ASSUME BaseInv, [Next]_vars PROVE BaseInv' /\ StepKinds
  BY Zenon
<1>1. TypeOK' /\ StepKinds
  BY Steps, Zenon
<1>8. SUFFICES CallsInv'
  BY <1>1, Zenon DEF BaseInv
<1>2. CASE Downs
  BY <1>2, FreshIsBlank, BlankHasNoCalls, Zenon DEF Downs, CallsInv
<1>3. CASE Initialized
  <2>1. PICK as \in Credentials : svc' = [Fresh EXCEPT !.credentials = as]
    BY <1>3, LinesAreCredentials, Zenon DEF Initialized
  <2>2. Blank(svc')
    BY <2>1, FreshIsBlank, Zenon
  <2>3. \A r \in Requests : request'[r] = NoRequest
    BY <1>3, Zenon DEF Initialized, BaseInv, CallsInv
  <2> QED BY <1>3, <2>1, <2>2, <2>3, BlankHasNoCalls, Zenon DEF Initialized, CallsInv
<1>4. ASSUME NEW r \in Requests, NEW level \in Levels, LevelSet(r, level)
      PROVE  CallsInv'
  BY <1>4, LevelSetKeepsCalls, Zenon
<1>5. ASSUME NEW i \in Clients, CallSucceeds(i) \/ CallFails(i)
      PROVE  CallsInv'
  BY <1>5, SettledKeepsCallsInv, Zenon DEF CallSucceeds, CallFails, Persisted
<1>6. CASE Proceeds
  BY <1>6, ProceedsKeepsCalls, Zenon
<1>7. CASE FileChanges \/ FileFails
  BY <1>7, Zenon DEF FileChanges, FileFails, BaseInv, CallsInv
<1> QED BY <1>1, <1>2, <1>3, <1>4, <1>5, <1>6, <1>7 DEF StepKinds

LEMMA BaseInit == Init => BaseInv
<1> SUFFICES ASSUME Init PROVE BaseInv
  BY Zenon
<1>1. 0 \in Passwords /\ 0 \in 0..MaxCrashes /\ 0 \in 0..MaxOutages
  BY ProvisioningAssumption DEF Passwords
<1>2. disk \in DiskType
  BY <1>1, Zenon DEF Init, DiskType, Levels
<1>3. OtherTypes
  BY <1>1, <1>2, NoRequestIsTyped, Zenon DEF Init, OtherTypes
<1> svc = Fresh /\ Blank(svc)
  BY FreshIsBlank, Zenon DEF Init
<1>5. TypeOK
  BY <1>3, TypeOKSplits, ConnectionAssumption DEF Blank
<1>6. CallsOf(svc, request)
  BY BlankHasNoCalls, Zenon
<1>7. CallsInv
  BY <1>6, Zenon DEF Init, CallsInv
<1> QED BY <1>5, <1>7, Zenon DEF BaseInv

(* Whatever overlaps or crashes, a call of reconnectWithCredentials() is   *)
(* awaited by a request, and an attempt that is made for a call belongs to *)
(* that call alone.                                                        *)
THEOREM ServiceInvariant == Spec => []BaseInv
<1>1. BaseInv /\ [Next]_vars => BaseInv'
  BY BaseStep, Zenon
<1> QED BY <1>1, BaseInit, PTL DEF Spec

-----------------------------------------------------------------------------
(* The credential the service presents.  A call that awaits the end of the *)
(* old connection holds the one that will be stored.                       *)

CredentialsOf(s, d) ==
    d.conf = "auth" =>
        /\ Backend(d.backend) \in d.file
        /\ ~s.overlapped =>
            /\ (\A c \in Callers : s.calls[c].pc # "ending") => s.credentials = Backend(d.backend)
            /\ \A c \in Callers : s.calls[c].pc = "ending" => s.calls[c].as = Backend(d.backend)

CredentialsInv == process # "down" => CredentialsOf(svc, disk)

LEMMA SameCallsKeepCredentials ==
    ASSUME NEW s, NEW t, NEW d, CredentialsOf(s, d), SameCalls(s, t)
    PROVE  CredentialsOf(t, d)
BY Zenon DEF CredentialsOf, SameCalls

LEMMA ReplacedKeepsCredentials ==
    ASSUME NEW s, NEW t, NEW d, CredentialsOf(s, d), NEW c \in Callers,
           s.calls[c].pc = "ending", Replaced(s, t, c)
    PROVE  CredentialsOf(t, d)
<1>1. /\ t.credentials = s.calls[c].as /\ t.overlapped = s.overlapped
      /\ t.calls[c].pc = "connecting" /\ \A b \in Callers \ {c} : t.calls[b] = s.calls[b]
  BY Zenon DEF Replaced
<1> QED BY <1>1, Zenon DEF CredentialsOf

LEMMA SettledKeepsCredentials ==
    ASSUME BaseInv, NEW i \in Clients, Pursued(svc, i), Settled(svc, svc', i),
           NEW d, CredentialsOf(svc, disk),
           d.conf = disk.conf, d.backend = disk.backend, d.file = disk.file
    PROVE  CredentialsOf(svc', d)
<1>1. PICK owner : owner = svc.clients[i].owner
  BY Zenon
<1> owner \in Callers /\ svc.calls[owner].pc = "connecting" /\ svc.calls \in [Callers -> CallType]
  BY <1>1, TypeOKSplits, Zenon DEF BaseInv, CallsInv, CallsOf, Pursued, Service
<1>3. /\ svc'.calls = [svc.calls EXCEPT ![owner] = NoCall]
      /\ svc'.credentials = svc.credentials /\ svc'.overlapped = svc.overlapped
  BY <1>1, Zenon DEF Settled, CallEnds
<1>4. svc'.calls[owner] = NoCall /\ \A c \in Callers \ {owner} : svc'.calls[c] = svc.calls[c]
  BY <1>3, Zenon
<1> QED BY <1>3, <1>4, NothingIsTyped, Zenon DEF CredentialsOf

LEMMA LevelSetKeepsCredentials ==
    ASSUME BaseInv, NEW r \in Requests, NEW level \in Levels, LevelSet(r, level)
    PROVE  CredentialsOf(svc', disk')
<1>1. disk \in DiskType /\ svc \in Service
  BY TypeOKSplits, Zenon DEF BaseInv, OtherTypes
<1>2. PICK v \in Passwords : v = minted'
  BY Zenon DEF LevelSet
<1>3. Completes(LevelWrites(level, v))
  BY <1>2, Zenon DEF LevelSet
<1> /\ disk'.backend = disk.backend
    /\ level = "open" => disk'.conf = "open"
    /\ level # "open" => disk'.file = LevelLines(disk, level, v)
  BY <1>1, <1>3, LevelWritesDo, Zenon
<1>5. CASE level = "open"
  BY <1>5, Zenon DEF CredentialsOf
<1>6. CASE level # "open"
  <2>1. Backend(disk'.backend) \in disk'.file
    BY <1>6, Zenon DEF LevelLines
  <2>2. PICK m : /\ Begun(svc, m, r, Backend(disk.backend))
                 /\ Ceases(m, svc') \/ Replaced(m, svc', r)
    BY <1>6, Zenon DEF LevelSet, Reconnects
  <2> svc.calls[r] = NoCall /\ r \in Callers /\ svc.calls \in [Callers -> CallType]
    BY <1>1, Zenon DEF LevelSet, Requests, Service
  <2>4. /\ m.calls[r].pc = "ending" /\ m.calls[r].as = Backend(disk.backend)
        /\ \A c \in Callers \ {r} : m.calls[c] = svc.calls[c]
        /\ ~m.overlapped => \A c \in Callers : svc.calls[c] = NoCall
    <3>1. /\ m.calls = [svc.calls EXCEPT ![r] = [pc |-> "ending", on |-> svc.client,
                                                 as |-> Backend(disk.backend)]]
          /\ m.overlapped = (svc.overlapped \/ \E c \in Callers : svc.calls[c] # NoCall)
      BY <2>2, Zenon DEF Begun
    <3>2. /\ m.calls[r] = [pc |-> "ending", on |-> svc.client, as |-> Backend(disk.backend)]
          /\ \A c \in Callers \ {r} : m.calls[c] = svc.calls[c]
      BY <3>1, Zenon
    <3>3. ~m.overlapped => \A c \in Callers : svc.calls[c] = NoCall
      BY <3>1, Zenon
    <3> QED BY <3>2, <3>3
  <2>5. CredentialsOf(m, disk')
    BY <2>1, <2>4, NothingIsTyped, Zenon DEF CredentialsOf
  <2>6. CASE Ceases(m, svc')
    BY <2>5, <2>6, SameCallsKeepCredentials, Zenon DEF Ceases
  <2>7. CASE Replaced(m, svc', r)
    BY <2>4, <2>5, <2>7, ReplacedKeepsCredentials, Zenon
  <2> QED BY <2>2, <2>6, <2>7, Zenon
<1> QED BY <1>5, <1>6, Zenon

LEMMA CredentialsStep ==
    ASSUME BaseInv, CredentialsInv, StepKinds
    PROVE  CredentialsInv'
<1> disk \in DiskType /\ svc \in Service
  BY TypeOKSplits, Zenon DEF BaseInv, OtherTypes
<1>2. CASE Downs
  BY <1>2, Zenon DEF Downs, CredentialsInv
<1>3. CASE Initialized
  <2>1. PICK v \in Passwords : v = minted'
    BY <1>3, Zenon DEF Initialized
  <2>2. Completes(InitializeWrites(v))
    BY <1>3, <2>1, Zenon DEF Initialized
  <2> /\ disk'.backend = v
      /\ disk.level = "open" => disk'.conf = "open"
      /\ disk.level # "open" => disk'.file = Composed(disk')
    BY <2>2, InitializeWritesDo, Zenon
  <2>4. CASE disk.level = "open"
    BY <2>4, Zenon DEF CredentialsInv, CredentialsOf
  <2>5. CASE disk.level # "open"
    <3>1. Backend(disk'.backend) \in disk'.file
      BY <2>5, Zenon DEF Composed
    <3>2. svc' = [Fresh EXCEPT !.credentials = Backend(v)]
      BY <1>3, <2>1, <2>5, Zenon DEF Initialized
    <3>3. Blank(svc') /\ svc'.credentials = Backend(v)
      BY <3>2, LinesAreCredentials, FreshIsBlank, Zenon
    <3> QED BY <3>1, <3>3, NothingIsTyped, Zenon DEF Blank, CredentialsInv, CredentialsOf
  <2> QED BY <2>4, <2>5, Zenon
<1>4. ASSUME NEW r \in Requests, NEW level \in Levels, LevelSet(r, level)
      PROVE  CredentialsInv'
  BY <1>4, LevelSetKeepsCredentials, Zenon DEF CredentialsInv
<1>5. ASSUME NEW i \in Clients, CallSucceeds(i)
      PROVE  CredentialsInv'
  <2>1. PICK owner : owner = svc.clients[i].owner
    BY Zenon
  <2> Pursued(svc, i) /\ Settled(svc, svc', i) /\ Persisted(owner)
    BY <1>5, <2>1, Zenon DEF CallSucceeds
  <2>3. request[owner].kind \in Levels /\ request[owner].arg \in Passwords
    BY <2>1, PursuedIsRequested, Zenon
  <2>4. PICK level \in Levels, v \in Passwords :
          level = request[owner].kind /\ v = request[owner].arg
    BY <2>3, Zenon
  <2>5. Completes(PersistWrites(level, v)) /\ process' = process
    BY <2>4, Zenon DEF Persisted
  <2>6. disk'.conf = disk.conf /\ disk'.backend = disk.backend /\ disk'.file = disk.file
    BY <2>5, PersistWritesDo, Zenon DEF Wrote
  <2> QED BY <2>5, <2>6, SettledKeepsCredentials, Zenon DEF CredentialsInv
<1>6. ASSUME NEW i \in Clients, CallFails(i)
      PROVE  CredentialsInv'
  BY <1>6, SettledKeepsCredentials, Zenon DEF CallFails, SameFiles, CredentialsInv
<1>7. CASE Proceeds
  <2>1. CASE UNCHANGED <<svc, process>>
    BY <1>7, <2>1, Zenon DEF Proceeds, CredentialsInv
  <2>2. CASE process # "down" /\ Quiet(svc, svc')
    BY <1>7, <2>2, SameCallsKeepCredentials, Zenon DEF Proceeds, CredentialsInv, Quiet
  <2>3. ASSUME NEW i \in Clients, process # "down", Finished(svc, svc', i)
        PROVE  CredentialsInv'
    <3>1. PICK m : /\ SameCalls(svc, m)
                   /\ svc' = m \/ \E c \in Callers : svc.calls[c].pc = "ending" /\ Replaced(m, svc', c)
      BY <2>3, Zenon DEF Finished, Quiet
    <3>2. CredentialsOf(m, disk) /\ m.calls = svc.calls
      BY <2>3, <3>1, SameCallsKeepCredentials, Zenon DEF CredentialsInv, SameCalls
    <3>3. CredentialsOf(svc', disk)
      BY <3>1, <3>2, ReplacedKeepsCredentials, Zenon
    <3> QED BY <1>7, <3>3, Zenon DEF Proceeds, CredentialsInv
  <2> QED BY <1>7, <2>1, <2>2, <2>3, Zenon DEF Proceeds
<1>8. CASE FileChanges
  <2>1. /\ disk'.backend = disk.backend /\ disk'.conf = disk.conf
        /\ Backend(disk.backend) \in disk'.file
    BY <1>8, RegenerateWritesDo, RowWritesDo, Zenon DEF FileChanges, Wrote
  <2> QED BY <1>8, <2>1, Zenon DEF FileChanges, CredentialsInv, CredentialsOf
<1>9. CASE FileFails
  <2>1. /\ disk'.backend = disk.backend /\ disk'.conf = disk.conf
        /\ disk'.file = disk.file \/ Backend(disk.backend) \in disk'.file
    BY <1>9, Zenon DEF FileFails, LevelLines
  <2> QED BY <1>9, <2>1, Zenon DEF FileFails, CredentialsInv, CredentialsOf
<1> QED BY <1>2, <1>3, <1>4, <1>5, <1>6, <1>7, <1>8, <1>9, Zenon DEF StepKinds

(* NextAttemptIsAdmitted: between changes the service presents a           *)
(* credential that the files on disk admit, whatever failed half-way.      *)
THEOREM AttemptsAreAdmitted == Spec => []NextAttemptIsAdmitted
<1>1. BaseInv /\ [Next]_vars => BaseInv' /\ StepKinds
  BY BaseStep, Zenon
<1>2. BaseInv /\ CredentialsInv /\ StepKinds => CredentialsInv'
  BY CredentialsStep, Zenon
<1>3. Init => CredentialsInv
  BY Zenon DEF Init, CredentialsInv
<1>4. BaseInv /\ CredentialsInv => NextAttemptIsAdmitted
  <2> SUFFICES ASSUME BaseInv, CredentialsInv,
                      process # "down", ~svc.overlapped, EndingCalls = {}
               PROVE  svc.credentials \in FileAccepts(disk)
    BY Zenon DEF NextAttemptIsAdmitted
  <2>1. svc.credentials \in Credentials /\ disk.conf \in {"open", "auth"}
    BY TypeOKSplits, Zenon DEF BaseInv, OtherTypes, Service, DiskType
  <2>2. \A c \in Callers : svc.calls[c].pc # "ending"
    BY Zenon DEF EndingCalls
  <2> QED BY <2>1, <2>2, Zenon DEF FileAccepts, CredentialsInv, CredentialsOf
<1> QED BY <1>1, <1>2, <1>3, <1>4, BaseInit, PTL DEF Spec

-----------------------------------------------------------------------------
(* The two files.  They are the ones of the settings and the rows, or,     *)
(* while a request reconnects, the ones of the level it will persist.      *)

Follows(d, rows) ==
    /\ d.conf = (IF d.level = "open" THEN "open" ELSE "auth")
    /\ d.level # "open" => d.file = IF rows THEN Regenerated(d).file ELSE Composed(d)

Prepared(d, q) ==
    /\ d.conf = (IF q.kind = "open" THEN "open" ELSE "auth")
    /\ q.kind = "shared_password" => q.arg # 0
    /\ q.kind # "open" => d.file = LevelLines(d, q.kind, q.arg)

FilesInv ==
    process # "down" /\ ~strayed =>
        /\ (\A r \in Requests : request[r] = NoRequest) => Follows(disk, fromRows)
        /\ \A r, q \in Requests : request[r] # NoRequest /\ request[q] # NoRequest => r = q
        /\ \A r \in Requests : request[r] # NoRequest =>
              Prepared(disk, request[r]) /\ (request[r].kind # "open" => ~fromRows)

(* Persisting the level a request prepared makes the settings agree.       *)
LEMMA PersistingFollows ==
    ASSUME NEW d \in DiskType, NEW e, NEW q, q.kind \in Levels, Prepared(d, q),
           Wrote(d, e, q.kind, d.backend, IF q.kind = "shared_password" THEN q.arg ELSE d.shared,
                 d.rows, d.conf, d.file),
           q.kind # "open" => ~fromRows
    PROVE  Follows(e, fromRows)
<1> /\ e.level = q.kind /\ e.backend = d.backend /\ e.rows = d.rows
    /\ e.conf = d.conf /\ e.file = d.file
    /\ q.kind = "shared_password" => e.shared = q.arg
  BY Zenon DEF Wrote
<1>2. CASE q.kind = "open"
  BY <1>2, Zenon DEF Prepared, Follows
<1>3. CASE q.kind = "shared_password"
  <2>1. Composed(e) = {Backend(d.backend)} \cup {Shared(q.arg)}
    BY <1>3, Zenon DEF Composed, Prepared
  <2>2. d.file = {Shared(q.arg), Backend(d.backend)}
    BY <1>3, Zenon DEF Prepared, LevelLines
  <2>3. e.file = Composed(e)
    BY <2>1, <2>2, Zenon
  <2> QED BY <1>3, <2>3, Zenon DEF Prepared, Follows
<1>4. CASE q.kind = "per_device"
  <2>1. Composed(e) = {Backend(d.backend)} \cup DeviceLines(e)
    BY <1>4, Zenon DEF Composed
  <2>2. DeviceLines(e) = DeviceLines(d)
    BY Zenon DEF DeviceLines
  <2>3. d.file = {Backend(d.backend)} \cup DeviceLines(d)
    BY <1>4, Zenon DEF Prepared, LevelLines
  <2> QED BY <1>4, <2>1, <2>2, <2>3, Zenon DEF Prepared, Follows
<1> QED BY <1>2, <1>3, <1>4, Zenon DEF Levels

LEMMA FileChangesFollow ==
    ASSUME BaseInv, FilesInv, FileChanges
    PROVE  FilesInv'
<1> disk \in DiskType
  BY TypeOKSplits, Zenon DEF BaseInv, OtherTypes
<1>2. UNCHANGED <<process, request>> /\ process = "running"
  BY Zenon DEF FileChanges
<1>3. SUFFICES ASSUME ~strayed'
               PROVE  Follows(disk', fromRows') /\ \A r \in Requests : request[r] = NoRequest
  BY <1>2, Zenon DEF FilesInv
<1> ~strayed /\ \A r \in Requests : request[r] = NoRequest
  BY <1>3, Zenon DEF FileChanges, Stray, Overlaps
<1>5. disk.conf = (IF disk.level = "open" THEN "open" ELSE "auth")
  BY <1>2, Zenon DEF FilesInv, Follows
<1>6. ASSUME disk.level = "shared_password", NEW v \in Passwords \ {0},
             Completes(RegenerateWrites(v)), ~fromRows'
      PROVE  Follows(disk', fromRows')
  <2> Wrote(disk, disk', disk.level, disk.backend, v, disk.rows, disk.conf,
            {Shared(v), Backend(disk.backend)})
    BY <1>6, RegenerateWritesDo, Zenon
  <2>2. Composed(disk') = {Backend(disk.backend)} \cup {Shared(v)}
    BY <1>6, Zenon DEF Composed, Wrote
  <2>3. disk'.file = Composed(disk')
    BY <2>2, Zenon DEF Wrote
  <2> QED BY <1>5, <1>6, <2>3, Zenon DEF Follows, Wrote
<1>7. ASSUME NEW rows \in SUBSET Devices, Completes(RowWrites(rows)), fromRows'
      PROVE  Follows(disk', fromRows')
  <2> Wrote(disk, disk', disk.level, disk.backend, disk.shared, rows, disk.conf,
            {Backend(disk.backend)} \cup {Device(x) : x \in rows})
    BY <1>7, RowWritesDo, Zenon
  <2>2. disk' \in DiskType
    BY Zenon DEF Wrote
  <2>3. {Backend(disk'.backend)} \cup DeviceLines(disk') \in SUBSET Credentials
    BY <2>2, LinesAreCredentials, DeviceLinesAreCredentials, Zenon DEF DiskType
  <2>4. Regenerated(disk').file = {Backend(disk'.backend)} \cup DeviceLines(disk')
    <3> PICK d \in DiskType : d = disk'
      BY <2>2, Zenon
    <3> PICK lines \in SUBSET Credentials : lines = {Backend(d.backend)} \cup DeviceLines(d)
      BY <2>3, Zenon
    <3>1. Regenerated(d) = PutFile(d, lines)
      BY Zenon DEF Regenerated
    <3>2. PutFile(d, lines).file = lines
      BY PutsAreTyped, Zenon DEF Wrote
    <3> QED BY <3>1, <3>2, Zenon
  <2>5. disk'.file = Regenerated(disk').file
    BY <2>4, Zenon DEF DeviceLines, Wrote
  <2> QED BY <1>5, <1>7, <2>5, Zenon DEF Follows, Wrote
<1> QED BY <1>6, <1>7, Zenon DEF FileChanges

LEMMA FilesStep ==
    ASSUME BaseInv, FilesInv, StepKinds
    PROVE  FilesInv'
<1> disk \in DiskType /\ request \in [Requests -> [kind: Levels \cup {"none"}, arg: Passwords]]
  BY TypeOKSplits, Zenon DEF BaseInv, OtherTypes
<1>2. CASE Downs
  BY <1>2, Zenon DEF Downs, FilesInv
<1>3. CASE Initialized
  <2>1. PICK v \in Passwords : v = minted'
    BY <1>3, Zenon DEF Initialized
  <2>2. Completes(InitializeWrites(v))
    BY <1>3, <2>1, Zenon DEF Initialized
  <2>5. ~fromRows'
    BY <1>3, Zenon DEF Initialized, BaseInv, CallsInv
  <2>3. Follows(disk', fromRows')
    BY <2>2, <2>5, InitializeWritesDo, Zenon DEF Follows
  <2>4. \A r \in Requests : request'[r] = NoRequest
    BY <1>3, Zenon DEF Initialized, BaseInv, CallsInv
  <2> QED BY <2>3, <2>4, Zenon DEF FilesInv
<1>4. ASSUME NEW r \in Requests, NEW level \in Levels, LevelSet(r, level)
      PROVE  FilesInv'
  <2> SUFFICES ASSUME ~strayed' PROVE FilesInv'
    BY Zenon DEF FilesInv
  <2>1. \A q \in Requests : request[q] = NoRequest
    BY <1>4, Zenon DEF LevelSet, Stray, Overlaps
  <2> PICK v \in Passwords : v = minted' /\ (level = "shared_password" => v # 0)
    BY <1>4, Zenon DEF LevelSet
  <2>3. /\ request'[r] = [kind |-> level, arg |-> v]
        /\ \A q \in Requests \ {r} : request'[q] = NoRequest
    BY <1>4, <2>1, Zenon DEF LevelSet, Begin
  <2>4. Completes(LevelWrites(level, v))
    BY <1>4, Zenon DEF LevelSet
  <2>5. /\ disk'.backend = disk.backend /\ disk'.rows = disk.rows
        /\ level = "open" => disk'.conf = "open"
        /\ level # "open" => disk'.conf = "auth" /\ disk'.file = LevelLines(disk, level, v)
    BY <2>4, LevelWritesDo, Zenon
  <2>6. LevelLines(disk', level, v) = LevelLines(disk, level, v)
    BY <2>5, Zenon DEF LevelLines, DeviceLines
  <2>7. request'[r].kind = level /\ request'[r].arg = v
    BY <2>3
  <2>8. Prepared(disk', request'[r])
    BY <2>5, <2>6, <2>7, Zenon DEF Prepared
  <2>9. request'[r] # NoRequest
    BY <2>7 DEF NoRequest, Levels
  <2>10. request'[r].kind # "open" => ~fromRows'
    BY <1>4, <2>7, Zenon DEF LevelSet
  <2> QED BY <2>3, <2>8, <2>9, <2>10, Zenon DEF FilesInv
<1>5. ASSUME NEW i \in Clients, CallSucceeds(i)
      PROVE  FilesInv'
  <2>1. PICK owner : owner = svc.clients[i].owner
    BY Zenon
  <2>2. Pursued(svc, i) /\ Persisted(owner)
    BY <1>5, <2>1, Zenon DEF CallSucceeds
  <2> /\ owner \in Requests /\ request[owner] # NoRequest
      /\ request[owner].kind \in Levels /\ request[owner].arg \in Passwords
    BY <2>1, <2>2, PursuedIsRequested, Zenon
  <2> PICK q : q = request[owner]
    BY Zenon
  <2> /\ Completes(PersistWrites(q.kind, q.arg)) /\ UNCHANGED <<process, strayed, fromRows>>
      /\ request' = [request EXCEPT ![owner] = NoRequest]
    BY <2>2, Zenon DEF Persisted
  <2> SUFFICES ASSUME process # "down", ~strayed
               PROVE  Follows(disk', fromRows') /\ \A r \in Requests : request'[r] = NoRequest
    BY Zenon DEF FilesInv
  <2>6. /\ Prepared(disk, q) /\ (q.kind # "open" => ~fromRows')
        /\ \A r \in Requests \ {owner} : request[r] = NoRequest
    BY Zenon DEF FilesInv
  <2>7. \A r \in Requests : request'[r] = NoRequest
    BY <2>6, Zenon
  <2>8. PICK level \in Levels, v \in Passwords : level = q.kind /\ v = q.arg
    BY Zenon
  <2>9. Completes(PersistWrites(level, v))
    BY <2>8, Zenon
  <2>10. Wrote(disk, disk', level, disk.backend,
               IF level = "shared_password" THEN v ELSE disk.shared,
               disk.rows, disk.conf, disk.file)
    BY <2>9, PersistWritesDo, Zenon
  <2>11. Follows(disk', fromRows)
    BY <2>6, <2>8, <2>10, PersistingFollows, Zenon
  <2> QED BY <2>7, <2>11, Zenon
<1>6. ASSUME NEW i \in Clients, CallFails(i)
      PROVE  FilesInv'
  BY <1>6, Zenon DEF CallFails, FilesInv
<1>7. CASE Proceeds
  BY <1>7, Zenon DEF Proceeds, FilesInv
<1>8. CASE FileChanges
  BY <1>8, FileChangesFollow, Zenon
<1>9. CASE FileFails
  BY <1>9, Zenon DEF FileFails, FilesInv
<1> QED BY <1>2, <1>3, <1>4, <1>5, <1>6, <1>7, <1>8, <1>9, Zenon DEF StepKinds

(* FilesFollowSettings: unless a change failed or overlapped another since *)
(* startup, the two files are the ones the persisted settings call for, or *)
(* the password file is the one of the rows, if a credential was created   *)
(* or deleted since it was last composed.                                  *)
THEOREM FilesFollow == Spec => []FilesFollowSettings
<1>1. BaseInv /\ [Next]_vars => BaseInv' /\ StepKinds
  BY BaseStep
<1>2. BaseInv /\ FilesInv /\ StepKinds => FilesInv'
  BY FilesStep
<1>3. Init => FilesInv
  BY Zenon DEF Init, FilesInv
<1>4. FilesInv => FilesFollowSettings
  BY Zenon DEF FilesInv, FilesFollowSettings, Follows, Overlaps
<1> QED BY <1>1, <1>2, <1>3, <1>4, BaseInit, PTL DEF Spec

-----------------------------------------------------------------------------
(* The password file lists no device without a stored credential, other    *)
(* than those whose revocation could not be written to it.                 *)
Stored(d, left) ==
    d.conf = "auth" => \A x \in Devices : Device(x) \in d.file => x \in d.rows \cup left

(* A line says whose it is.                                                *)
LEMMA LinesDiffer ==
    \A x \in Devices :
        /\ \A v : Device(x) # Backend(v) /\ Device(x) # Shared(v)
        /\ \A y : Device(x) = Device(y) => x = y
BY Zenon DEF Device, Backend, Shared

LEMMA DeviceLinesAreStored ==
    ASSUME NEW d
    PROVE  \A x \in Devices : Device(x) \in DeviceLines(d) => x \in d.rows
BY LinesDiffer, Zenon DEF DeviceLines

LEMMA RevokedStep ==
    ASSUME BaseInv, RevokedStaysOut, StepKinds
    PROVE  RevokedStaysOut'
<1> disk \in DiskType
  BY TypeOKSplits, Zenon DEF BaseInv, OtherTypes
<1> RevokedStaysOut <=> (process # "down" => Stored(disk, lingering))
  BY Zenon DEF RevokedStaysOut, Stored
<1> RevokedStaysOut' <=> (process' # "down" => Stored(disk', lingering'))
  BY Zenon DEF RevokedStaysOut, Stored
<1>4. CASE Downs
  BY <1>4, Zenon DEF Downs
<1>5. CASE Initialized
  <2>1. PICK v \in Passwords : v = minted'
    BY <1>5, Zenon DEF Initialized
  <2>2. Completes(InitializeWrites(v))
    BY <1>5, <2>1, Zenon DEF Initialized
  <2>3. /\ disk'.level = disk.level
        /\ disk.level = "open" => disk'.conf = "open"
        /\ disk.level # "open" => disk'.file = Composed(disk')
    BY <2>2, InitializeWritesDo, Zenon
  <2>4. \A x \in Devices : Device(x) \in Composed(disk') => x \in disk'.rows
    BY LinesDiffer, DeviceLinesAreStored, Zenon DEF Composed
  <2> QED BY <2>3, <2>4, Zenon DEF Stored
<1>6. ASSUME NEW r \in Requests, NEW level \in Levels, LevelSet(r, level)
      PROVE  Stored(disk', lingering')
  <2>1. PICK v \in Passwords : v = minted'
    BY <1>6, Zenon DEF LevelSet
  <2>2. Completes(LevelWrites(level, v))
    BY <1>6, <2>1, Zenon DEF LevelSet
  <2>3. /\ disk'.rows = disk.rows
        /\ level = "open" => disk'.conf = "open"
        /\ level # "open" => disk'.file = LevelLines(disk, level, v)
    BY <2>2, LevelWritesDo, Zenon
  <2>4. \A x \in Devices : Device(x) \in LevelLines(disk, level, v) => x \in disk.rows
    BY LinesDiffer, DeviceLinesAreStored, Zenon DEF LevelLines
  <2> QED BY <2>3, <2>4, Zenon DEF Stored
<1>7. ASSUME NEW i \in Clients, CallSucceeds(i)
      PROVE  RevokedStaysOut'
  <2>1. PICK owner : owner = svc.clients[i].owner
    BY Zenon
  <2>2. Pursued(svc, i) /\ Persisted(owner)
    BY <1>7, <2>1, Zenon DEF CallSucceeds
  <2>3. PICK level \in Levels, v \in Passwords :
          level = request[owner].kind /\ v = request[owner].arg
    BY <2>1, <2>2, PursuedIsRequested, Zenon
  <2>4. Completes(PersistWrites(level, v)) /\ UNCHANGED <<process, lingering>>
    BY <2>2, <2>3, Zenon DEF Persisted
  <2>5. disk'.conf = disk.conf /\ disk'.rows = disk.rows /\ disk'.file = disk.file
    BY <2>4, PersistWritesDo, Zenon DEF Wrote
  <2> QED BY <2>4, <2>5, Zenon DEF Stored
<1>8. ASSUME NEW i \in Clients, CallFails(i)
      PROVE  RevokedStaysOut'
  BY <1>8, Zenon DEF CallFails, SameFiles, Stored
<1>9. CASE Proceeds
  BY <1>9, Zenon DEF Proceeds
<1>10. CASE FileChanges
  <2>1. ASSUME NEW v \in Passwords, Completes(RegenerateWrites(v))
        PROVE  Stored(disk', lingering')
    <3>1. disk'.file = {Shared(v), Backend(disk.backend)}
      BY <2>1, RegenerateWritesDo, Zenon DEF Wrote
    <3> QED BY <3>1, LinesDiffer, Zenon DEF Stored
  <2>2. ASSUME NEW rows \in SUBSET Devices, Completes(RowWrites(rows))
        PROVE  Stored(disk', lingering')
    <3>1. disk'.rows = rows /\ disk'.file = {Backend(disk.backend)} \cup {Device(x) : x \in rows}
      BY <2>2, RowWritesDo, Zenon DEF Wrote
    <3> QED BY <3>1, LinesDiffer, Zenon DEF Stored
  <2> QED BY <1>10, <2>1, <2>2, Zenon DEF FileChanges
<1>11. CASE FileFails
  <2>1. process' = process /\ process = "running" /\ disk'.conf = disk.conf
    BY <1>11, Zenon DEF FileFails
  <2>2. CASE disk'.file = disk.file /\ lingering' = lingering \cup (disk.rows \ disk'.rows)
    BY <2>1, <2>2, Zenon DEF Stored
  <2>3. ASSUME NEW level \in Levels, NEW v \in Passwords,
               disk'.file = LevelLines(disk, level, v), disk'.rows = disk.rows
        PROVE  Stored(disk', lingering')
    <3>1. \A x \in Devices : Device(x) \in LevelLines(disk, level, v) => x \in disk.rows
      BY LinesDiffer, DeviceLinesAreStored, Zenon DEF LevelLines
    <3> QED BY <2>3, <3>1, Zenon DEF Stored
  <2> QED BY <1>11, <2>2, <2>3, Zenon DEF FileFails
<1> QED BY <1>4, <1>5, <1>6, <1>7, <1>8, <1>9, <1>10, <1>11, Zenon DEF StepKinds

(* RevokedStaysOut: whenever the broker is told to use the password file,  *)
(* its device lines are those of stored credentials, whatever was          *)
(* interrupted, failed or overlapped, but for a revocation whose own write *)
(* of the file failed and that no later write has made good.               *)
THEOREM RevokedStaysRevoked == Spec => []RevokedStaysOut
<1>1. BaseInv /\ [Next]_vars => BaseInv' /\ StepKinds
  BY BaseStep, Zenon
<1>2. BaseInv /\ RevokedStaysOut /\ StepKinds => RevokedStaysOut'
  BY RevokedStep, Zenon
<1>3. Init => RevokedStaysOut
  BY Zenon DEF Init, RevokedStaysOut
<1> QED BY <1>1, <1>2, <1>3, BaseInit, PTL DEF Spec

-----------------------------------------------------------------------------
ModeInv == process \in {"connecting", "running"} /\ ~svc.overlapped => ModeOf(svc)

LEMMA ModeOfUnchanged ==
    ASSUME ModeInv, UNCHANGED <<svc, process>> \/ process' \in {"down", "starting"}
    PROVE  ModeInv'
BY Zenon DEF ModeInv

LEMMA ClientMode ==
    ASSUME BaseInv, ModeInv, NEW i \in Clients, ClientConnects(i) \/ ClientFails(i)
    PROVE  ModeInv'
<1> svc \in Service /\ TimersOf(svc)
  BY TypeOKSplits, Zenon DEF BaseInv, CallsInv, CallsOf
<1> svc.clients[i].phase = "connecting"
  BY Zenon DEF ClientConnects, ClientFails, Connects, Fails
<1>3. process \in {"connecting", "running"}
  BY EventsFollowStartup, Zenon
<1> SUFFICES ASSUME ~svc'.overlapped PROVE ModeOf(svc')
  BY Zenon DEF ModeInv
<1>4. CASE ClientConnects(i)
  <2>1. /\ svc.clients[i].listening => Established(svc, svc', i)
        /\ ~svc.clients[i].listening => Quiet(svc, svc')
    BY <1>4, ConnectsDoes, Zenon DEF ClientConnects
  <2>2. ~svc.overlapped
    BY <2>1, Zenon DEF Established, CallEnds, Quiet, SameCalls
  <2>3. ModeOf(svc)
    BY <1>3, <2>2, Zenon DEF ModeInv
  <2>4. svc.clients[i].listening
    BY <2>3, PhaseTellsMode, Zenon DEF Trying, This
  <2> QED BY <2>1, <2>3, <2>4, ConnectsMode, Zenon
<1>5. CASE ClientFails(i)
  <2>1. /\ svc.clients[i].listening => Refused(svc, svc', i)
        /\ ~svc.clients[i].listening => Quiet(svc, svc')
    BY <1>5, FailsDoes, Zenon DEF ClientFails
  <2>2. ~svc.overlapped
    BY <2>1, Zenon DEF Refused, CallEnds, Quiet, SameCalls
  <2>3. ModeOf(svc)
    BY <1>3, <2>2 DEF ModeInv
  <2>4. svc.clients[i].listening
    BY <2>3, PhaseTellsMode DEF Trying, This
  <2> QED BY <2>1, <2>3, <2>4, FailsMode
<1> QED BY <1>4, <1>5, Zenon

LEMMA ConnectionEventMode ==
    ASSUME BaseInv, ModeInv, ConnectionEvent
    PROVE  ModeInv'
<1> svc \in Service /\ TimersOf(svc)
  BY TypeOKSplits, Zenon DEF BaseInv, CallsInv, CallsOf
<1> SUFFICES ASSUME ~svc'.overlapped PROVE ModeOf(svc')
  BY Zenon DEF ModeInv
<1>2. CASE TimerFires
  <2>1. Fired(svc, svc') /\ Quiet(svc, svc') /\ svc.armed > 0
    BY <1>2, TimerDoes, Zenon
  <2>2. ModeOf(svc)
    BY <2>1, EventsFollowStartup, Zenon DEF ModeInv, Quiet, SameCalls
  <2> QED BY <2>1, <2>2, TimerMode, Zenon
<1>3. ASSUME NEW i \in Clients, Ended(i)
      PROVE  ModeOf(svc')
  <2> Finished(svc, svc', i) /\ svc.clients[i].phase = "ending"
    BY <1>3, EndedDoes, Zenon DEF Ended
  <2>2. svc'.overlapped = svc.overlapped
    BY Zenon DEF Finished, Quiet, SameCalls, Replaced
  <2>3. ModeOf(svc)
    BY <2>2, EventsFollowStartup, Zenon DEF ModeInv
  <2> QED BY <2>3, EndedMode, Zenon
<1>4. ASSUME NEW i \in Clients, Lost(i)
      PROVE  ModeOf(svc')
  <2>1. Dropped(svc, svc', i) /\ svc.clients[i].phase = "open"
    BY <1>4, LostDoes, Zenon DEF Lost
  <2>2. ModeOf(svc)
    BY <2>1, EventsFollowStartup, Zenon DEF ModeInv, Dropped, SameCalls
  <2> QED BY <2>1, <2>2, LostMode, Zenon
<1>5. ASSUME NEW i \in Clients, ClosesQuietly(i)
      PROVE  ModeOf(svc')
  <2>1. /\ Dropped(svc, svc', i) /\ svc.clients[i].phase = "connecting"
        /\ svc'.hung <=> (svc.hung \/ i = svc.client)
    BY <1>5, ClosesQuietlyDoes, Zenon DEF ClosesQuietly
  <2>2. ModeOf(svc)
    BY <2>1, EventsFollowStartup, Zenon DEF ModeInv, Dropped, SameCalls
  <2> QED BY <2>1, <2>2, ClosesQuietlyMode, Zenon
<1> QED BY <1>2, <1>3, <1>4, <1>5, Zenon DEF ConnectionEvent

LEMMA SetSecurityLevelMode ==
    ASSUME BaseInv, ModeInv, NEW r \in Requests, NEW level \in Levels, SetSecurityLevel(r, level)
    PROVE  ModeInv'
<1> svc \in Service /\ TimersOf(svc) /\ disk \in DiskType
  BY TypeOKSplits, Zenon DEF BaseInv, CallsInv, CallsOf, OtherTypes
<1>2. CASE EndsAmid(LevelWrites(level, minted'))
  BY <1>2, ModeOfUnchanged, Zenon DEF EndsAmid, Ends
<1>3. CASE Reconnect(r, IF level = "open" THEN Anonymous ELSE Backend(disk.backend))
  <2>1. PICK as \in Credentials : as = IF level = "open" THEN Anonymous ELSE Backend(disk.backend)
    BY LinesAreCredentials, Zenon DEF DiskType
  <2>2. Reconnect(r, as) /\ r \in Callers
    BY <1>3, <2>1, Zenon DEF Requests
  <2>3. Reconnects(svc, svc', r, as)
    BY <2>2, ReconnectDoes, Zenon DEF TimersOf
  <2> SUFFICES ASSUME ~svc'.overlapped PROVE ModeOf(svc')
    BY Zenon DEF ModeInv
  <2>4. ~svc.overlapped
    <3>1. PICK m : Begun(svc, m, r, as) /\ m.overlapped = svc'.overlapped
      BY <2>3, Zenon DEF Reconnects, Ceases, Replaced, SameCalls
    <3> QED BY <3>1, Zenon DEF Begun
  <2>5. ModeOf(svc)
    BY <2>4, Zenon DEF SetSecurityLevel, ModeInv
  <2> QED BY <2>2, <2>3, <2>5, ReconnectMode, Zenon
<1>4. CASE UNCHANGED <<svc, process>>
  BY <1>4, ModeOfUnchanged, Zenon
<1> QED BY <1>2, <1>3, <1>4, Zenon DEF SetSecurityLevel

LEMMA StartupConnectsMode ==
    ASSUME BaseInv, StartupConnects
    PROVE  ModeInv'
<1>1. Blank(svc) /\ svc \in Service /\ TimersOf(svc)
  BY FreshIsBlank, TypeOKSplits, Zenon DEF BaseInv, CallsInv, CallsOf, StartupConnects
<1>2. PICK m : /\ m \in Service /\ m.clients = svc.clients /\ SameCalls(svc, m)
               /\ m.armed = svc.armed /\ m.timer = svc.timer /\ ~m.intentional
               /\ Attempted(m, svc', "startup")
  BY <1>1, ConnectWithRetryDoes, Zenon DEF StartupConnects
<1>3. /\ \A i \in Clients : m.clients[i].phase \in {"none", "closed"}
      /\ Idle(m) /\ m.armed = 0 /\ ~m.timer
  BY <1>1, <1>2, NothingIsTyped, Zenon DEF Blank, Idle, SameCalls
<1>4. ModeOf(svc')
  BY <1>2, <1>3, AttemptTries, Zenon
<1> QED BY <1>4, Zenon DEF ModeInv

LEMMA ModeStep ==
    ASSUME BaseInv, ModeInv, [Next]_vars
    PROVE  ModeInv'
<1>1. CASE Startup \/ Crash \/ RegenerateSharedPassword
  BY <1>1, ModeOfUnchanged, Zenon DEF Startup, Crash, RegenerateSharedPassword, EndsAmid, Ends
<1>2. CASE StartupConnects
  BY <1>2, StartupConnectsMode, Zenon
<1>3. ASSUME NEW r \in Requests, NEW level \in Levels, SetSecurityLevel(r, level)
      PROVE  ModeInv'
  BY <1>3, SetSecurityLevelMode, Zenon
<1>4. CASE CreateDeviceCredential \/ RevokeDeviceCredential
  BY <1>4, ModeOfUnchanged, Zenon
     DEF CreateDeviceCredential, RevokeDeviceCredential, ChangeRows, EndsAmid, Ends
<1>5. ASSUME NEW i \in Clients, ClientConnects(i) \/ ClientFails(i)
      PROVE  ModeInv'
  BY <1>5, ClientMode, Zenon
<1>6. ASSUME NEW i \in Clients, EndsPersisting(i)
      PROVE  ModeInv'
  BY <1>6, ModeOfUnchanged, Zenon DEF EndsPersisting, EndsAmid, Ends
<1>7. CASE ConnectionEvent
  BY <1>7, ConnectionEventMode, Zenon
<1>8. CASE Reload \/ BrokerStops \/ BrokerStarts \/ UNCHANGED vars
  BY <1>8, ModeOfUnchanged, Zenon DEF Reload, BrokerStops, BrokerStarts, vars
<1> QED BY <1>1, <1>2, <1>3, <1>4, <1>5, <1>6, <1>7, <1>8, Zenon DEF Next

LEMMA ModeIsLive ==
    ASSUME BaseInv, ModeInv
    PROVE  ConnectedIsLive
<1> SUFFICES ASSUME svc.state = "connected", EndingCalls = {}, ~svc.overlapped
             PROVE  /\ svc.client # 0
                    /\ svc.clients[svc.client].phase = "open"
                    /\ svc.clients[svc.client].handlers = 1
                    /\ \A i \in Clients \ {svc.client} : svc.clients[i].phase \in {"none", "ending"}
  BY Zenon DEF ConnectedIsLive
<1>1. process \in {"down", "starting"} => Blank(svc)
  BY FreshIsBlank, Zenon DEF BaseInv, CallsInv
<1>2. process \in {"connecting", "running"}
  BY <1>1, TypeOKSplits, Zenon DEF BaseInv, OtherTypes, Blank
<1>3. ModeOf(svc) /\ \A c \in Callers : ~Leaving(svc, c)
  BY <1>2, Zenon DEF ModeInv, EndingCalls, Leaving
<1>4. Live(svc)
  BY <1>3, Zenon DEF ModeOf, Trying, Waiting, Rejected, Hung
<1> QED BY <1>3, <1>4, Zenon DEF ModeOf, Live, This

LEMMA ModeRecovers ==
    ASSUME BaseInv, ModeInv
    PROVE  OneRecoveryUnderWay
<1> SUFFICES ASSUME process \in {"connecting", "running"}, ~svc.overlapped,
                    ~svc.rejected, ~svc.hung
             PROVE  svc.armed + Cardinality(Attempting) + Cardinality(EndingCalls)
                      = (IF svc.state = "connected" /\ EndingCalls = {} THEN 0 ELSE 1)
  BY Zenon DEF OneRecoveryUnderWay
<1> ModeOf(svc) /\ svc \in Service
  BY TypeOKSplits, Zenon DEF ModeInv, BaseInv
<1> Cardinality({}) = 0
  BY OneOrNone, Zenon
<1>3. ASSUME NEW x PROVE Cardinality({x}) = 1
  BY OneOrNone, Zenon
<1> Idle(svc) => EndingCalls = {}
  BY Zenon DEF Idle, EndingCalls
<1>5. \A i \in Clients : i # svc.client => i \notin Attempting
  BY Zenon DEF ModeOf, Attempting
<1>6. ASSUME svc.client # 0 => This(svc).phase # "connecting"
      PROVE  Attempting = {}
  <2>1. 0 \notin Clients
    BY DEF Clients
  <2> QED BY <1>5, <1>6, <2>1, Zenon DEF Attempting, This
<1>7. ASSUME NEW c \in Callers, Leaving(svc, c)
      PROVE  svc.armed + Cardinality(Attempting) + Cardinality(EndingCalls)
               = (IF svc.state = "connected" /\ EndingCalls = {} THEN 0 ELSE 1)
  <2>1. EndingCalls = {c}
    BY <1>7, Zenon DEF Leaving, EndingCalls
  <2>2. Attempting = {} /\ svc.armed = 0
    BY <1>6, <1>7, Zenon DEF Leaving, ModeOf
  <2>3. Cardinality(EndingCalls) = 1 /\ EndingCalls # {}
    BY <1>3, <2>1, Zenon
  <2> QED BY <2>2, <2>3
<1>8. CASE Idle(svc) /\ Live(svc)
  <2>1. Attempting = {} /\ EndingCalls = {} /\ svc.armed = 0 /\ svc.state = "connected"
    BY <1>6, <1>8, Zenon DEF Live, ModeOf
  <2> QED BY <2>1
<1>9. CASE Idle(svc) /\ Trying(svc)
  <2>1. EndingCalls = {} /\ svc.armed = 0 /\ svc.state # "connected"
    BY <1>9, Zenon DEF Trying, ModeOf
  <2>2. svc.client \in Attempting
    BY <1>9, Zenon DEF Trying, This, Attempting, Service
  <2>3. Attempting = {svc.client}
    BY <1>5, <2>2, Zenon DEF Attempting
  <2>4. Cardinality(Attempting) = 1
    BY <1>3, <2>3, Zenon
  <2> QED BY <2>1, <2>4
<1>10. CASE Idle(svc) /\ Waiting(svc)
  <2>1. Attempting = {} /\ EndingCalls = {} /\ svc.armed = 1 /\ svc.state # "connected"
    BY <1>6, <1>10, Zenon DEF Waiting, ModeOf
  <2> QED BY <2>1
<1> QED BY <1>7, <1>8, <1>9, <1>10, Zenon DEF ModeOf, Rejected, Hung

(* ConnectionInv: while changes of the credentials do not overlap,         *)
(* "connected" is a live connection with one set of handlers, and a        *)
(* service that is not connected has exactly one thing under way that will *)
(* bring it back.                                                          *)
THEOREM ConnectionRecovers == Spec => []ConnectionInv
<1>1. BaseInv /\ [Next]_vars => BaseInv'
  BY BaseStep, Zenon
<1>2. BaseInv /\ ModeInv /\ [Next]_vars => ModeInv'
  BY ModeStep, Zenon
<1>3. Init => ModeInv
  BY Zenon DEF Init, ModeInv
<1>4. BaseInv /\ ModeInv => ConnectionInv
  BY ModeIsLive, ModeRecovers, Zenon DEF ConnectionInv, BaseInv
<1> QED BY <1>1, <1>2, <1>3, <1>4, BaseInit, PTL DEF Spec
=============================================================================
