---------------------------- MODULE Provisioning ----------------------------
(***************************************************************************)
(* MqttProvisioningService and the MQTT credential service                 *)
(* (src/mqtt/mqtt-provisioning-service.ts,                                 *)
(* src/auth/mqtt-credential-service.ts), composed with the service's own   *)
(* connection (MqttConnection) and with the broker they configure.         *)
(*                                                                         *)
(* The settings, the credential rows, mosquitto.conf and the password file *)
(* outlive the process: they are the record disk.  An operation makes      *)
(* several durable writes, one after another, and the process may end      *)
(* between any two of them.  The broker reads the two files when it        *)
(* starts and when the sidecar signals it, at a time of its own.           *)
(***************************************************************************)
EXTENDS MqttConnection, Sequences

CONSTANTS
    Devices,      \* device credentials that may exist
    MaxPassword,  \* bound: passwords generated
    MaxCrashes,   \* bound: ends of the process
    MaxOutages    \* bound: times the broker goes away

Backend(v) == <<"backend", v>>
Shared(v) == <<"shared", v>>
Device(d) == <<"device", d>>

Levels == {"open", "shared_password", "per_device"}
Passwords == 0..MaxPassword   \* 0 is "not set"

ASSUME ProvisioningAssumption ==
    /\ Credentials = {Anonymous} \cup {Backend(v) : v \in Passwords}
                        \cup {Shared(v) : v \in Passwords} \cup {Device(d) : d \in Devices}
    /\ \A n \in {MaxPassword, MaxCrashes, MaxOutages} : n \in Nat

VARIABLES
    disk,     \* settings, credential rows and the broker's two files
    process,  \* "down", "starting", "connecting" (connectWithRetry) or "running"
    request,  \* what a request is waiting for
    up,       \* is the broker running?
    minted,   \* passwords generated so far
    crashes,  \* ends of the process so far
    outages,  \* broker outages so far
    strayed,  \* has a request failed or overlapped another since startup? (history)
    fromRows, \* was the password file last written by regeneratePasswordFile()? (history)
    lingering \* devices revoked since the last password file was written: the write
              \* that should have dropped them failed (history)

vars == <<svc, accepting, disk, process, request, up, minted, crashes, outages, strayed,
          fromRows, lingering>>

Requests == Callers

NoRequest == [kind |-> "none", arg |-> 0]

Init ==
    /\ disk = [level |-> "open", backend |-> 0, shared |-> 0, rows |-> {},
               conf |-> "open", file |-> {}]
    /\ process = "down" /\ request = [r \in Requests |-> NoRequest]
    /\ up \in BOOLEAN /\ minted = 0 /\ crashes = 0 /\ outages = 0 /\ strayed = FALSE
    /\ fromRows = FALSE /\ lingering = {}
    /\ svc = Fresh
    /\ accepting = IF up THEN Credentials ELSE {}

-----------------------------------------------------------------------------
(* Durable writes.  An operation is the sequence of values disk takes. *)

DeviceLines(d) == {Device(x) : x \in d.rows}

PutFile(d, lines) == [d EXCEPT !.file = lines]
PutConf(d, conf) == [d EXCEPT !.conf = conf]
PutLevel(d, level) == [d EXCEPT !.level = level]
PutShared(d, v) == [d EXCEPT !.shared = v]

\* Mutation: the file is not written again.
FileKept(d) == d

\* regeneratePasswordFile()
Regenerated(d) == PutFile(d, {Backend(d.backend)} \cup DeviceLines(d))

\* The lines initialize() rebuilds for a level; none are needed in open mode.
Composed(d) ==
    {Backend(d.backend)} \cup
    (IF d.level = "per_device" THEN DeviceLines(d)
     ELSE IF d.shared # 0 THEN {Shared(d.shared)} ELSE {})

\* ensureBackendCredential() with password v, then initialize().
InitializeWrites(v) ==
    LET d == [disk EXCEPT !.backend = v]
    IN  IF d.level = "open" THEN <<d, PutConf(d, "open")>>
        ELSE <<d, PutConf(d, "auth"), PutFile(PutConf(d, "auth"), Composed(d))>>

\* What setSecurityLevel() writes before it reconnects; v is the new shared password.
LevelWrites(level, v) ==
    LET lines == IF level = "per_device" THEN {Backend(disk.backend)} \cup DeviceLines(disk)
                 ELSE {Shared(v), Backend(disk.backend)}
    IN  IF level = "open" THEN <<PutConf(disk, "open")>>
        ELSE <<PutFile(disk, lines), PutConf(PutFile(disk, lines), "auth")>>

\* Mutation: the shared password is not persisted.
PersistLevelOnly(level, v) == <<PutLevel(disk, level)>>

\* What it writes once it has reconnected.
PersistWrites(level, v) ==
    LET d == PutLevel(disk, level)
    IN  IF level = "shared_password" THEN <<d, PutShared(d, v)>> ELSE <<d>>

\* regenerateSharedPassword()
RegenerateWrites(v) ==
    LET d == PutFile(disk, {Shared(v), Backend(disk.backend)}) IN <<d, PutShared(d, v)>>

\* createCredential() and deleteCredential()
RowWrites(rows) ==
    LET d == [disk EXCEPT !.rows = rows] IN <<d, Regenerated(d)>>

FileAccepts(d) == IF d.conf = "open" THEN Credentials ELSE d.file

-----------------------------------------------------------------------------
(* The process. *)

Ends == /\ process' = "down" /\ crashes < MaxCrashes /\ crashes' = crashes + 1
        /\ svc' = Fresh /\ request' = [r \in Requests |-> NoRequest] /\ strayed' = FALSE
        /\ fromRows' = FALSE /\ lingering' = {}
        /\ UNCHANGED <<up, outages, accepting>>

Completes(writes) == disk' = writes[Len(writes)]

\* An operation stops between two of its durable writes: the next one throws and the
\* request answers 500, or the process ends.
StopsAmid(writes) == \E k \in 1..(Len(writes) - 1) : disk' = writes[k]
EndsAmid(writes) == Ends /\ StopsAmid(writes)

Crash == process # "down" /\ Ends /\ UNCHANGED <<disk, minted>>

\* index.ts: ensureBackendCredential(), then provisioning.initialize().
Startup ==
    /\ process = "down" /\ minted < MaxPassword /\ minted' = minted + 1
    /\ LET writes == InitializeWrites(minted')
       IN  \/ /\ Completes(writes) /\ process' = "starting"
              /\ svc' = [Fresh EXCEPT !.credentials =
                            IF disk.level = "open" THEN Anonymous ELSE Backend(minted')]
              /\ UNCHANGED <<request, up, crashes, outages, strayed, fromRows, lingering,
                             accepting>>
           \/ EndsAmid(writes)

StartupConnects ==
    /\ process = "starting" /\ process' = "connecting" /\ ConnectWithRetry
    /\ UNCHANGED <<accepting, disk, request, up, minted, crashes, outages, strayed,
                   fromRows, lingering>>

-----------------------------------------------------------------------------
(* Requests.  Between two awaits a request runs without interruption.  The probes of      *)
(* verify(), which end every operation, only read: a request is over before them.         *)

Begin(r, kind, arg) == request' = [request EXCEPT ![r] = [kind |-> kind, arg |-> arg]]

Stray(bad) == strayed' = (strayed \/ bad)

Overlaps == \E q \in Requests : request[q] # NoRequest

\* The password file is written anew.
Renewed(rows) == fromRows' = rows /\ lingering' = {}

Mints(kind) == minted' = IF kind = "shared_password" THEN minted + 1 ELSE minted

\* setSecurityLevel(level), up to the end of the old connection.
SetSecurityLevel(r, level) ==
    /\ process = "running" /\ request[r] = NoRequest /\ Mints(level) /\ minted' <= MaxPassword
    /\ LET writes == LevelWrites(level, minted')
       IN  \/ /\ Completes(writes) /\ Begin(r, level, minted')
              /\ Reconnect(r, IF level = "open" THEN Anonymous ELSE Backend(disk.backend))
              /\ Stray(Overlaps)
              /\ IF level = "open" THEN UNCHANGED <<fromRows, lingering>> ELSE Renewed(FALSE)
              /\ UNCHANGED <<accepting, process, up, crashes, outages>>
           \/ /\ StopsAmid(writes) /\ Stray(TRUE) /\ Renewed(FALSE)
              /\ UNCHANGED <<svc, accepting, process, request, up, crashes, outages>>
           \/ EndsAmid(writes)

\* The await of reconnectWithCredentials() resolves: the level is persisted, or one of
\* the settings cannot be written.
Persist(owner) ==
    /\ LET writes == PersistWrites(request[owner].kind, request[owner].arg)
       IN  \/ Completes(writes) /\ Stray(FALSE)
           \/ UNCHANGED disk /\ Stray(TRUE)
           \/ StopsAmid(writes) /\ Stray(TRUE)
    /\ request' = [request EXCEPT ![owner] = NoRequest]
    /\ UNCHANGED process

\* A client of the service connects; whoever awaits it continues in the same turn.
ClientConnects(i) ==
    /\ Connects(i)
    /\ LET owner == svc.clients[i].owner
       IN  \/ owner \in Requests /\ svc.clients[i].listening /\ Persist(owner)
           \/ /\ owner \notin Requests \/ ~svc.clients[i].listening
              /\ process' = IF owner = "startup" THEN "running" ELSE process
              /\ UNCHANGED <<disk, request, strayed>>
    /\ UNCHANGED <<accepting, up, minted, crashes, outages, fromRows, lingering>>

\* ... and the process may end while it persists.
EndsPersisting(i) ==
    /\ svc.clients[i].phase = "connecting" /\ Admits(i) /\ svc.clients[i].listening
    /\ LET owner == svc.clients[i].owner
       IN  owner \in Requests
           /\ EndsAmid(PersistWrites(request[owner].kind, request[owner].arg))
    /\ UNCHANGED minted

\* A client fails: a request answers 500 and leaves its files, startup goes on.
ClientFails(i) ==
    /\ Fails(i) /\ WithinBounds
    /\ LET owner == svc.clients[i].owner
           hit == svc.clients[i].listening
       IN  /\ process' = IF owner = "startup" THEN "running" ELSE process
           /\ request' = [r \in Requests |-> IF hit /\ r = owner THEN NoRequest ELSE request[r]]
           /\ Stray(hit /\ owner \in Requests)
    /\ UNCHANGED <<accepting, disk, up, minted, crashes, outages, fromRows, lingering>>

\* The other events of the connection concern no request.
ConnectionEvent ==
    /\ TimerFires \/ \E i \in Clients : Ended(i) \/ Lost(i) \/ ClosesQuietly(i)
    /\ WithinBounds
    /\ UNCHANGED <<accepting, disk, process, request, up, minted, crashes, outages, strayed,
                   fromRows, lingering>>

RegenerateSharedPassword ==
    /\ process = "running" /\ disk.level = "shared_password"
    /\ minted < MaxPassword /\ minted' = minted + 1
    /\ LET writes == RegenerateWrites(minted')
       IN  \/ /\ \/ Completes(writes) /\ Stray(Overlaps)
                 \/ StopsAmid(writes) /\ Stray(TRUE)
              /\ Renewed(FALSE)
              /\ UNCHANGED <<svc, accepting, process, request, up, crashes, outages>>
           \/ EndsAmid(writes)

\* createCredential()/deleteCredential(): through the provisioning service, which asks for
\* per_device mode, or through /auth/mqtt-credentials, which does not.  The row is
\* committed before the file is written, and the file's write may throw.
ChangeRows(rows) ==
    /\ process = "running" /\ UNCHANGED minted
    /\ LET writes == RowWrites(rows)
       IN  \/ /\ \/ Completes(writes) /\ Stray(Overlaps) /\ Renewed(TRUE)
                 \/ /\ StopsAmid(writes) /\ Stray(TRUE)
                    /\ lingering' = lingering \cup (disk.rows \ rows) /\ UNCHANGED fromRows
              /\ UNCHANGED <<svc, accepting, process, request, up, crashes, outages>>
           \/ EndsAmid(writes)

CreateDeviceCredential == \E d \in Devices \ disk.rows : ChangeRows(disk.rows \cup {d})
RevokeDeviceCredential == \E d \in disk.rows : ChangeRows(disk.rows \ {d})

-----------------------------------------------------------------------------
(* The broker, and the sidecar that signals it. *)

Reload ==
    /\ up /\ accepting # FileAccepts(disk) /\ accepting' = FileAccepts(disk)
    /\ UNCHANGED <<svc, disk, process, request, up, minted, crashes, outages, strayed,
                   fromRows, lingering>>

BrokerStops ==
    /\ up /\ outages < MaxOutages /\ outages' = outages + 1
    /\ up' = FALSE /\ accepting' = {}
    /\ UNCHANGED <<svc, disk, process, request, minted, crashes, strayed, fromRows, lingering>>

BrokerStarts ==
    /\ ~up /\ up' = TRUE /\ accepting' = FileAccepts(disk)
    /\ UNCHANGED <<svc, disk, process, request, minted, crashes, outages, strayed,
                   fromRows, lingering>>

-----------------------------------------------------------------------------
Next ==
    \/ Startup \/ StartupConnects \/ Crash
    \/ \E r \in Requests, level \in Levels : SetSecurityLevel(r, level)
    \/ RegenerateSharedPassword \/ CreateDeviceCredential \/ RevokeDeviceCredential
    \/ \E i \in Clients : ClientConnects(i) \/ EndsPersisting(i) \/ ClientFails(i)
    \/ ConnectionEvent
    \/ Reload \/ BrokerStops \/ BrokerStarts

Spec == Init /\ [][Next]_vars

\* The event loop serves what is ready, timers fire, the broker is restarted and the
\* sidecar signals it.  No operation, crash or outage is promised.
Fairness ==
    /\ WF_vars(Startup) /\ WF_vars(StartupConnects)
    /\ \A i \in Clients : WF_vars(ClientConnects(i)) /\ WF_vars(ClientFails(i))
    /\ WF_vars(ConnectionEvent)
    /\ WF_vars(Reload) /\ WF_vars(BrokerStarts)

FairSpec == Spec /\ Fairness

-----------------------------------------------------------------------------
(* Properties. *)

TypeOK ==
    /\ svc \in [client: {0} \cup Clients,
                state: {"disconnected", "connecting", "connected", "waiting_retry"},
                armed: 0..MaxTimers, timer: BOOLEAN, intentional: BOOLEAN,
                credentials: Credentials,
                clients: [Clients -> [phase: {"none", "connecting", "open", "ending", "closed"},
                                      as: Credentials, listening: BOOLEAN, handlers: Nat,
                                      owner: Callers \cup {"startup", "loop", "nobody"}]],
                calls: [Callers -> [pc: {"idle", "ending", "connecting"},
                                    on: {0} \cup Clients, as: Credentials]],
                rejected: BOOLEAN, hung: BOOLEAN, overlapped: BOOLEAN]
    /\ accepting \subseteq Credentials
    /\ disk \in [level: Levels, backend: Passwords, shared: Passwords,
                 rows: SUBSET Devices, conf: {"open", "auth"}, file: SUBSET Credentials]
    /\ process \in {"down", "starting", "connecting", "running"}
    /\ request \in [Requests -> [kind: Levels \cup {"none"}, arg: Passwords]]
    /\ up \in BOOLEAN /\ strayed \in BOOLEAN /\ fromRows \in BOOLEAN
    /\ lingering \subseteq Devices
    /\ minted \in Passwords /\ crashes \in 0..MaxCrashes /\ outages \in 0..MaxOutages

EndingCalls == {c \in Callers : svc.calls[c].pc = "ending"}
Attempting == {i \in Clients : svc.clients[i].phase = "connecting"}

\* Whenever the broker is told to use the password file, its device lines are those of
\* stored credentials, whatever was interrupted, failed or overlapped: a revoked
\* credential never comes back (deleteCredential, initialize).  The exception is a
\* revocation whose own write of the file failed, which answers 500: the line lingers
\* until the file is next written, by any request or by a restart.
RevokedStaysOut ==
    process # "down" /\ disk.conf = "auth" =>
        \A d \in Devices : Device(d) \in disk.file => d \in disk.rows \cup lingering

\* Between changes, the credential the service will present next is one that the files
\* on disk admit, even after a change failed half-way (mqtt-provisioning-service.ts:189).
NextAttemptIsAdmitted ==
    process # "down" /\ ~svc.overlapped /\ EndingCalls = {} =>
        svc.credentials \in FileAccepts(disk)

\* Unless a change failed or overlapped another since startup, mosquitto.conf is the one
\* of the persisted level, and the password file holds the lines the settings call for
\* (initialize) - or, if a credential was created or deleted since it was last composed,
\* the lines of the rows (regeneratePasswordFile), whatever the level is.  The two are
\* the same in per_device mode, and not in shared_password mode.
FilesFollowSettings ==
    process # "down" /\ ~strayed /\ ~svc.overlapped /\ ~Overlaps =>
        /\ disk.conf = (IF disk.level = "open" THEN "open" ELSE "auth")
        /\ disk.level # "open" =>
               disk.file = IF fromRows THEN Regenerated(disk).file ELSE Composed(disk)

\* "Shared-mode composition (which must NOT include device entries) is handled by the
\* provisioning service" (mqtt-credential-service.ts:12).
SharedFileHasNoDevices ==
    process = "running" /\ ~strayed /\ ~Overlaps /\ disk.level = "shared_password" =>
        \A d \in Devices : Device(d) \notin disk.file

\* "connected" means that this.client is an open connection with one set of handlers,
\* so that publish() reaches the broker and a message is handled once.
ConnectedIsLive ==
    svc.state = "connected" /\ EndingCalls = {} /\ ~svc.overlapped =>
        /\ svc.client # 0
        /\ svc.clients[svc.client].phase = "open" /\ svc.clients[svc.client].handlers = 1
        /\ \A i \in Clients \ {svc.client} : svc.clients[i].phase \in {"none", "ending"}

\* While the service is not connected exactly one thing will bring it back: an armed
\* timer, an attempt, or the end of the connection being replaced.  The exceptions are a
\* connect() that rejected, which leaves that to its caller, and a silent close.
OneRecoveryUnderWay ==
    process \in {"connecting", "running"} /\ ~svc.overlapped /\ ~svc.rejected /\ ~svc.hung =>
        svc.armed + Cardinality(Attempting) + Cardinality(EndingCalls)
            = (IF svc.state = "connected" /\ EndingCalls = {} THEN 0 ELSE 1)

\* The state of the connection: it is live, or exactly one thing is about to recover it.
ConnectionInv == TypeOK /\ ConnectedIsLive /\ OneRecoveryUnderWay

Undisturbed ==
    /\ process = "running" /\ \A r \in Requests : request[r] = NoRequest
    /\ ~svc.overlapped /\ ~svc.rejected /\ ~svc.hung

\* The reconnection loop brings the service back whatever happened to the broker, once
\* nobody changes the credentials (startReconnectionLoop, connectWithRetry).
ReconnectsEventually == <>[]Undisturbed => <>[](svc.state = "connected")

\* ADR-0018: "a delayed reload still converges rather than leaving stored state
\* disagreeing with the broker".
StoredAgreesWithBroker ==
    (/\ process = "running" /\ \A r \in Requests : request[r] = NoRequest
     /\ accepting = FileAccepts(disk)) =>
        (disk.level = "open" <=> Anonymous \in accepting)
=============================================================================
