--------------------------- MODULE IngestServices ---------------------------
(***************************************************************************)
(* GET /ops/market-ingest/services for one row: the handler awaits between *)
(* every read of the cluster and of Redis, so the workload, its heartbeat  *)
(* and the control lease move on while a request is under way, and         *)
(* requests overlap.  The one write it makes is the clearing of a lease    *)
(* whose service looks dead.                                               *)
(*                                                                         *)
(* The row keeps its kind for good; a heartbeat is the ages and flags of   *)
(* the health hash.  Ages are relative and stop where no guard can tell    *)
(* more.                                                                   *)
(***************************************************************************)
EXTENDS Integers

CONSTANTS
    Requests,
    Replicas,       \* bound: largest replica count of the workload
    HealthRecent,   \* _HEALTH_RECENT_MAX_S
    HealthTTL,      \* TTL of a health hash
    Grace,          \* _RECENT_CONTROL_WRITE_GRACE_SEC
    MaxLeases,      \* bound: lease writes of one behaviour
    Rows            \* what the row may be: of trading_engine or not; its hash
                    \* written by the platform IB gateway or not, and then on
                    \* redis-live or on redis-ib alone; the stack its hash names
                    \* and the one of ops.control_profile

ASSUME TimesAssumption ==
    /\ HealthRecent \in Nat /\ HealthTTL \in Nat /\ Grace \in Nat
    /\ HealthRecent < HealthTTL
ASSUME BoundsAssumption == Replicas \in Nat /\ MaxLeases \in Nat
ASSUME RowAssumption ==
    \A w \in Rows :
        /\ w \in [engine : BOOLEAN, gateway : BOOLEAN, split : BOOLEAN,
                  stack : {"", "dev", "stg", "prod"},
                  profile : {"", "dev", "stg", "prod"}]
        /\ w.split => w.gateway
        /\ ~(w.engine /\ w.gateway)

VARIABLES
    row,               \* chosen once
    spec, ready,       \* replicas asked for; replicas ready, which lag behind
    beatAge,           \* age of updated_at; HealthTTL: the hash has expired
    connected,         \* the connected flag of the last heartbeat
    leased, leaseAge,  \* the control fields are there; age of their updated_at
    leases,            \* lease writes so far
    pc,
    active,            \* process_active
    stampAge,          \* now - redis_control_updated_at; Unstamped: None
    heard,             \* which of its reads of the heartbeat said yes
    external,          \* runtime_externally_managed
    gateway,           \* platform_gateway_managed
    unread,            \* history: the cluster could not be asked
    unheard,           \* history: the last read missed a recent heartbeat
    wasDown,           \* history: at some moment no replica was asked for or ready
    wasQuiet,          \* history: no recent heartbeat at some moment
    misdated           \* history: the stamp was not read, or written since

world == <<row, spec, ready, beatAge, connected>>
lease == <<leased, leaseAge, leases>>
local == <<active, stampAge, heard, external, gateway>>
past == <<wasDown, wasQuiet>>
known == <<unread, unheard, misdated>>
vars == <<world, lease, pc, local, past, known>>

-----------------------------------------------------------------------------
Phase == {"idle", "env", "stamp", "orphan", "clear", "extlive", "extrecent",
          "stack", "gateway", "engine", "live", "recent", "told"}
Reading == {"live", "recent", "engine"}
ProcessState == {"active", "activating", "inactive", "unknown"}
Unstamped == -1

Engine == row.engine

Up == ready > 0
Serving == spec > 0 /\ ready > 0
Present == beatAge < HealthTTL
WriterRecent == beatAge <= HealthRecent        \* ingest_redis_health_writer_recent
LooksLive == WriterRecent /\ connected         \* ingest_redis_health_looks_live
OnLive == ~row.split                           \* redis-live holds the hash

\* Mutant: a service that is starting does not count.
ActiveOnly(a) == a = "active"

\* _process_counts_as_running
CountsAsRunning(a) == a \in {"active", "activating"}

\* process_active_from_replica_counts
FromCounts(n, k) ==
    IF n = 0 THEN "inactive"
    ELSE IF k >= n THEN "active"
    ELSE IF k > 0 THEN "activating"
    ELSE "inactive"

UpTo(n, cap) == IF n < cap THEN n + 1 ELSE cap

Init ==
    /\ row \in Rows
    /\ spec \in 0 .. Replicas /\ ready = 0
    /\ beatAge = HealthTTL /\ connected = FALSE
    /\ leased \in BOOLEAN /\ leaseAge = Grace + 1 /\ leases = 0
    /\ pc = [r \in Requests |-> "idle"]
    /\ active = [r \in Requests |-> "unknown"]
    /\ stampAge = [r \in Requests |-> Unstamped]
    /\ heard = [r \in Requests |-> {}]
    /\ external = [r \in Requests |-> FALSE]
    /\ gateway = [r \in Requests |-> FALSE]
    /\ unread = [r \in Requests |-> FALSE]
    /\ unheard = [r \in Requests |-> FALSE]
    /\ wasDown = [r \in Requests |-> FALSE]
    /\ wasQuiet = [r \in Requests |-> FALSE]
    /\ misdated = [r \in Requests |-> FALSE]

-----------------------------------------------------------------------------
\* The world outside the API: the cluster, the service, whoever takes leases.

Witness ==
    /\ wasDown' = [r \in Requests |->
                        wasDown[r] \/ (pc[r] # "idle" /\ ~Serving')]
    /\ wasQuiet' = [r \in Requests |->
                        wasQuiet[r] \/ (pc[r] # "idle" /\ beatAge' > HealthRecent)]

\* Someone asks for another number of replicas: none of them moves by that.
Scale ==
    /\ spec' \in 0 .. Replicas
    /\ UNCHANGED <<row, ready, beatAge, connected, lease, pc, local, known>>
    /\ Witness

\* Replicas fail, or come and go towards the number asked for.
ReadyChanges ==
    /\ ready' \in 0 .. (IF ready <= spec THEN spec ELSE ready)
    /\ UNCHANGED <<row, spec, beatAge, connected, lease, pc, local, known>>
    /\ Witness

\* By a process that is ready, or still starting, or stopping, or by that of
\* another stack.
Beat ==
    /\ beatAge' = 0
    /\ connected' \in BOOLEAN
    /\ UNCHANGED <<row, spec, ready, lease, pc, local, known>>
    /\ Witness

WriteLease ==
    /\ leases < MaxLeases
    /\ leases' = leases + 1
    /\ leased' = TRUE /\ leaseAge' = 0
    /\ misdated' = [r \in Requests |-> pc[r] \in {"orphan", "clear"}]
    /\ UNCHANGED <<world, pc, local, past, unread, unheard>>

Tick ==
    /\ beatAge' = UpTo(beatAge, HealthTTL)
    /\ connected' = (connected /\ beatAge' < HealthTTL)
    /\ leaseAge' = UpTo(leaseAge, Grace + 1)
    /\ stampAge' = [r \in Requests |-> IF stampAge[r] = Unstamped THEN Unstamped
                                       ELSE UpTo(stampAge[r], Grace + 1)]
    /\ UNCHANGED <<row, spec, ready, leased, leases, pc, active, heard, external,
                   gateway, known>>
    /\ Witness

-----------------------------------------------------------------------------
\* The handler, one step per await.

Probed(r, a, failed) ==
    /\ pc[r] = "idle"
    /\ pc' = [pc EXCEPT ![r] = "env"]
    /\ active' = [active EXCEPT ![r] = a]
    /\ unread' = [unread EXCEPT ![r] = failed]
    /\ wasDown' = [wasDown EXCEPT ![r] = ~Serving]
    /\ wasQuiet' = [wasQuiet EXCEPT ![r] = ~WriterRecent]
    /\ UNCHANGED <<world, lease, stampAge, heard, external, gateway, unheard, misdated>>

\* Both counts are of one read of the workload.
Probe(r) == Probed(r, FromCounts(spec, ready), FALSE)

\* The read of the workload raised: _workload_ready_replicas answers 0 of 0.
ProbeFails(r) == Probed(r, FromCounts(0, 0), TRUE)

\* No cluster client: None, None.
ProbeUnreachable(r) == Probed(r, "unknown", TRUE)

\* Past the lease, a process that runs is not asked who runs it.
Onward(r) == IF CountsAsRunning(active[r]) THEN "gateway" ELSE "extlive"

\* read_control_env and, for the answer alone, read_control_host
ReadEnv(r) ==
    /\ pc[r] = "env"
    /\ pc' = [pc EXCEPT ![r] = IF leased /\ ~Engine THEN "stamp" ELSE Onward(r)]
    /\ UNCHANGED <<world, lease, local, past, known>>

\* A read of Redis that raises is logged, and answers None or False.
ReadEnvFails(r) ==
    /\ pc[r] = "env"
    /\ pc' = [pc EXCEPT ![r] = Onward(r)]
    /\ UNCHANGED <<world, lease, local, past, known>>

\* read_control_updated_at
ReadStamp(r) ==
    /\ pc[r] = "stamp"
    /\ pc' = [pc EXCEPT ![r] = "orphan"]
    /\ stampAge' = [stampAge EXCEPT ![r] = IF leased THEN leaseAge ELSE Unstamped]
    /\ misdated' = [misdated EXCEPT ![r] = FALSE]
    /\ UNCHANGED <<world, lease, active, heard, external, gateway, past, unread, unheard>>

\* The lease is there, and its stamp is missing.
ReadStampFails(r) ==
    /\ pc[r] = "stamp"
    /\ pc' = [pc EXCEPT ![r] = "orphan"]
    /\ misdated' = [misdated EXCEPT ![r] = TRUE]
    /\ UNCHANGED <<world, lease, local, past, unread, unheard>>

\* Mutant: the last moment of the grace period is left out.
RecentWithinGrace(r) == stampAge[r] # Unstamped /\ stampAge[r] < Grace

RecentControlWrite(r) == stampAge[r] # Unstamped /\ stampAge[r] <= Grace

\* Mutant: the process is not asked about.
OrphanByHealth(r, live) == ~live /\ ~RecentControlWrite(r)

\* Mutant: a process of unknown state counts as running.
OrphanIfInactive(r, live) == ~live /\ ~RecentControlWrite(r) /\ active[r] = "inactive"

Orphan(r, live) == ~live /\ ~RecentControlWrite(r) /\ ~CountsAsRunning(active[r])

\* A health hash that cannot be read does not look live.
CheckOrphan(r) ==
    /\ pc[r] = "orphan"
    /\ \E live \in {OnLive /\ LooksLive, FALSE} :
        pc' = [pc EXCEPT ![r] = IF Orphan(r, live) THEN "clear" ELSE Onward(r)]
    /\ UNCHANGED <<world, lease, local, past, known>>

AfterClear(r) ==
    /\ pc[r] = "clear"
    /\ pc' = [pc EXCEPT ![r] = Onward(r)]
    /\ stampAge' = [stampAge EXCEPT ![r] = Unstamped]
    /\ UNCHANGED <<world, leaseAge, leases, active, heard, external, gateway, past, known>>

\* clear_control_env: HDEL of the three fields, whoever wrote them by now.
Clear(r) == AfterClear(r) /\ leased' = FALSE

\* The HDEL raised: logged, and the answer says "no lease" all the same.
ClearFails(r) == AfterClear(r) /\ UNCHANGED leased

\* One read of the heartbeat: it says yes, or no, or cannot be made, which is
\* taken for no.
Hear(r, what, truth) ==
    /\ \E yes \in {truth, FALSE} :
        heard' = [heard EXCEPT ![r] = IF yes THEN @ \cup {what} ELSE @]
    /\ UNCHANGED <<world, lease, active, stampAge, external, gateway, past, unread,
                   misdated>>

\* Not running, yet someone may write the hash: three reads, an await each.
ReadExternalLive(r) ==
    /\ pc[r] = "extlive"
    /\ pc' = [pc EXCEPT ![r] = "extrecent"]
    /\ Hear(r, "live", OnLive /\ LooksLive)
    /\ UNCHANGED unheard

ReadExternalRecent(r) ==
    /\ pc[r] = "extrecent"
    /\ pc' = [pc EXCEPT ![r] = "stack"]
    /\ Hear(r, "recent", OnLive /\ WriterRecent)
    /\ UNCHANGED unheard

\* read_health_stack_profile, or without it ops.control_profile: the stack is
\* run from elsewhere.
ReadStack(r) ==
    /\ pc[r] = "stack"
    /\ pc' = [pc EXCEPT ![r] = "gateway"]
    /\ \E named \in {IF OnLive /\ Present THEN row.stack ELSE "", ""} :
        LET stack == IF named = "" THEN row.profile ELSE named IN
        external' = [external EXCEPT ![r] =
            /\ "live" \in heard[r] \/ (stack = "stg" /\ "recent" \in heard[r])
            /\ stack # ""]
    /\ heard' = [heard EXCEPT ![r] = {}]
    /\ UNCHANGED <<world, lease, active, stampAge, gateway, past, known>>

\* platform_gateway_managed_for_service reads the hash where it is; then
\* derive_ingest_display_state makes the reads its branches need.
ReadGateway(r) ==
    /\ pc[r] = "gateway"
    /\ \E gw \in {row.gateway /\ Present, FALSE} :
        /\ gateway' = [gateway EXCEPT ![r] = gw]
        /\ external' = [external EXCEPT ![r] = @ \/ gw]
    /\ pc' = [pc EXCEPT ![r] = IF Engine /\ ~CountsAsRunning(active[r]) THEN "engine"
                               ELSE IF external'[r] THEN "live" ELSE "told"]
    /\ UNCHANGED <<world, lease, active, stampAge, heard, past, known>>

ReadEngineLive(r) ==
    /\ pc[r] = "engine"
    /\ Hear(r, "engine", LooksLive)
    /\ pc' = [pc EXCEPT ![r] = IF external[r] /\ "engine" \in heard'[r]
                               THEN "live" ELSE "told"]
    /\ UNCHANGED unheard

ReadLive(r) ==
    /\ pc[r] = "live"
    /\ pc' = [pc EXCEPT ![r] = "recent"]
    /\ Hear(r, "live", (gateway[r] \/ OnLive) /\ LooksLive)
    /\ UNCHANGED unheard

ReadRecent(r) ==
    /\ pc[r] = "recent"
    /\ pc' = [pc EXCEPT ![r] = "told"]
    /\ Hear(r, "recent", (gateway[r] \/ OnLive) /\ WriterRecent)
    /\ unheard' = [unheard EXCEPT ![r] = WriterRecent /\ "recent" \notin heard'[r]]

\* Mutant: a gateway that beats but is not connected is shown as off.
DisplayGatewayOff(a, ext, gw, yes) ==
    LET running == CountsAsRunning(a) IN
    CASE Engine /\ ~running /\ "engine" \notin yes -> "policy-off"
      [] gw -> IF "live" \in yes THEN "active" ELSE "inactive"
      [] ext /\ ~gw /\ "live" \in yes -> "active"
      [] ext /\ ~gw /\ "live" \notin yes /\ ("recent" \in yes \/ ~running) -> "degraded"
      [] OTHER -> IF running THEN "active" ELSE a

\* derive_ingest_display_state, of what its reads said.
Display(a, ext, gw, yes) ==
    LET running == CountsAsRunning(a) IN
    CASE Engine /\ ~running /\ "engine" \notin yes -> "policy-off"
      [] gw -> IF "live" \in yes THEN "active"
               ELSE IF "recent" \in yes THEN "degraded" ELSE "inactive"
      [] ext /\ ~gw /\ "live" \in yes -> "active"
      [] ext /\ ~gw /\ "live" \notin yes /\ ("recent" \in yes \/ ~running) -> "degraded"
      [] OTHER -> IF running THEN "active" ELSE a

Answered(r) == Display(active[r], external[r], gateway[r], heard[r])

\* The row is answered and forgotten.
Answer(r) ==
    /\ pc[r] = "told"
    /\ pc' = [pc EXCEPT ![r] = "idle"]
    /\ active' = [active EXCEPT ![r] = "unknown"]
    /\ stampAge' = [stampAge EXCEPT ![r] = Unstamped]
    /\ heard' = [heard EXCEPT ![r] = {}]
    /\ external' = [external EXCEPT ![r] = FALSE]
    /\ gateway' = [gateway EXCEPT ![r] = FALSE]
    /\ wasDown' = [wasDown EXCEPT ![r] = FALSE]
    /\ wasQuiet' = [wasQuiet EXCEPT ![r] = FALSE]
    /\ unread' = [unread EXCEPT ![r] = FALSE]
    /\ unheard' = [unheard EXCEPT ![r] = FALSE]
    /\ misdated' = [misdated EXCEPT ![r] = FALSE]
    /\ UNCHANGED <<world, lease>>

Begin(r) == Probe(r) \/ ProbeFails(r) \/ ProbeUnreachable(r)

Step(r) == ReadEnv(r) \/ ReadStamp(r) \/ CheckOrphan(r) \/ Clear(r) \/ ClearFails(r)
           \/ ReadExternalLive(r) \/ ReadExternalRecent(r) \/ ReadStack(r)
           \/ ReadGateway(r) \/ ReadEngineLive(r) \/ ReadLive(r) \/ ReadRecent(r)
           \/ Answer(r)

ReadFails(r) == ReadEnvFails(r) \/ ReadStampFails(r)

Next ==
    \/ Scale \/ ReadyChanges \/ Beat \/ WriteLease \/ Tick
    \/ \E r \in Requests : Begin(r) \/ Step(r) \/ ReadFails(r)

Spec == Init /\ [][Next]_vars

\* The Ops page polls, awaits return, time passes; a lease read again and again
\* is read at last, and an HDEL tried again and again gets through.
Fairness ==
    /\ WF_vars(Tick)
    /\ \A r \in Requests : /\ WF_vars(Begin(r)) /\ WF_vars(Step(r))
                           /\ SF_vars(ReadEnv(r)) /\ SF_vars(Clear(r))

LiveSpec == Spec /\ Fairness

-----------------------------------------------------------------------------
TypeOK ==
    /\ row \in Rows
    /\ spec \in 0 .. Replicas /\ ready \in 0 .. Replicas
    /\ beatAge \in 0 .. HealthTTL /\ connected \in BOOLEAN
    /\ leased \in BOOLEAN /\ leaseAge \in 0 .. Grace + 1
    /\ leases \in 0 .. MaxLeases
    /\ pc \in [Requests -> Phase]
    /\ active \in [Requests -> ProcessState]
    /\ stampAge \in [Requests -> {Unstamped} \cup 0 .. Grace + 1]
    /\ heard \in [Requests -> SUBSET Reading]
    /\ external \in [Requests -> BOOLEAN]
    /\ gateway \in [Requests -> BOOLEAN]
    /\ unread \in [Requests -> BOOLEAN]
    /\ unheard \in [Requests -> BOOLEAN]
    /\ wasDown \in [Requests -> BOOLEAN]
    /\ wasQuiet \in [Requests -> BOOLEAN]
    /\ misdated \in [Requests -> BOOLEAN]

\* A lease is taken from a service only by a request that saw it down or on its
\* way down: one that asked the cluster, got an answer, and during which a
\* replica was asked for and a replica was ready all the time never clears it,
\* whatever other requests do and however the two counts lag each other. A
\* service scaled to zero loses it while its last replicas are still ready.
ClearNeedsDown ==
    [][\A r \in Requests :
        (pc[r] = "clear" /\ leased /\ ~leased') => (wasDown[r] \/ unread[r])]_vars

\* A lease inside the grace period is cleared only if it was written after the
\* request that clears it had read the stamp, or if that read failed: a stamp
\* that cannot be read is no stamp, and protects nothing.
ClearNeedsAge ==
    [][\A r \in Requests :
        (pc[r] = "clear" /\ pc'[r] # "clear" /\ leased /\ ~leased')
            => (leaseAge > Grace \/ misdated[r])]_vars

\* "Off" has a cause in the very request that answers it: the workload was
\* scaled to zero or had no replica ready at some moment, or could not be
\* asked; or, of a row the gateway manages alone, the heartbeat was silent at
\* some moment or the read of it failed. Each part of the answer is a read of
\* its own, and each can fail.
OffHasCause ==
    \A r \in Requests :
        (pc[r] = "told" /\ Answered(r) \in {"inactive", "policy-off"})
            => \/ wasDown[r]
               \/ unread[r]
               \/ gateway[r] /\ (wasQuiet[r] \/ unheard[r])

\* Polling gets rid of the lease of a service that is gone for good.
OrphanGoes ==
    (~Engine /\ <>[](spec = 0 /\ ~connected /\ leases = MaxLeases)) => <>[]~leased

\* The orphan lease test: clearing must not drop control fields while the
\* process is still running. A request that could not ask the cluster is left
\* out: what is shown is that the answer may be outdated when it is used.
KeptWhileRunning ==
    [][\A r \in Requests :
        (pc[r] = "clear" /\ leased /\ ~leased' /\ ~unread[r]) => ~Up]_vars

=============================================================================
