------------------------ MODULE IngestServicesProofs ------------------------
(***************************************************************************)
(* Proofs about IngestServices, for any set of overlapping requests, any   *)
(* row (engine, gateway or plain, on any stack) and any grace period and   *)
(* TTL.  IInv ties what a request remembers to what the world went through *)
(* while it was under way.                                                 *)
(***************************************************************************)
EXTENDS IngestServices, TLAPS

\* A process not seen running has been down or scaled to zero, or could not be
\* asked.
DownInv == \A r \in Requests :
    (pc[r] # "idle" /\ ~CountsAsRunning(active[r])) => (wasDown[r] \/ unread[r])

\* A request for which an orphan is about to be cleared saw it not running.
ClearInv == \A r \in Requests : pc[r] = "clear" =>
    ~CountsAsRunning(active[r]) /\ ~RecentControlWrite(r)

\* A silence now has been witnessed by every request under way.
QuietInv == \A r \in Requests :
    (pc[r] # "idle" /\ beatAge > HealthRecent) => wasQuiet[r]

\* A gateway whose last read heard no recent heartbeat was silent, or the read
\* failed.
HeardInv == \A r \in Requests :
    (pc[r] = "told" /\ gateway[r])
        => \/ "recent" \in heard[r] \/ wasQuiet[r] \/ unheard[r]
           \/ wasDown[r] \/ unread[r]

\* A row the gateway manages counts as managed from elsewhere.
GatewayInv == \A r \in Requests :
    gateway[r] => external[r] /\ pc[r] \in {"engine", "live", "recent", "told"}

\* Only an engine that was not seen running is asked for its own sign of life.
EngineInv == \A r \in Requests : pc[r] = "engine" => ~CountsAsRunning(active[r])

\* A stamp is the age of the lease it was read from, until the next write.
StampInv == \A r \in Requests :
    (pc[r] \in {"orphan", "clear"} /\ leased /\ ~misdated[r])
        => stampAge[r] = leaseAge

IInv == TypeOK /\ DownInv /\ ClearInv /\ QuietInv /\ StampInv
        /\ HeardInv /\ GatewayInv /\ EngineInv

-----------------------------------------------------------------------------
LEMMA TypeInit == Init => TypeOK
<1> SUFFICES ASSUME Init PROVE TypeOK
    OBVIOUS
<1>1. spec \in 0 .. Replicas /\ ready \in 0 .. Replicas /\ leases \in 0 .. MaxLeases
    BY BoundsAssumption DEF Init
<1>2. beatAge \in 0 .. HealthTTL /\ leaseAge \in 0 .. Grace + 1
    BY TimesAssumption DEF Init
<1>3. /\ pc \in [Requests -> Phase] /\ active \in [Requests -> ProcessState]
      /\ stampAge \in [Requests -> {Unstamped} \cup 0 .. Grace + 1]
    BY DEF Init, Phase, ProcessState
<1> QED
    BY <1>1, <1>2, <1>3 DEF Init, TypeOK

LEMMA AgesStep ==
    ASSUME NEW cap \in Nat, NEW n \in 0 .. cap
    PROVE  UpTo(n, cap) \in 0 .. cap /\ UpTo(n, cap) >= n
BY DEF UpTo

LEMMA FromCountsType ==
    ASSUME NEW n \in Nat, NEW k \in Nat
    PROVE  /\ FromCounts(n, k) \in ProcessState
           /\ ~CountsAsRunning(FromCounts(n, k)) => n = 0 \/ k = 0
BY DEF FromCounts, ProcessState, CountsAsRunning

LEMMA TypeStep == TypeOK /\ [Next]_vars => TypeOK'
<1> SUFFICES ASSUME TypeOK, [Next]_vars PROVE TypeOK'
    OBVIOUS
<1> USE TimesAssumption, BoundsAssumption DEF TypeOK, Phase, world, lease, local, past, known
<1>1. CASE Scale
    BY <1>1 DEF Scale, Witness
<1>2. CASE ReadyChanges
    BY <1>2 DEF ReadyChanges, Witness
<1>3. CASE Beat
    BY <1>3 DEF Beat, Witness
<1>4. CASE WriteLease
    BY <1>4 DEF WriteLease
<1>5. CASE Tick
  <2>1. beatAge' \in 0 .. HealthTTL /\ leaseAge' \in 0 .. Grace + 1
    BY <1>5, AgesStep DEF Tick
  <2>2. stampAge' \in [Requests -> {Unstamped} \cup 0 .. Grace + 1]
    BY <1>5, AgesStep DEF Tick, Unstamped
  <2> QED
    BY <1>5, <2>1, <2>2 DEF Tick, Witness
<1>6. ASSUME NEW r \in Requests, Begin(r) PROVE TypeOK'
  <2>1. ready \in Nat /\ spec \in Nat
    OBVIOUS
  <2>2. FromCounts(spec, ready) \in ProcessState /\ FromCounts(0, 0) \in ProcessState
        /\ "unknown" \in ProcessState
    BY <2>1, FromCountsType DEF ProcessState
  <2>3. PICK a \in ProcessState, failed \in BOOLEAN : Probed(r, a, failed)
    BY <1>6, <2>2 DEF Begin, Probe, ProbeFails, ProbeUnreachable
  <2> HIDE DEF ProcessState
  <2> QED
    BY <2>3 DEF Probed, Serving, WriterRecent
<1>7. ASSUME NEW r \in Requests, ReadEnv(r) PROVE TypeOK'
    BY <1>7 DEF ReadEnv, Onward
<1>8. ASSUME NEW r \in Requests, ReadStamp(r) PROVE TypeOK'
    BY <1>8 DEF ReadStamp
<1>9. ASSUME NEW r \in Requests, CheckOrphan(r) PROVE TypeOK'
    BY <1>9 DEF CheckOrphan, Onward
<1>10. ASSUME NEW r \in Requests, Clear(r) \/ ClearFails(r) PROVE TypeOK'
    BY <1>10 DEF Clear, ClearFails, AfterClear, Onward
<1>11. ASSUME NEW r \in Requests, ReadStack(r) PROVE TypeOK'
  <2>1. external' \in [Requests -> BOOLEAN] /\ heard' \in [Requests -> SUBSET Reading]
    BY <1>11 DEF ReadStack
  <2> QED
    BY <1>11, <2>1 DEF ReadStack
<1>12. ASSUME NEW r \in Requests, ReadGateway(r) PROVE TypeOK'
  <2>1. gateway' \in [Requests -> BOOLEAN] /\ external' \in [Requests -> BOOLEAN]
    <3>1. (row.gateway /\ Present) \in BOOLEAN
        OBVIOUS
    <3>2. PICK gw \in BOOLEAN : /\ gateway' = [gateway EXCEPT ![r] = gw]
                               /\ external' = [external EXCEPT ![r] = @ \/ gw]
        BY <1>12, <3>1 DEF ReadGateway
    <3> QED
        BY <3>2
  <2>2. pc' \in [Requests -> Phase]
    BY <1>12 DEF ReadGateway
  <2> QED
    BY <1>12, <2>1, <2>2 DEF ReadGateway
<1>13. ASSUME NEW r \in Requests, Answer(r) PROVE TypeOK'
    BY <1>13 DEF Answer, ProcessState
<1>14. ASSUME NEW r \in Requests, ReadFails(r) PROVE TypeOK'
    BY <1>14 DEF ReadFails, ReadEnvFails, ReadStampFails, Onward
<1>15. CASE UNCHANGED vars
    BY <1>15 DEF vars
<1>16. ASSUME NEW r \in Requests, NEW what \in Reading, NEW truth, Hear(r, what, truth)
       PROVE  heard' \in [Requests -> SUBSET Reading]
    BY <1>16 DEF Hear
<1>17. ASSUME NEW r \in Requests,
              ReadExternalLive(r) \/ ReadExternalRecent(r) \/ ReadEngineLive(r)
              \/ ReadLive(r) \/ ReadRecent(r)
       PROVE  TypeOK'
  <2>1. heard' \in [Requests -> SUBSET Reading]
    BY <1>16, <1>17 DEF ReadExternalLive, ReadExternalRecent, ReadEngineLive, ReadLive,
                        ReadRecent, Reading
  <2>2. pc' \in [Requests -> Phase] /\ unheard' \in [Requests -> BOOLEAN]
    BY <1>17 DEF ReadExternalLive, ReadExternalRecent, ReadEngineLive, ReadLive,
                 ReadRecent, WriterRecent
  <2>3. UNCHANGED <<world, lease, active, stampAge, external, gateway, past, unread,
                    misdated>>
    BY <1>17 DEF ReadExternalLive, ReadExternalRecent, ReadEngineLive, ReadLive,
                 ReadRecent, Hear
  <2> QED
    BY <2>1, <2>2, <2>3
<1> QED
    BY <1>1, <1>2, <1>3, <1>4, <1>5, <1>6, <1>7, <1>8, <1>9, <1>10, <1>11, <1>12,
       <1>13, <1>14, <1>15, <1>17 DEF Next, Step

-----------------------------------------------------------------------------
LEMMA IInvInit == Init => IInv
BY TypeInit, TimesAssumption
   DEF IInv, Init, DownInv, ClearInv, QuietInv, StampInv, HeardInv, GatewayInv, EngineInv

\* What happens outside the API: the histories only grow.
LEMMA WorldStep ==
    ASSUME IInv, TypeOK', Scale \/ ReadyChanges \/ Beat \/ WriteLease \/ Tick
    PROVE  IInv'
<1> USE DEF IInv, TypeOK, world, lease, local, past, known
<1>1. pc' = pc /\ active' = active /\ unread' = unread
    BY DEF Scale, ReadyChanges, Beat, WriteLease, Tick
<1>2. DownInv'
    BY <1>1 DEF Scale, ReadyChanges, Beat, WriteLease, Tick, Witness, DownInv
<1>3. QuietInv'
    BY <1>1 DEF Scale, ReadyChanges, Beat, WriteLease, Tick, Witness, QuietInv
<1>4. ClearInv'
  <2>1. ASSUME NEW r \in Requests, ~RecentControlWrite(r) PROVE ~RecentControlWrite(r)'
    <3>1. CASE Tick
      <4>1. CASE stampAge[r] = Unstamped
        BY <3>1, <4>1 DEF Tick, RecentControlWrite
      <4>2. CASE stampAge[r] # Unstamped
        <5>1. stampAge[r] \in 0 .. Grace + 1 /\ Grace + 1 \in Nat
            BY <4>2, TimesAssumption
        <5>2. stampAge'[r] = UpTo(stampAge[r], Grace + 1)
            BY <3>1, <4>2 DEF Tick
        <5> QED
            BY <2>1, <4>2, <5>1, <5>2, AgesStep, TimesAssumption DEF RecentControlWrite
      <4> QED
        BY <4>1, <4>2
    <3>2. CASE Scale \/ ReadyChanges \/ Beat \/ WriteLease
        BY <2>1, <3>2 DEF Scale, ReadyChanges, Beat, WriteLease, RecentControlWrite
    <3> QED
        BY <3>1, <3>2
  <2> QED
    BY <1>1, <2>1 DEF ClearInv
<1>5. StampInv'
  <2>1. CASE Tick
    BY <2>1, TimesAssumption DEF Tick, StampInv, Unstamped
  <2>2. CASE WriteLease
    BY <2>2 DEF WriteLease, StampInv
  <2>3. CASE Scale \/ ReadyChanges \/ Beat
    BY <2>3 DEF Scale, ReadyChanges, Beat, StampInv
  <2> QED
    BY <2>1, <2>2, <2>3
<1>6. HeardInv' /\ GatewayInv' /\ EngineInv'
    BY <1>1 DEF Scale, ReadyChanges, Beat, WriteLease, Tick, Witness, HeardInv, GatewayInv, EngineInv
<1> QED
    BY <1>2, <1>3, <1>4, <1>5, <1>6

\* The probe: what is read and what is witnessed are of one instant.
LEMMA BeginStep ==
    ASSUME IInv, TypeOK', NEW r \in Requests, Begin(r)
    PROVE  IInv'
<1> USE DEF IInv, TypeOK, world, lease, local, past, known
<1>1. PICK a \in ProcessState, failed \in BOOLEAN :
        Probed(r, a, failed) /\ (failed \/ a = FromCounts(spec, ready))
  <2>1. spec \in Nat /\ ready \in Nat
    BY BoundsAssumption
  <2>2. FromCounts(spec, ready) \in ProcessState /\ FromCounts(0, 0) \in ProcessState
        /\ "unknown" \in ProcessState
    BY <2>1, FromCountsType DEF ProcessState
  <2> HIDE DEF ProcessState
  <2> QED
    BY <2>2 DEF Begin, Probe, ProbeFails, ProbeUnreachable
<1>2. failed \/ CountsAsRunning(a) \/ ~Serving
    BY <1>1, BoundsAssumption, FromCountsType DEF Serving
<1>3. DownInv'
    BY <1>1, <1>2 DEF Probed, DownInv, Serving
<1>4. QuietInv'
  <2>1. beatAge > HealthRecent <=> ~WriterRecent
    BY TimesAssumption DEF WriterRecent
  <2>2. ASSUME NEW q \in Requests, pc'[q] # "idle", ~WriterRecent PROVE wasQuiet'[q]
    BY <1>1, <2>1, <2>2 DEF Probed, QuietInv
  <2> QED
    BY <1>1, <2>1, <2>2 DEF Probed, QuietInv
<1>5. ClearInv' /\ StampInv'
    BY <1>1 DEF Probed, ClearInv, StampInv, RecentControlWrite
<1>6. HeardInv' /\ GatewayInv' /\ EngineInv'
    BY <1>1 DEF Probed, HeardInv, GatewayInv, EngineInv
<1> QED
    BY <1>3, <1>4, <1>5, <1>6

\* The handler: a request acts on what it remembers.
LEMMA LeaseStep ==
    ASSUME IInv, TypeOK', NEW r \in Requests,
           ReadEnv(r) \/ ReadStamp(r) \/ CheckOrphan(r) \/ Clear(r) \/ ClearFails(r)
           \/ ReadFails(r)
    PROVE  IInv'
<1> USE DEF IInv, TypeOK, world, lease, local, past, known, Onward, ReadFails
<1> USE DEF DownInv, ClearInv, QuietInv, StampInv, HeardInv, GatewayInv, EngineInv, RecentControlWrite
<1>1. CASE ReadEnv(r)
    BY <1>1 DEF ReadEnv
<1>2. CASE ReadStamp(r)
    BY <1>2 DEF ReadStamp
<1>3. CASE CheckOrphan(r)
    BY <1>3 DEF CheckOrphan, Orphan
<1>4. CASE Clear(r) \/ ClearFails(r)
    BY <1>4 DEF Clear, ClearFails, AfterClear
<1>5. CASE ReadEnvFails(r)
    BY <1>5 DEF ReadEnvFails
<1>6. CASE ReadStampFails(r)
    BY <1>6 DEF ReadStampFails
<1> QED
    BY <1>1, <1>2, <1>3, <1>4, <1>5, <1>6

\* The reads the answer is made of change nothing but what they told.
LEMMA ReadingStep ==
    ASSUME IInv, TypeOK', NEW r \in Requests,
           ReadExternalLive(r) \/ ReadExternalRecent(r) \/ ReadEngineLive(r)
           \/ ReadLive(r) \/ ReadRecent(r)
    PROVE  IInv'
<1> USE DEF IInv, TypeOK, world, lease, local, past, known
<1>1. /\ UNCHANGED <<world, lease, active, stampAge, external, gateway, past, unread,
                     misdated>>
      /\ \A q \in Requests \ {r} : /\ pc'[q] = pc[q] /\ heard'[q] = heard[q]
                                   /\ unheard'[q] = unheard[q]
      /\ \/ pc[r] \in {"extlive", "extrecent"} /\ pc'[r] \in {"extrecent", "stack"}
         \/ /\ pc[r] \in {"engine", "live", "recent"}
            /\ pc'[r] \in {"live", "recent", "told"}
    BY DEF ReadExternalLive, ReadExternalRecent, ReadEngineLive, ReadLive, ReadRecent, Hear
<1>2. DownInv' /\ ClearInv' /\ QuietInv' /\ StampInv' /\ GatewayInv' /\ EngineInv'
    BY <1>1 DEF DownInv, ClearInv, QuietInv, StampInv, GatewayInv, EngineInv, RecentControlWrite
<1>3. HeardInv'
  <2>1. ASSUME pc'[r] = "told", gateway[r]
        PROVE  \/ "recent" \in heard'[r] \/ wasQuiet[r] \/ unheard'[r]
               \/ wasDown[r] \/ unread[r]
    <3>1. ReadRecent(r) \/ ReadEngineLive(r)
        BY <2>1 DEF ReadExternalLive, ReadExternalRecent, ReadLive
    <3>2. CASE ReadRecent(r)
      <4>1. CASE WriterRecent
        BY <3>2, <4>1 DEF ReadRecent
      <4>2. CASE ~WriterRecent
        BY <1>1, <4>2, TimesAssumption DEF WriterRecent, QuietInv
      <4> QED
        BY <4>1, <4>2
    <3>3. CASE ReadEngineLive(r)
        BY <2>1, <3>3 DEF EngineInv, ReadEngineLive, DownInv
    <3> QED
        BY <3>1, <3>2, <3>3
  <2> QED
    BY <1>1, <2>1 DEF HeardInv
<1> QED
    BY <1>2, <1>3

\* What is known of who runs the stack, and the end of the request.
LEMMA OutcomeStep ==
    ASSUME IInv, TypeOK', NEW r \in Requests, ReadStack(r) \/ ReadGateway(r) \/ Answer(r)
    PROVE  IInv'
<1> USE DEF IInv, TypeOK, world, lease, local, past, known
<1> USE DEF DownInv, ClearInv, QuietInv, StampInv, HeardInv, GatewayInv, EngineInv, RecentControlWrite
<1>1. CASE ReadStack(r)
  <2>1. \A q \in Requests \ {r} : external'[q] = external[q]
    <3>1. PICK b : external' = [external EXCEPT ![r] = b]
        BY ZenonT(30), <1>1 DEF ReadStack
    <3> QED
        BY <3>1
  <2>2. /\ pc[r] = "stack" /\ pc' = [pc EXCEPT ![r] = "gateway"]
        /\ heard' = [heard EXCEPT ![r] = {}]
        /\ UNCHANGED <<world, lease, active, stampAge, gateway, past, known>>
    BY <1>1 DEF ReadStack
  <2> QED
    BY <2>1, <2>2
<1>2. CASE ReadGateway(r)
  <2>1. /\ pc[r] = "gateway"
        /\ pc' = [pc EXCEPT ![r] = IF Engine /\ ~CountsAsRunning(active[r]) THEN "engine"
                                   ELSE IF external'[r] THEN "live" ELSE "told"]
        /\ \A q \in Requests \ {r} : gateway'[q] = gateway[q] /\ external'[q] = external[q]
        /\ gateway'[r] => external'[r]
        /\ UNCHANGED <<world, lease, active, stampAge, heard, past, known>>
    BY <1>2 DEF ReadGateway
  <2> QED
    BY <2>1
<1>3. CASE Answer(r)
    BY <1>3 DEF Answer
<1> QED
    BY <1>1, <1>2, <1>3

LEMMA IInvStep == IInv /\ [Next]_vars => IInv'
<1> SUFFICES ASSUME IInv, [Next]_vars PROVE IInv'
    OBVIOUS
<1>1. TypeOK'
    BY TypeStep DEF IInv
<1>2. CASE UNCHANGED vars
    BY <1>2 DEF vars, world, lease, local, past, known, IInv, TypeOK, DownInv, ClearInv,
                QuietInv, StampInv, HeardInv, GatewayInv, EngineInv, RecentControlWrite
<1> QED
    BY <1>1, <1>2, WorldStep, BeginStep, LeaseStep, ReadingStep, OutcomeStep
       DEF Next, Step

\* IInv is an invariant.
THEOREM Inductive == Spec => []IInv
BY IInvInit, IInvStep, PTL DEF Spec

\* Type correctness of the services handler and its world.
THEOREM TypeCorrect == Spec => []TypeOK
<1>1. IInv => TypeOK
    BY DEF IInv
<1> QED
    BY <1>1, Inductive, PTL

\* However requests overlap, a lease is cleared only by one that saw its
\* service down or could not ask.
THEOREM OnlyTheDown == Spec => ClearNeedsDown
<1>1. IInv /\ [Next]_vars =>
        [\A r \in Requests :
            (pc[r] = "clear" /\ leased /\ ~leased') => (wasDown[r] \/ unread[r])]_vars
    BY DEF IInv, DownInv, ClearInv
<1> QED
    BY <1>1, Inductive, PTL DEF Spec, ClearNeedsDown

\* A lease inside its grace period is cleared only in the window between the
\* reading of its stamp and the HDEL, or when that reading failed.
THEOREM OnlyTheOld == Spec => ClearNeedsAge
<1>1. IInv =>
        \A r \in Requests :
            (/\ pc[r] = "clear" /\ pc'[r] # "clear" /\ leased /\ ~leased')
                => (leaseAge > Grace \/ misdated[r])
    BY TimesAssumption
       DEF IInv, TypeOK, ClearInv, StampInv, RecentControlWrite, Unstamped
<1>2. IInv /\ [Next]_vars =>
        [\A r \in Requests :
            (pc[r] = "clear" /\ pc'[r] # "clear" /\ leased /\ ~leased')
                => (leaseAge > Grace \/ misdated[r])]_vars
    BY <1>1
<1> QED
    BY <1>2, Inductive, PTL DEF Spec, ClearNeedsAge

\* "Off" has its cause in the request that answers it: the workload was down,
\* scaled to zero or could not be asked, or the gateway's heartbeat was silent
\* or could not be read.
THEOREM NoFalseOff == Spec => []OffHasCause
<1>1. IInv => OffHasCause
  <2> SUFFICES ASSUME IInv, NEW r \in Requests, pc[r] = "told",
                      Answered(r) \in {"inactive", "policy-off"}
               PROVE  \/ wasDown[r] \/ unread[r]
                      \/ gateway[r] /\ (wasQuiet[r] \/ unheard[r])
    BY DEF OffHasCause
  <2>1. CASE ~CountsAsRunning(active[r])
    BY <2>1 DEF IInv, DownInv
  <2>2. CASE CountsAsRunning(active[r])
    <3>1. gateway[r] /\ "recent" \notin heard[r]
        BY <2>2 DEF Answered, Display
    <3> QED
        BY <3>1 DEF IInv, HeardInv
  <2> QED
    BY <2>1, <2>2
<1> QED
    BY <1>1, Inductive, PTL

=============================================================================
