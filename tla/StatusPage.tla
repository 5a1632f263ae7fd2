----------------------------- MODULE StatusPage -----------------------------
(***************************************************************************)
(* How GET /status puts a page together while POST /config/active-strategy *)
(* writes the settings it reads (ConfigWrites), the account application    *)
(* renames and deletes the rows those name, and the daemon and the         *)
(* Platform IB Gateway go up and down.  Each read is a call of its own,    *)
(* and what one returned is used by later ones.  Who gets a page from the  *)
(* cache instead is in StatusCache.                                        *)
(***************************************************************************)
EXTENDS ConfigWrites

CONSTANTS
    Names, NoName   \* of structures, gate sets and allocations

VARIABLES
    name,       \* the name of the row each id stands for, NoName without a row
    beat,       \* the daemon's heartbeat: none, or whether it owns a connection to IB
    gateway,    \* the gateway's health in Redis: none, or whether it is connected
    phase,      \* the request: idle, what it reads next, shown
    shown,      \* the page so far
    had         \* history: the names each id has had since the request arrived

pageVars == <<name, beat, gateway, phase, shown, had>>

Connection == {"none", "down", "up"}
Id == Values
None == [f \in {} |-> NoName]
Blank == [beat |-> "none", self_check |-> "blocked", ids |-> None, names |-> None, redis |-> FALSE]

PageInit ==
    /\ name \in [Id -> Names \cup {NoName}]
    /\ beat \in Connection /\ gateway \in Connection
    /\ phase = "idle" /\ shown = Blank /\ had = [i \in Id |-> {}]

\* derive_daemon_self_check, as far as the connection goes.
SelfCheck(b) == CASE b = "none" -> "blocked" [] b = "down" -> "degraded" [] b = "up" -> "ok"

Shows(next, page) ==
    /\ phase' = next /\ shown' = page
    /\ UNCHANGED <<name, beat, gateway, had>>

Ask ==
    /\ phase = "idle"
    /\ phase' = "beat" /\ shown' = Blank /\ had' = [i \in Id |-> {name[i]}]
    /\ UNCHANGED <<name, beat, gateway>>

\* get_daemon_heartbeat, and the self check of what it returned.
ReadBeat ==
    phase = "beat" /\ Shows("ids", [shown EXCEPT !.beat = beat, !.self_check = SelfCheck(beat)])

\* get_active_strategy_structure_id, _gate_safety_strategy_id, _allocation_id.
ReadId(f) ==
    /\ phase = "ids" /\ f \notin DOMAIN shown.ids
    /\ LET ids == [g \in DOMAIN shown.ids \cup {f} |->
                        IF g = f THEN settings[f] ELSE shown.ids[g]]
       IN Shows(IF DOMAIN ids = ActiveFields THEN "names" ELSE "ids", [shown EXCEPT !.ids = ids])

NameOf(i) == IF i = Cleared THEN NoName ELSE name[i]

\* Mutant: the name is that of the row which is active by now.
NamedActive(f) == {NameOf(settings[f]), NoName}
\* A name that cannot be read is left out.
Named(f) == {NameOf(shown.ids[f]), NoName}

\* get_structure_by_id, get_gate_safety_name, get_allocation_by_id.
ReadName(f) ==
    /\ phase = "names" /\ f \notin DOMAIN shown.names
    /\ \E n \in Named(f) :
        LET names == [g \in DOMAIN shown.names \cup {f} |-> IF g = f THEN n ELSE shown.names[g]]
        IN Shows(IF DOMAIN names = ActiveFields THEN "socket" ELSE "names",
                 [shown EXCEPT !.names = names])

\* The block of the sockets opens the client of redis-ib, or fails before it has one.
OpenRedis ==
    phase = "socket" /\ \E open \in BOOLEAN : Shows("overlay", [shown EXCEPT !.redis = open])

\* Mutant: the gateway's connection is shown beside the self check of the daemon's.
OverlaidOnly(g) == [shown EXCEPT !.beat = g]
\* apply_platform_gateway_ib_heartbeat_overlay, and the self check once more.
Overlaid(g) == [shown EXCEPT !.beat = g, !.self_check = SelfCheck(g)]

Overlay ==
    /\ phase = "overlay" /\ shown.beat # "none" /\ shown.redis /\ gateway # "none"
    /\ Shows("shown", Overlaid(gateway))

\* No heartbeat, no client, no gateway in charge, or Redis does not answer.
NoOverlay == phase = "overlay" /\ Shows("shown", shown)

\* Any read that is not caught ends in the minimal error page.
FailPage == phase \in {"beat", "ids"} /\ Shows("idle", Blank)

Leave == phase = "shown" /\ Shows("idle", Blank)

\* The account application renames, creates or deletes a row.
Rename(i, n) ==
    /\ n # name[i]
    /\ name' = [name EXCEPT ![i] = n] /\ had' = [had EXCEPT ![i] = @ \cup {n}]
    /\ UNCHANGED <<beat, gateway, phase, shown>>

Live(b, g) ==
    /\ <<b, g>> # <<beat, gateway>>
    /\ beat' = b /\ gateway' = g /\ UNCHANGED <<name, phase, shown, had>>

PageStep ==
    \/ Ask \/ ReadBeat \/ OpenRedis \/ Overlay \/ NoOverlay \/ FailPage \/ Leave
    \/ \E f \in ActiveFields : ReadId(f) \/ ReadName(f)
    \/ \E i \in Id : \E n \in Names \cup {NoName} : Rename(i, n)
    \/ \E b, g \in Connection : Live(b, g)

PageNext == (PageStep /\ UNCHANGED vars) \/ (Next /\ UNCHANGED pageVars)

PageSpec == Init /\ PageInit /\ [][PageNext]_<<vars, pageVars>>

-----------------------------------------------------------------------------
\* A name shown beside an id is one the row of that id has had since the request
\* arrived, however often the setting was written meanwhile; beside no id there
\* is no name (get_status reads each id once and its name by that).
NamesOfTheirIds ==
    phase = "shown" =>
        \A f \in ActiveFields :
            \/ shown.names[f] = NoName
            \/ shown.ids[f] # Cleared /\ shown.names[f] \in had[shown.ids[f]]

\* The self check shown is that of the heartbeat shown, also where the gateway's
\* connection has replaced the daemon's in it after the self check was derived.
CheckOfItsBeat == phase = "shown" => shown.self_check = SelfCheck(shown.beat)

=============================================================================
