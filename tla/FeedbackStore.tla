--------------------------- MODULE FeedbackStore ---------------------------
(***************************************************************************)
(* /research/feedback: the store's own connection pool (one connection     *)
(* kept, at most MaxConn out), the transactions its routes run on Postgres *)
(* and the unread dot of a report.  The server may go away at any moment;  *)
(* a connection it has dropped looks alive until it is used.               *)
(*                                                                         *)
(* External, from how the store uses them: psycopg2's pool (putconn keeps  *)
(* one connection, rolls an open transaction back first, and gives the     *)
(* slot back last) and Postgres at READ COMMITTED (UPDATE waits for the    *)
(* row's lock and then sees the newest row).                               *)
(***************************************************************************)
EXTENDS Integers, FiniteSets

CONSTANTS
    Requests,     \* threads of the pool FastAPI runs the routes on
    MaxConn,      \* maxconn
    MaxImages,    \* MAX_IMAGES
    MaxReports,   \* bound: ids the identity column gives out
    MaxNews,      \* bound: replies and status moves
    MaxFaults     \* bound: outages of the server and commits whose answer is lost

ASSUME RequestsAssumption == IsFiniteSet(Requests)
ASSUME BoundsAssumption ==
    /\ MaxConn \in Nat \ {0} /\ MaxImages \in Nat
    /\ MaxReports \in Nat /\ MaxNews \in Nat /\ MaxFaults \in Nat

VARIABLES
    migrated,     \* db-init has created ops_feedback
    up, faults,   \* Postgres answers; faults so far
    report,       \* ops_feedback.report, committed
    nextId,       \* the identity column: not given back by a rollback
    idle,         \* the connection the pool keeps: none, live, dead
    leaked,       \* slots never given back
    pc, op, on,   \* the request: where it is, its route, its report
    conn, dead,   \* its connection, and whether the server has dropped it
    draft,        \* the row as its transaction has it
    answer,
    newsSent,     \* replies and status moves begun
    shown,        \* history: the newest news an answer of mark_read carried
    lost          \* history: the request committed and was not told

server == <<migrated, up, faults>>
table == <<report, nextId>>
pool == <<idle, leaked>>
request == <<op, on>>
vars == <<server, table, pool, pc, request, conn, dead, draft, answer, newsSent,
          shown, lost>>

-----------------------------------------------------------------------------
Phase == {"idle", "conn", "run", "images", "commit", "put"}
Route == {"post", "get", "read", "news"}
Connection == {"none", "ready", "tx", "closed"}   \* libpq's transaction status
Answer == {"none", "ok", "missing", "invalid", "unmigrated", "timeout", "down", "busy"}

Reports == 1 .. MaxReports
Row == [stored : BOOLEAN, promised : 0 .. MaxImages, images : 0 .. MaxImages,
        news : Nat, unread : BOOLEAN]
NoRow == [stored |-> FALSE, promised |-> 0, images |-> 0, news |-> 0, unread |-> FALSE]

Held == {r \in Requests : conn[r] # "none"}
Used == Cardinality(Held) + leaked
Writes(o) == o \in {"read", "news"}

Init ==
    /\ migrated \in BOOLEAN /\ up = TRUE /\ faults = 0
    /\ report = [i \in Reports |-> NoRow] /\ nextId = 1
    /\ idle = "none" /\ leaked = 0
    /\ pc = [r \in Requests |-> "idle"]
    /\ op = [r \in Requests |-> "get"]
    /\ on = [r \in Requests |-> 0]
    /\ conn = [r \in Requests |-> "none"]
    /\ dead = [r \in Requests |-> FALSE]
    /\ draft = [r \in Requests |-> NoRow]
    /\ answer = [r \in Requests |-> "none"]
    /\ newsSent = 0
    /\ shown = [i \in Reports |-> 0]
    /\ lost = [r \in Requests |-> FALSE]

-----------------------------------------------------------------------------
\* db-init: every step of the schema in one transaction, committed or not.
EnsureSchema ==
    /\ ~migrated /\ up
    /\ migrated' = TRUE
    /\ UNCHANGED <<up, faults, table, pool, pc, request, conn, dead, draft, answer,
                   newsSent, shown, lost>>

ServerStops ==
    /\ up /\ faults < MaxFaults
    /\ up' = FALSE /\ faults' = faults + 1
    /\ dead' = [r \in Requests |-> conn[r] # "none"]
    /\ idle' = IF idle = "none" THEN "none" ELSE "dead"
    /\ UNCHANGED <<migrated, table, leaked, pc, request, conn, draft, answer,
                   newsSent, shown, lost>>

ServerStarts ==
    /\ ~up
    /\ up' = TRUE
    /\ UNCHANGED <<migrated, faults, table, pool, pc, request, conn, dead, draft,
                   answer, newsSent, shown, lost>>

\* The process is replaced, and its pool with it.
Restart ==
    /\ idle' = "none" /\ leaked' = 0
    /\ pc' = [r \in Requests |-> "idle"]
    /\ op' = [r \in Requests |-> "get"]
    /\ on' = [r \in Requests |-> 0]
    /\ conn' = [r \in Requests |-> "none"]
    /\ dead' = [r \in Requests |-> FALSE]
    /\ draft' = [r \in Requests |-> NoRow]
    /\ answer' = [r \in Requests |-> "none"]
    /\ lost' = [r \in Requests |-> FALSE]
    /\ UNCHANGED <<server, table, newsSent, shown>>

-----------------------------------------------------------------------------
Posting == {r \in Requests : pc[r] \in {"conn", "run"} /\ op[r] = "post"}

\* decode_images and parse_public_id have accepted the request.
Begin(r, o, i, n) ==
    /\ pc[r] = "idle"
    /\ o = "post" => nextId + Cardinality(Posting) <= MaxReports
    /\ o = "news" => newsSent < MaxNews
    /\ pc' = [pc EXCEPT ![r] = "conn"]
    /\ op' = [op EXCEPT ![r] = o]
    /\ on' = [on EXCEPT ![r] = IF Writes(o) THEN i ELSE 0]
    /\ draft' = [draft EXCEPT ![r] =
                     [NoRow EXCEPT !.promised = IF o = "post" THEN n ELSE 0]]
    /\ answer' = [answer EXCEPT ![r] = "none"]
    /\ lost' = [lost EXCEPT ![r] = FALSE]
    /\ newsSent' = IF o = "news" THEN newsSent + 1 ELSE newsSent
    /\ UNCHANGED <<server, table, pool, conn, dead, shown>>

\* Mutant: a new connection is opened whatever is out.
GetConnUncounted(r) ==
    /\ pc[r] = "conn"
    /\ idle # "none" \/ up
    /\ pc' = [pc EXCEPT ![r] = "run"]
    /\ conn' = [conn EXCEPT ![r] = "ready"]
    /\ dead' = [dead EXCEPT ![r] = idle = "dead"]
    /\ idle' = "none"
    /\ UNCHANGED <<server, table, leaked, request, draft, answer, newsSent, shown, lost>>

\* getconn: the kept connection, alive or not; else a new one.
GetConn(r) ==
    /\ pc[r] = "conn"
    /\ idle # "none" \/ (Used < MaxConn /\ up)
    /\ pc' = [pc EXCEPT ![r] = "run"]
    /\ conn' = [conn EXCEPT ![r] = "ready"]
    /\ dead' = [dead EXCEPT ![r] = idle = "dead"]
    /\ idle' = "none"
    /\ UNCHANGED <<server, table, leaked, request, draft, answer, newsSent, shown, lost>>

\* PoolError: no slot left; or the server refuses the connection.
NoConn(r) ==
    /\ pc[r] = "conn"
    /\ idle = "none" /\ (Used = MaxConn \/ ~up)
    /\ pc' = [pc EXCEPT ![r] = "idle"]
    /\ answer' = [answer EXCEPT ![r] = IF Used = MaxConn THEN "busy" ELSE "down"]
    /\ UNCHANGED <<server, table, pool, request, conn, dead, draft, newsSent, shown, lost>>

\* The request leaves its work with an answer and a connection to give back.
EndWith(r, a, c) ==
    /\ pc' = [pc EXCEPT ![r] = "put"]
    /\ answer' = [answer EXCEPT ![r] = a]
    /\ conn' = [conn EXCEPT ![r] = c]

\* FeedbackValidationError of insert_report, set_status or set_reply: the
\* connection is out already, no statement has run on it.
Invalid(r) ==
    /\ pc[r] = "run" /\ op[r] \in {"post", "news"}
    /\ EndWith(r, "invalid", "ready")
    /\ UNCHANGED <<server, table, pool, request, dead, draft, newsSent, shown, lost>>

\* Mutant: the broken connection is taken for a good one.
BreaksUnnoticed(r) ==
    /\ pc[r] \in {"run", "images", "commit"} /\ dead[r]
    /\ EndWith(r, "down", "ready")
    /\ UNCHANGED <<server, table, pool, request, dead, draft, newsSent, shown, lost>>

\* Any call on a connection the server has dropped raises and closes it.
Breaks(r) ==
    /\ pc[r] \in {"run", "images", "commit"} /\ dead[r]
    /\ EndWith(r, "down", "closed")
    /\ UNCHANGED <<server, table, pool, request, dead, draft, newsSent, shown, lost>>

\* undefined_table: the schema was never created.
Unmigrated(r) ==
    /\ pc[r] = "run" /\ ~dead[r] /\ ~migrated
    /\ EndWith(r, "unmigrated", "tx")
    /\ UNCHANGED <<server, table, pool, request, dead, draft, newsSent, shown, lost>>

Works(r) == pc[r] = "run" /\ ~dead[r] /\ migrated

\* list_reports, summary, get_image: one SELECT, no commit.
Select(r) ==
    /\ Works(r) /\ op[r] = "get"
    /\ EndWith(r, "ok", "tx")
    /\ UNCHANGED <<server, table, pool, request, dead, draft, newsSent, shown, lost>>

AfterInsert(r) == IF draft[r].promised = 0 THEN "commit" ELSE "images"

\* Mutant: the report is committed before its images are there.
InsertCommitted(r) ==
    /\ Works(r) /\ op[r] = "post"
    /\ pc' = [pc EXCEPT ![r] = AfterInsert(r)]
    /\ conn' = [conn EXCEPT ![r] = "tx"]
    /\ on' = [on EXCEPT ![r] = nextId]
    /\ draft' = [draft EXCEPT ![r].stored = TRUE]
    /\ nextId' = nextId + 1
    /\ report' = [report EXCEPT ![nextId] = draft'[r]]
    /\ UNCHANGED <<server, pool, op, dead, answer, newsSent, shown, lost>>

\* insert_report: the report's row ...
Insert(r) ==
    /\ Works(r) /\ op[r] = "post"
    /\ pc' = [pc EXCEPT ![r] = AfterInsert(r)]
    /\ conn' = [conn EXCEPT ![r] = "tx"]
    /\ on' = [on EXCEPT ![r] = nextId]
    /\ draft' = [draft EXCEPT ![r].stored = TRUE]
    /\ nextId' = nextId + 1
    /\ UNCHANGED <<server, report, pool, op, dead, answer, newsSent, shown, lost>>

\* ... and its images, one statement each.
InsertImage(r) ==
    /\ pc[r] = "images" /\ ~dead[r]
    /\ draft' = [draft EXCEPT ![r].images = @ + 1]
    /\ pc' = [pc EXCEPT ![r] = IF draft'[r].images = draft[r].promised
                               THEN "commit" ELSE "images"]
    /\ UNCHANGED <<server, table, pool, request, conn, dead, answer, newsSent, shown, lost>>

\* Mutant: the row is read and written back without its lock.
LockedNever(r) == FALSE

Locked(r) == \E u \in Requests \ {r} :
    pc[u] = "commit" /\ ~dead[u] /\ Writes(op[u]) /\ on[u] = on[r]

\* _touch: UPDATE ... RETURNING the row.
Touch(r) ==
    /\ Works(r) /\ Writes(op[r])
    /\ ~Locked(r)
    /\ pc' = [pc EXCEPT ![r] = "commit"]
    /\ conn' = [conn EXCEPT ![r] = "tx"]
    /\ draft' = [draft EXCEPT ![r] =
            IF ~report[on[r]].stored THEN NoRow
            ELSE IF op[r] = "read" THEN [report[on[r]] EXCEPT !.unread = FALSE]
            ELSE [report[on[r]] EXCEPT !.unread = TRUE, !.news = @ + 1]]
    /\ UNCHANGED <<server, table, pool, request, dead, answer, newsSent, shown, lost>>

\* A statement fails on a live connection, by statement_timeout while it runs
\* or waits for a lock: the transaction is left open for putconn to roll back.
StatementFails(r) ==
    /\ pc[r] \in {"run", "images"} /\ ~dead[r] /\ migrated
    /\ EndWith(r, "timeout", "tx")
    /\ UNCHANGED <<server, table, pool, request, dead, draft, newsSent, shown, lost>>

\* The columns the transaction set.
Written(r) ==
    IF op[r] = "post" THEN draft[r]
    ELSE [report[on[r]] EXCEPT
             !.unread = draft[r].unread,
             !.news = IF op[r] = "news" THEN draft[r].news ELSE @]

Committed(r) ==
    /\ pc[r] = "commit" /\ ~dead[r]
    /\ report' = IF draft[r].stored THEN [report EXCEPT ![on[r]] = Written(r)] ELSE report
    /\ shown' = IF draft[r].stored /\ op[r] = "read"
                THEN [shown EXCEPT ![on[r]] = draft[r].news] ELSE shown

Commit(r) ==
    /\ Committed(r)
    /\ EndWith(r, IF draft[r].stored THEN "ok" ELSE "missing", "ready")
    /\ UNCHANGED <<server, nextId, pool, request, dead, draft, newsSent, lost>>

\* Mutant: a commit that raised is answered as done.
CommitLostOk(r) ==
    /\ Committed(r)
    /\ faults < MaxFaults /\ faults' = faults + 1
    /\ EndWith(r, "ok", "closed")
    /\ UNCHANGED <<migrated, up, nextId, pool, request, dead, draft, newsSent, lost>>

\* The commit went through and its answer did not.
CommitLost(r) ==
    /\ Committed(r)
    /\ faults < MaxFaults /\ faults' = faults + 1
    /\ EndWith(r, "down", "closed")
    /\ lost' = [lost EXCEPT ![r] = TRUE]
    /\ UNCHANGED <<migrated, up, nextId, pool, request, dead, draft, newsSent>>

\* putconn with nothing kept and a usable connection: an open transaction is
\* rolled back, one whose server went away unnoticed is kept as it is.
PutBack(r) ==
    /\ pc[r] = "put" /\ idle = "none"
    /\ conn[r] = "ready" \/ (conn[r] = "tx" /\ ~dead[r])
    /\ idle' = IF dead[r] THEN "dead" ELSE "live"
    /\ pc' = [pc EXCEPT ![r] = "idle"]
    /\ conn' = [conn EXCEPT ![r] = "none"]
    /\ dead' = [dead EXCEPT ![r] = FALSE]
    /\ UNCHANGED <<server, table, leaked, request, draft, answer, newsSent, shown, lost>>

\* putconn closes what it need not keep.
Discard(r) ==
    /\ pc[r] = "put" /\ (idle # "none" \/ conn[r] = "closed")
    /\ pc' = [pc EXCEPT ![r] = "idle"]
    /\ conn' = [conn EXCEPT ![r] = "none"]
    /\ dead' = [dead EXCEPT ![r] = FALSE]
    /\ UNCHANGED <<server, table, pool, request, draft, answer, newsSent, shown, lost>>

\* putconn's rollback raises: what follows it, giving back the slot, is not
\* reached, and the exception takes the place of the answer.
RollbackRaises(r) ==
    /\ pc[r] = "put" /\ idle = "none" /\ conn[r] = "tx" /\ dead[r]
    /\ leaked' = leaked + 1
    /\ pc' = [pc EXCEPT ![r] = "idle"]
    /\ answer' = [answer EXCEPT ![r] = "down"]
    /\ conn' = [conn EXCEPT ![r] = "none"]
    /\ dead' = [dead EXCEPT ![r] = FALSE]
    /\ UNCHANGED <<server, table, idle, request, draft, newsSent, shown, lost>>

Step(r) ==
    \/ GetConn(r) \/ NoConn(r)
    \/ Breaks(r) \/ Unmigrated(r) \/ Select(r) \/ Insert(r) \/ InsertImage(r)
    \/ Touch(r) \/ Commit(r)
    \/ PutBack(r) \/ Discard(r) \/ RollbackRaises(r)

Next ==
    \/ EnsureSchema \/ ServerStops \/ ServerStarts \/ Restart
    \/ \E r \in Requests :
        \/ \E o \in Route, i \in Reports, n \in 0 .. MaxImages : Begin(r, o, i, n)
        \/ Step(r) \/ Invalid(r) \/ StatementFails(r) \/ CommitLost(r)

Spec == Init /\ [][Next]_vars

\* The shell's top bar polls the summary, and a route that runs ends.
Fairness == \A r \in Requests :
    WF_vars(\E i \in Reports, n \in 0 .. MaxImages : Begin(r, "get", i, n)) /\ WF_vars(Step(r))

LiveSpec == Spec /\ Fairness

-----------------------------------------------------------------------------
TypeOK ==
    /\ migrated \in BOOLEAN /\ up \in BOOLEAN /\ faults \in 0 .. MaxFaults
    /\ report \in [Reports -> Row] /\ nextId \in 1 .. MaxReports + 1
    /\ idle \in {"none", "live", "dead"} /\ leaked \in 0 .. MaxConn
    /\ pc \in [Requests -> Phase] /\ op \in [Requests -> Route]
    /\ on \in [Requests -> 0 .. MaxReports]
    /\ conn \in [Requests -> Connection] /\ dead \in [Requests -> BOOLEAN]
    /\ draft \in [Requests -> Row] /\ answer \in [Requests -> Answer]
    /\ newsSent \in 0 .. MaxNews /\ shown \in [Reports -> Nat]
    /\ lost \in [Requests -> BOOLEAN]

\* However slots are taken, kept and lost, the store never has more than
\* maxconn connections: getconn hands the kept one out without counting.
ConnectionsBounded == Used + (IF idle = "none" THEN 0 ELSE 1) <= MaxConn

\* A report that anyone can read has all the images it was sent with.
ReportsWhole == \A i \in Reports : report[i].stored => report[i].images = report[i].promised

\* The dot is off only if the newest reply or status move of the report was in
\* the answer of a mark_read (an answer that may have been lost on its way).
NewsSeen == \A i \in Reports :
    (report[i].stored /\ ~report[i].unread) => shown[i] = report[i].news

\* A submit answered 200 is stored and one answered otherwise is not, except
\* when the answer of its commit was lost; a reply answered 200 is in the row
\* whatever overlapped it.
AnswerTrue == \A r \in Requests : pc[r] = "put" =>
    /\ op[r] = "post" =>
        \/ lost[r]
        \/ (answer[r] = "ok") = (on[r] # 0 /\ report[on[r]].stored)
    /\ (op[r] = "news" /\ answer[r] = "ok") =>
        draft[r].news >= 1 /\ report[on[r]].news >= draft[r].news

\* Once outages stop, a connection the server had dropped costs at most a few
\* answers: the 503 "feedback store error" of a lost connection stops for good,
\* and the one of an exhausted pool stays only where the threads and the slots
\* that leaked together outnumber the pool: a leak is never made good but by a
\* new process.  A statement the server does not finish in time may fail at
\* any time.
StoreRecovers == <>[]up => <>[](\A r \in Requests :
    /\ answer[r] # "down"
    /\ answer[r] = "busy" => Cardinality(Requests) + leaked > MaxConn)

=============================================================================
