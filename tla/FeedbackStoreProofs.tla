------------------------ MODULE FeedbackStoreProofs ------------------------
(***************************************************************************)
(* The feedback store for any number of threads, any size of the pool and  *)
(* any number of reports, images, replies and outages.                     *)
(***************************************************************************)
EXTENDS FeedbackStore, FiniteSetTheorems, TLAPS

\* A request has a connection exactly while it works.
HeldInv == \A r \in Requests :
    (conn[r] # "none") <=> (pc[r] \in {"run", "images", "commit", "put"})

\* The identity column has an id for every submit under way.
IdInv == nextId + Cardinality(Posting) <= MaxReports + 1

\* What a request carries in each phase.
FormInv == \A r \in Requests :
    /\ Writes(op[r]) => on[r] \in Reports
    /\ (pc[r] \in {"conn", "run"} /\ op[r] = "post") =>
           on[r] = 0 /\ draft[r].images = 0 /\ draft[r].news = 0 /\ ~draft[r].unread
    /\ pc[r] = "images" => op[r] = "post" /\ draft[r].images < draft[r].promised
    /\ pc[r] = "commit" => op[r] # "get"
    /\ (pc[r] = "commit" /\ op[r] = "post") => draft[r].images = draft[r].promised

\* A submit that has its id owns it, and nobody sees its report before its commit.
OwnInv == \A r \in Requests :
    /\ (pc[r] \in {"images", "commit"} /\ op[r] = "post") =>
           /\ on[r] \in Reports /\ ~report[on[r]].stored
           /\ draft[r].stored /\ draft[r].news = 0 /\ ~draft[r].unread
    /\ (pc[r] \in {"images", "commit", "put"} /\ op[r] = "post") => on[r] < nextId
    /\ \A u \in Requests \ {r} :
           ( /\ op[r] = "post" /\ pc[r] \in {"images", "commit", "put"}
             /\ op[u] = "post" /\ pc[u] \in {"images", "commit", "put"} )
           => on[r] # on[u] \/ on[r] = 0

\* Ids ahead of the column, and reports nobody can see, have no history.
FreshInv == \A i \in Reports :
    /\ i >= nextId => ~report[i].stored
    /\ ~report[i].stored => shown[i] = 0

Locks(r) == pc[r] = "commit" /\ ~dead[r] /\ Writes(op[r])

\* A row that a living transaction has updated is as it found it, but for
\* what that transaction is about to commit, and no other has it too.
LockInv == \A r \in Requests : Locks(r) =>
    /\ draft[r].stored =>
           /\ report[on[r]].stored
           /\ op[r] = "read" => draft[r].news = report[on[r]].news /\ ~draft[r].unread
           /\ op[r] = "news" => draft[r].news = report[on[r]].news + 1 /\ draft[r].unread
    /\ \A u \in Requests \ {r} : Locks(u) => on[u] # on[r]

\* What is answered of a reply is in the row of a report that is there.
ReplyInv == \A r \in Requests :
    (pc[r] = "put" /\ op[r] = "news" /\ answer[r] = "ok") => report[on[r]].stored

DataInv == FormInv /\ OwnInv /\ FreshInv /\ LockInv /\ ReplyInv
           /\ ReportsWhole /\ NewsSeen /\ AnswerTrue
IInv == TypeOK /\ HeldInv /\ ConnectionsBounded /\ IdInv /\ DataInv

-----------------------------------------------------------------------------
\* What the changes of a row keep of it.

LEMMA NoRowIsRow == NoRow \in Row
BY BoundsAssumption DEF NoRow, Row

LEMMA PromisedRow ==
  ASSUME NEW w \in Row, NEW k \in 0 .. MaxImages
  PROVE  [w EXCEPT !.promised = k] \in Row
BY DEF Row

LEMMA ReadRow ==
  ASSUME NEW w \in Row
  PROVE  LET v == [w EXCEPT !.unread = FALSE]
         IN  v \in Row /\ v.stored = w.stored /\ v.news = w.news /\ ~v.unread
BY DEF Row

LEMMA NewsRow ==
  ASSUME NEW w \in Row
  PROVE  LET v == [w EXCEPT !.unread = TRUE, !.news = @ + 1]
         IN  v \in Row /\ v.stored = w.stored /\ v.news = w.news + 1 /\ v.unread
<1> DEFINE x == [w EXCEPT !.unread = TRUE]
           v == [x EXCEPT !.news = w.news + 1]
<1>1. x \in Row /\ x.stored = w.stored /\ x.unread
  BY DEF Row
<1>2. x.news = w.news /\ w.news + 1 \in Nat
  BY DEF Row
<1> HIDE DEF x
<1>3. v \in Row /\ v.stored = x.stored /\ v.unread = x.unread /\ v.news = w.news + 1
  BY <1>1, <1>2 DEF Row
<1>4. v = [w EXCEPT !.unread = TRUE, !.news = @ + 1]
  BY <1>2 DEF x
<1> QED BY <1>1, <1>2, <1>3, <1>4

LEMMA HeldFinite == IsFiniteSet(Held) /\ Cardinality(Held) \in Nat
<1>1. Held \in SUBSET Requests
  BY DEF Held
<1> QED BY <1>1, RequestsAssumption, FS_Subset, FS_CardinalityType

LEMMA PostingFinite == IsFiniteSet(Posting) /\ Cardinality(Posting) \in Nat
<1>1. Posting \in SUBSET Requests
  BY DEF Posting
<1> QED BY <1>1, RequestsAssumption, FS_Subset, FS_CardinalityType

\* No submit starts.
LEMMA FewerPosting ==
  ASSUME Posting' \subseteq Posting
  PROVE  Cardinality(Posting') \in Nat /\ Cardinality(Posting') <= Cardinality(Posting)
BY PostingFinite, FS_Subset, FS_CardinalityType

LEMMA HeldSame ==
  ASSUME \A r \in Requests : (conn'[r] # "none") <=> (conn[r] # "none")
  PROVE  Held' = Held
BY DEF Held

LEMMA HeldMore ==
  ASSUME conn \in [Requests -> Connection], NEW r \in Requests, conn[r] = "none",
         conn' = [conn EXCEPT ![r] = "ready"]
  PROVE  Cardinality(Held') = Cardinality(Held) + 1
<1>1. Held' = Held \cup {r} /\ r \notin Held
  BY DEF Held
<1> QED BY <1>1, HeldFinite, FS_AddElement

LEMMA HeldLess ==
  ASSUME conn \in [Requests -> Connection], NEW r \in Requests, conn[r] # "none",
         conn' = [conn EXCEPT ![r] = "none"]
  PROVE  Cardinality(Held') = Cardinality(Held) - 1
<1>1. Held' = Held \ {r} /\ r \in Held
  BY DEF Held
<1> QED BY <1>1, HeldFinite, FS_RemoveElement

LEMMA InitHolds == Init => IInv
<1> SUFFICES ASSUME Init PROVE IInv
  OBVIOUS
<1>1. Held = {} /\ Posting = {}
  BY DEF Init, Held, Posting
<1>2. Cardinality({}) = 0
  BY FS_EmptySet
<1>3. TypeOK
  BY BoundsAssumption DEF Init, TypeOK, Phase, Route, Connection, Answer, Row, NoRow, Reports
<1>4. HeldInv /\ ConnectionsBounded /\ IdInv
  BY <1>1, <1>2, BoundsAssumption DEF Init, HeldInv, ConnectionsBounded, Used, IdInv
<1>5. DataInv
  BY DEF Init, DataInv, FormInv, OwnInv, FreshInv, LockInv, Locks, ReplyInv, ReportsWhole,
         NewsSeen, AnswerTrue, NoRow, Writes, Reports
<1> QED BY <1>3, <1>4, <1>5 DEF IInv

-----------------------------------------------------------------------------
\* The world, and the end of the process.

LEMMA ServerKeeps ==
  ASSUME IInv, EnsureSchema \/ ServerStarts
  PROVE  IInv'
<1>1. TypeOK'
  BY DEF IInv, TypeOK, EnsureSchema, ServerStarts, table, pool, request
<1>2. Held' = Held /\ Posting' = Posting
  BY DEF EnsureSchema, ServerStarts, Held, Posting, request
<1>3. HeldInv' /\ ConnectionsBounded' /\ IdInv'
  BY <1>2 DEF IInv, HeldInv, ConnectionsBounded, Used, IdInv, EnsureSchema, ServerStarts,
              table, pool, request
<1>4. DataInv'
  BY DEF IInv, DataInv, FormInv, OwnInv, FreshInv, LockInv, Locks, ReplyInv, ReportsWhole,
         NewsSeen, AnswerTrue, EnsureSchema, ServerStarts, table, pool, request
<1> QED BY <1>1, <1>3, <1>4 DEF IInv

LEMMA ServerStopsKeeps ==
  ASSUME IInv, ServerStops
  PROVE  IInv'
<1>1. TypeOK'
  <2>1. dead' \in [Requests -> BOOLEAN] /\ idle' \in {"none", "live", "dead"}
    BY DEF IInv, TypeOK, ServerStops
  <2>2. faults' \in 0 .. MaxFaults
    BY BoundsAssumption DEF IInv, TypeOK, ServerStops
  <2>3. UNCHANGED <<migrated, report, nextId, leaked, pc, op, on, conn, draft, answer,
                    newsSent, shown, lost>> /\ up' = FALSE
    BY DEF ServerStops, table, request
  <2> QED BY <2>1, <2>2, <2>3 DEF IInv, TypeOK
<1>2. Held' = Held /\ Posting' = Posting
  BY DEF ServerStops, Held, Posting, request
<1>3. HeldInv' /\ ConnectionsBounded' /\ IdInv'
  BY <1>2 DEF IInv, TypeOK, HeldInv, ConnectionsBounded, Used, IdInv, ServerStops,
              table, request
<1>4. \A r \in Requests : ~Locks(r)'
  BY DEF ServerStops, Locks, IInv, HeldInv
<1>5. DataInv'
  BY <1>4 DEF IInv, DataInv, FormInv, OwnInv, FreshInv, LockInv, ReplyInv, ReportsWhole,
              NewsSeen, AnswerTrue, ServerStops, table, request
<1> QED BY <1>1, <1>3, <1>5 DEF IInv

LEMMA RestartKeeps ==
  ASSUME IInv, Restart
  PROVE  IInv'
<1>1. TypeOK'
  BY BoundsAssumption DEF IInv, TypeOK, Restart, server, table, Phase, Route, Connection,
                          Answer, Row, NoRow
<1>2. Held' = {} /\ Posting' = {}
  BY DEF Restart, Held, Posting
<1>3. Cardinality({}) = 0
  BY FS_EmptySet
<1>4. HeldInv' /\ ConnectionsBounded'
  BY <1>2, <1>3, BoundsAssumption DEF Restart, HeldInv, ConnectionsBounded, Used
<1>5. IdInv'
  BY <1>2, <1>3, PostingFinite, BoundsAssumption DEF Restart, IInv, TypeOK, IdInv, table
<1>6. DataInv'
  BY DEF IInv, DataInv, FormInv, OwnInv, FreshInv, LockInv, Locks, ReplyInv, ReportsWhole,
         NewsSeen, AnswerTrue, NoRow, Writes, Restart, table
<1> QED BY <1>1, <1>4, <1>5, <1>6 DEF IInv

-----------------------------------------------------------------------------
\* The request, from its arrival to its work.

LEMMA BeginKeeps ==
  ASSUME IInv, NEW r \in Requests, NEW o \in Route, NEW i \in Reports,
         NEW n \in 0 .. MaxImages, Begin(r, o, i, n)
  PROVE  IInv'
<1>1. TypeOK'
  <2>1. pc' \in [Requests -> Phase] /\ op' \in [Requests -> Route]
        /\ answer' \in [Requests -> Answer] /\ lost' \in [Requests -> BOOLEAN]
    BY DEF IInv, TypeOK, Begin, Phase, Answer
  <2>2. on' \in [Requests -> 0 .. MaxReports] /\ newsSent' \in 0 .. MaxNews
    BY SMTT(30), BoundsAssumption DEF IInv, TypeOK, Begin, Reports
  <2>3. draft' \in [Requests -> Row]
    <3>1. (IF o = "post" THEN n ELSE 0) \in 0 .. MaxImages
      BY BoundsAssumption
    <3>2. [NoRow EXCEPT !.promised = IF o = "post" THEN n ELSE 0] \in Row
      BY <3>1, NoRowIsRow, PromisedRow
    <3> QED BY <3>2 DEF IInv, TypeOK, Begin
  <2> QED BY <2>1, <2>2, <2>3 DEF IInv, TypeOK, Begin, server, table, pool
<1>2. HeldInv'
  BY DEF IInv, TypeOK, HeldInv, Begin
<1>3. ConnectionsBounded'
  <2>1. Held' = Held
    BY DEF Begin, Held
  <2> QED BY <2>1 DEF IInv, ConnectionsBounded, Used, Begin, pool
<1>4. IdInv'
  <2>1. CASE o = "post"
    <3>1. Posting' = Posting \cup {r}
      BY <2>1 DEF IInv, TypeOK, Begin, Posting
    <3>2. Cardinality(Posting') \in Nat /\ Cardinality(Posting') <= Cardinality(Posting) + 1
      <4>1. Cardinality(Posting \cup {r}) \in Nat
        BY PostingFinite, FS_AddElement, FS_CardinalityType
      <4>2. Cardinality(Posting \cup {r})
              = IF r \in Posting THEN Cardinality(Posting) ELSE Cardinality(Posting) + 1
        BY PostingFinite, FS_AddElement
      <4> QED BY <3>1, <4>1, <4>2, PostingFinite
    <3>3. nextId + Cardinality(Posting) <= MaxReports /\ nextId' = nextId
      BY <2>1 DEF Begin, table
    <3> QED BY <3>2, <3>3, PostingFinite, BoundsAssumption DEF IInv, TypeOK, IdInv
  <2>2. CASE o # "post"
    <3>1. Posting' \subseteq Posting /\ nextId' = nextId
      BY <2>2 DEF IInv, TypeOK, Begin, Posting, table
    <3> QED BY <3>1, FewerPosting, PostingFinite, BoundsAssumption DEF IInv, TypeOK, IdInv
  <2> QED BY <2>1, <2>2
<1>5. UNCHANGED <<report, nextId, shown, dead>>
      /\ pc' = [pc EXCEPT ![r] = "conn"] /\ op' = [op EXCEPT ![r] = o]
      /\ on' = [on EXCEPT ![r] = IF Writes(o) THEN i ELSE 0]
  BY DEF Begin, table
<1>6. FormInv'
  <2>1. draft'[r].images = 0 /\ draft'[r].news = 0 /\ ~draft'[r].unread
    BY DEF IInv, TypeOK, Begin, NoRow
  <2>2. \A u \in Requests \ {r} : draft'[u] = draft[u]
    BY DEF IInv, TypeOK, Begin
  <2> QED BY <1>5, <2>1, <2>2 DEF IInv, TypeOK, DataInv, FormInv, Writes
<1>7. OwnInv' /\ LockInv'
  BY <1>5 DEF IInv, TypeOK, DataInv, OwnInv, LockInv, Locks, Begin, Writes
<1>8. FreshInv' /\ ReportsWhole' /\ NewsSeen'
  BY <1>5 DEF IInv, DataInv, FreshInv, ReportsWhole, NewsSeen
<1>9. ReplyInv' /\ AnswerTrue'
  BY <1>5 DEF IInv, TypeOK, DataInv, ReplyInv, AnswerTrue, Begin
<1> QED BY <1>1, <1>2, <1>3, <1>4, <1>6, <1>7, <1>8, <1>9 DEF IInv, DataInv

LEMMA GetConnKeeps ==
  ASSUME IInv, NEW r \in Requests, GetConn(r)
  PROVE  IInv'
<1>1. UNCHANGED <<server, table, leaked, request, draft, answer, newsSent, shown, lost>>
      /\ pc' = [pc EXCEPT ![r] = "run"] /\ conn' = [conn EXCEPT ![r] = "ready"]
      /\ dead' = [dead EXCEPT ![r] = idle = "dead"] /\ idle' = "none" /\ pc[r] = "conn"
  BY DEF GetConn
<1>2. TypeOK'
  BY <1>1 DEF IInv, TypeOK, server, table, request, Phase, Connection
<1>3. HeldInv'
  BY <1>1 DEF IInv, TypeOK, HeldInv
<1>4. ConnectionsBounded'
  <2>1. conn[r] = "none"
    BY <1>1 DEF IInv, HeldInv
  <2>2. Cardinality(Held') = Cardinality(Held) + 1
    BY <1>1, <2>1, HeldMore DEF IInv, TypeOK
  <2>3. CASE idle # "none"
    BY <1>1, <2>2, <2>3, HeldFinite, BoundsAssumption DEF IInv, TypeOK, ConnectionsBounded, Used
  <2>4. CASE idle = "none"
    <3>1. Used < MaxConn
      BY <2>4 DEF GetConn
    <3> QED BY <1>1, <2>2, <3>1, HeldFinite, BoundsAssumption
            DEF IInv, TypeOK, ConnectionsBounded, Used
  <2> QED BY <2>3, <2>4
<1>5. IdInv'
  <2>1. Posting' \subseteq Posting /\ nextId' = nextId
    BY <1>1 DEF IInv, TypeOK, Posting, request, table
  <2> QED BY <2>1, FewerPosting, PostingFinite, BoundsAssumption DEF IInv, TypeOK, IdInv
<1>6. DataInv'
  BY <1>1 DEF IInv, TypeOK, DataInv, FormInv, OwnInv, FreshInv, LockInv, Locks, ReplyInv,
              ReportsWhole, NewsSeen, AnswerTrue, request, table
<1> QED BY <1>2, <1>3, <1>4, <1>5, <1>6 DEF IInv

LEMMA NoConnKeeps ==
  ASSUME IInv, NEW r \in Requests, NoConn(r)
  PROVE  IInv'
<1>1. UNCHANGED <<server, table, pool, request, conn, dead, draft, newsSent, shown, lost>>
      /\ pc' = [pc EXCEPT ![r] = "idle"] /\ pc[r] = "conn"
      /\ \E a \in {"busy", "down"} : answer' = [answer EXCEPT ![r] = a]
  BY DEF NoConn
<1>2. TypeOK'
  BY <1>1 DEF IInv, TypeOK, server, table, pool, request, Phase, Answer
<1>3. HeldInv'
  BY <1>1 DEF IInv, TypeOK, HeldInv
<1>4. ConnectionsBounded'
  <2>1. Held' = Held
    BY <1>1 DEF Held
  <2> QED BY <1>1, <2>1 DEF IInv, ConnectionsBounded, Used, pool
<1>5. IdInv'
  <2>1. Posting' \subseteq Posting /\ nextId' = nextId
    BY <1>1 DEF IInv, TypeOK, Posting, request, table
  <2> QED BY <2>1, FewerPosting, PostingFinite, BoundsAssumption DEF IInv, TypeOK, IdInv
<1>6. DataInv'
  BY <1>1 DEF IInv, TypeOK, DataInv, FormInv, OwnInv, FreshInv, LockInv, Locks, ReplyInv,
              ReportsWhole, NewsSeen, AnswerTrue, request, table
<1> QED BY <1>2, <1>3, <1>4, <1>5, <1>6 DEF IInv

\* Every way to end the work that has not committed.
Ended(r, a, c) ==
    /\ pc[r] \in {"run", "images", "commit"}
    /\ EndWith(r, a, c)
    /\ UNCHANGED <<server, table, pool, request, dead, draft, newsSent, shown, lost>>

LEMMA EndedKeeps ==
  ASSUME IInv, NEW r \in Requests, NEW a \in Answer, NEW c \in Connection \ {"none"},
         Ended(r, a, c), a = "ok" => op[r] = "get"
  PROVE  IInv'
<1>1. UNCHANGED <<server, table, pool, request, dead, draft, newsSent, shown, lost>>
      /\ pc' = [pc EXCEPT ![r] = "put"] /\ answer' = [answer EXCEPT ![r] = a]
      /\ conn' = [conn EXCEPT ![r] = c] /\ pc[r] \in {"run", "images", "commit"}
  BY DEF Ended, EndWith
<1>2. TypeOK'
  BY <1>1 DEF IInv, TypeOK, server, table, pool, request, Phase
<1>3. HeldInv'
  BY <1>1 DEF IInv, TypeOK, HeldInv
<1>4. ConnectionsBounded'
  <2>1. Held' = Held
    BY <1>1, HeldSame DEF IInv, TypeOK, HeldInv
  <2> QED BY <1>1, <2>1 DEF IInv, ConnectionsBounded, Used, pool
<1>5. IdInv'
  <2>1. Posting' \subseteq Posting /\ nextId' = nextId
    BY <1>1 DEF IInv, TypeOK, Posting, request, table
  <2> QED BY <2>1, FewerPosting, PostingFinite, BoundsAssumption DEF IInv, TypeOK, IdInv
<1>6. FormInv' /\ FreshInv' /\ ReportsWhole' /\ NewsSeen'
  BY <1>1 DEF IInv, TypeOK, DataInv, FormInv, FreshInv, ReportsWhole, NewsSeen, request, table
<1>7. OwnInv'
  <2>1. (op[r] = "post" /\ pc[r] = "run") => on[r] = 0
    BY DEF IInv, DataInv, FormInv
  <2>2. nextId > 0
    BY DEF IInv, TypeOK
  <2>3. \A u \in Requests \ {r} : pc'[u] = pc[u]
    BY <1>1 DEF IInv, TypeOK
  <2> QED BY <1>1, <2>1, <2>2, <2>3 DEF IInv, TypeOK, DataInv, OwnInv, request, table
<1>8. LockInv' /\ ReplyInv'
  BY <1>1 DEF IInv, TypeOK, DataInv, LockInv, Locks, ReplyInv, request, table
<1>9. AnswerTrue'
  <2>1. op[r] = "post" => on[r] = 0 \/ ~report[on[r]].stored
    BY <1>1 DEF IInv, DataInv, FormInv, OwnInv
  <2> QED BY <1>1, <2>1 DEF IInv, TypeOK, DataInv, AnswerTrue, request, table
<1> QED BY <1>2, <1>3, <1>4, <1>5, <1>6, <1>7, <1>8, <1>9 DEF IInv, DataInv

LEMMA AllEndedKeeps ==
  ASSUME IInv, NEW r \in Requests,
         Invalid(r) \/ Breaks(r) \/ Unmigrated(r) \/ Select(r) \/ StatementFails(r)
  PROVE  IInv'
<1>1. \E a \in Answer, c \in Connection \ {"none"} :
          Ended(r, a, c) /\ (a = "ok" => op[r] = "get")
  BY DEF Ended, Invalid, Breaks, Unmigrated, Select, StatementFails, Works, Answer, Connection
<1> QED BY <1>1, EndedKeeps

-----------------------------------------------------------------------------
\* The transactions.

LEMMA InsertKeeps ==
  ASSUME IInv, NEW r \in Requests, Insert(r)
  PROVE  IInv'
<1>1. UNCHANGED <<server, report, pool, op, dead, answer, newsSent, shown, lost>>
      /\ pc[r] = "run" /\ op[r] = "post"
      /\ pc' = [pc EXCEPT ![r] = AfterInsert(r)]
      /\ conn' = [conn EXCEPT ![r] = "tx"]
      /\ on' = [on EXCEPT ![r] = nextId]
      /\ draft' = [draft EXCEPT ![r].stored = TRUE]
      /\ nextId' = nextId + 1
  BY DEF Insert, Works
<1>2. nextId + Cardinality(Posting) <= MaxReports + 1 /\ Cardinality(Posting') \in Nat
      /\ Cardinality(Posting') = Cardinality(Posting) - 1
  <2>1. Posting' = Posting \ {r} /\ r \in Posting
    BY <1>1 DEF IInv, TypeOK, Posting, AfterInsert
  <2>2. Cardinality(Posting \ {r}) = Cardinality(Posting) - 1
        /\ Cardinality(Posting \ {r}) \in Nat
    BY <2>1, PostingFinite, FS_RemoveElement, FS_CardinalityType
  <2> QED BY <2>1, <2>2 DEF IInv, IdInv
<1>3. nextId \in Reports
  BY <1>2, PostingFinite, BoundsAssumption DEF IInv, TypeOK, Reports
<1>4. draft[r] \in Row /\ draft'[r] = [draft[r] EXCEPT !.stored = TRUE]
      /\ \A u \in Requests \ {r} : draft'[u] = draft[u]
  BY <1>1 DEF IInv, TypeOK
<1>5. TypeOK'
  <2>1. draft' \in [Requests -> Row]
    BY <1>1, <1>4 DEF IInv, TypeOK, Row
  <2>2. on' \in [Requests -> 0 .. MaxReports] /\ nextId' \in 1 .. MaxReports + 1
    BY <1>1, <1>3, BoundsAssumption DEF IInv, TypeOK, Reports
  <2> QED BY <1>1, <2>1, <2>2 DEF IInv, TypeOK, server, pool, Phase, Connection, AfterInsert
<1>6. HeldInv'
  BY <1>1 DEF IInv, TypeOK, HeldInv, AfterInsert
<1>7. ConnectionsBounded'
  <2>1. Held' = Held
    BY <1>1, HeldSame DEF IInv, TypeOK, HeldInv
  <2> QED BY <1>1, <2>1 DEF IInv, ConnectionsBounded, Used, pool
<1>8. IdInv'
  BY <1>1, <1>2, PostingFinite, BoundsAssumption DEF IInv, TypeOK, IdInv
<1>9. FormInv'
  <2>1. draft[r].images = 0 /\ draft[r].promised \in 0 .. MaxImages
    BY <1>1, <1>4 DEF IInv, DataInv, FormInv, Row
  <2>2. draft'[r].images = draft[r].images /\ draft'[r].promised = draft[r].promised
    BY <1>4 DEF Row
  <2> QED BY <1>1, <1>4, <2>1, <2>2, BoundsAssumption
          DEF IInv, TypeOK, DataInv, FormInv, Writes, AfterInsert
<1>10. OwnInv'
  <2>1. draft'[r].stored /\ draft'[r].news = 0 /\ ~draft'[r].unread
    BY <1>1, <1>4 DEF IInv, DataInv, FormInv, Row
  <2>2. ~report[nextId].stored /\ nextId \in Int
    BY <1>3 DEF IInv, TypeOK, DataInv, FreshInv
  <2>3. on'[r] = nextId /\ \A u \in Requests \ {r} : on'[u] = on[u] /\ pc'[u] = pc[u]
    BY <1>1 DEF IInv, TypeOK
  <2>4. \A u \in Requests : on[u] \in Int
    BY DEF IInv, TypeOK
  <2> QED BY <1>1, <1>3, <1>4, <2>1, <2>2, <2>3, <2>4 DEF IInv, TypeOK, DataInv, OwnInv
<1>11. FreshInv' /\ ReportsWhole' /\ NewsSeen'
  BY <1>1, BoundsAssumption DEF IInv, TypeOK, DataInv, FreshInv, ReportsWhole, NewsSeen, Reports
<1>12. LockInv' /\ ReplyInv' /\ AnswerTrue'
  BY <1>1, <1>4 DEF IInv, TypeOK, DataInv, LockInv, Locks, ReplyInv, AnswerTrue, Writes,
                    AfterInsert
<1> QED BY <1>5, <1>6, <1>7, <1>8, <1>9, <1>10, <1>11, <1>12 DEF IInv, DataInv

LEMMA InsertImageKeeps ==
  ASSUME IInv, NEW r \in Requests, InsertImage(r)
  PROVE  IInv'
<1>1. UNCHANGED <<server, table, pool, request, conn, dead, answer, newsSent, shown, lost>>
      /\ pc[r] = "images" /\ op[r] = "post"
      /\ pc' = [pc EXCEPT ![r] = IF draft'[r].images = draft[r].promised
                                 THEN "commit" ELSE "images"]
      /\ draft' = [draft EXCEPT ![r].images = @ + 1]
  BY DEF InsertImage, IInv, DataInv, FormInv
<1>2. draft[r] \in Row /\ draft[r].images < draft[r].promised
  BY <1>1 DEF IInv, TypeOK, DataInv, FormInv
<1>3. /\ draft'[r] = [draft[r] EXCEPT !.images = draft[r].images + 1]
      /\ \A u \in Requests \ {r} : draft'[u] = draft[u] /\ pc'[u] = pc[u]
  BY <1>1 DEF IInv, TypeOK
<1>4. /\ draft'[r] \in Row /\ draft'[r].images = draft[r].images + 1
      /\ draft'[r].promised = draft[r].promised /\ draft'[r].stored = draft[r].stored
      /\ draft'[r].news = draft[r].news /\ draft'[r].unread = draft[r].unread
  BY <1>2, <1>3, BoundsAssumption DEF Row
<1>5. TypeOK'
  <2>1. draft' \in [Requests -> Row]
    BY <1>1, <1>4 DEF IInv, TypeOK
  <2> QED BY <1>1, <2>1 DEF IInv, TypeOK, server, table, pool, request, Phase
<1>6. HeldInv'
  BY <1>1 DEF IInv, TypeOK, HeldInv
<1>7. ConnectionsBounded'
  <2>1. Held' = Held
    BY <1>1 DEF Held
  <2> QED BY <1>1, <2>1 DEF IInv, ConnectionsBounded, Used, pool
<1>8. IdInv'
  <2>1. Posting' \subseteq Posting /\ nextId' = nextId
    BY <1>1 DEF IInv, TypeOK, Posting, request, table
  <2> QED BY <2>1, FewerPosting, PostingFinite, BoundsAssumption DEF IInv, TypeOK, IdInv
<1>9. FormInv'
  <2>1. draft'[r].images < draft'[r].promised \/ draft'[r].images = draft'[r].promised
    BY <1>2, <1>4, BoundsAssumption DEF Row
  <2> QED BY <1>1, <1>3, <1>4, <2>1 DEF IInv, TypeOK, DataInv, FormInv, request, Writes
<1>10. OwnInv'
  BY <1>1, <1>3, <1>4 DEF IInv, TypeOK, DataInv, OwnInv, request, table
<1>11. FreshInv' /\ ReportsWhole' /\ NewsSeen'
  BY <1>1 DEF IInv, DataInv, FreshInv, ReportsWhole, NewsSeen, table
<1>12. LockInv' /\ ReplyInv' /\ AnswerTrue'
  BY <1>1, <1>3 DEF IInv, TypeOK, DataInv, LockInv, Locks, ReplyInv, AnswerTrue, Writes,
                    request, table
<1> QED BY <1>5, <1>6, <1>7, <1>8, <1>9, <1>10, <1>11, <1>12 DEF IInv, DataInv

LEMMA TouchKeeps ==
  ASSUME IInv, NEW r \in Requests, Touch(r)
  PROVE  IInv'
<1> DEFINE was == report[on[r]]
           now == IF ~was.stored THEN NoRow
                  ELSE IF op[r] = "read" THEN [was EXCEPT !.unread = FALSE]
                  ELSE [was EXCEPT !.unread = TRUE, !.news = @ + 1]
<1>1. UNCHANGED <<server, table, pool, request, dead, answer, newsSent, shown, lost>>
      /\ pc[r] = "run" /\ op[r] \in {"read", "news"} /\ ~Locked(r)
      /\ pc' = [pc EXCEPT ![r] = "commit"]
      /\ conn' = [conn EXCEPT ![r] = "tx"]
      /\ draft' = [draft EXCEPT ![r] = now]
  BY DEF Touch, Works, Writes
<1>2. on[r] \in Reports /\ was \in Row
  BY <1>1 DEF IInv, TypeOK, DataInv, FormInv, Writes
<1>3. /\ now \in Row /\ now.stored = was.stored
      /\ (now.stored /\ op[r] = "read") => now.news = was.news /\ ~now.unread
      /\ (now.stored /\ op[r] = "news") => now.news = was.news + 1 /\ now.unread
  <2>1. CASE ~was.stored
    BY <1>2, <2>1, NoRowIsRow DEF NoRow, Row
  <2>2. CASE was.stored /\ op[r] = "read"
    BY <1>2, <2>2, ReadRow DEF Row
  <2>3. CASE was.stored /\ op[r] = "news"
    BY <1>2, <2>3, NewsRow DEF Row
  <2> QED BY <1>1, <1>2, <2>1, <2>2, <2>3 DEF Row
<1>4. draft'[r] = now /\ \A u \in Requests \ {r} : draft'[u] = draft[u] /\ pc'[u] = pc[u]
  BY <1>1 DEF IInv, TypeOK
<1> HIDE DEF now
<1>5. TypeOK'
  <2>1. draft' \in [Requests -> Row]
    BY <1>1, <1>3 DEF IInv, TypeOK
  <2> QED BY <1>1, <2>1 DEF IInv, TypeOK, server, table, pool, request, Phase, Connection
<1>6. HeldInv'
  BY <1>1 DEF IInv, TypeOK, HeldInv
<1>7. ConnectionsBounded'
  <2>1. Held' = Held
    BY <1>1, HeldSame DEF IInv, TypeOK, HeldInv
  <2> QED BY <1>1, <2>1 DEF IInv, ConnectionsBounded, Used, pool
<1>8. IdInv'
  <2>1. Posting' \subseteq Posting /\ nextId' = nextId
    BY <1>1 DEF IInv, TypeOK, Posting, request, table
  <2> QED BY <2>1, FewerPosting, PostingFinite, BoundsAssumption DEF IInv, TypeOK, IdInv
<1>9. FormInv' /\ OwnInv'
  BY <1>1, <1>4 DEF IInv, TypeOK, DataInv, FormInv, OwnInv, request, table
<1>10. FreshInv' /\ ReportsWhole' /\ NewsSeen'
  BY <1>1 DEF IInv, DataInv, FreshInv, ReportsWhole, NewsSeen, table
<1>11. LockInv'
  <2>1. ASSUME draft'[r].stored
        PROVE  /\ was.stored
               /\ op[r] = "read" => draft'[r].news = was.news /\ ~draft'[r].unread
               /\ op[r] = "news" => draft'[r].news = was.news + 1 /\ draft'[r].unread
    BY <1>3, <1>4, <2>1
  <2>2. \A u \in Requests \ {r} : Locks(u)' <=> Locks(u)
    BY <1>1, <1>4 DEF Locks, request, Writes
  <2>3. \A u \in Requests \ {r} : Locks(u) => on[u] # on[r]
    BY <1>1 DEF Locked, Locks
  <2>4. UNCHANGED <<report, op, on>>
    BY <1>1 DEF request, table
  <2> QED BY <1>4, <2>1, <2>2, <2>3, <2>4 DEF IInv, DataInv, LockInv
<1>12. ReplyInv' /\ AnswerTrue'
  BY <1>1, <1>4 DEF IInv, TypeOK, DataInv, ReplyInv, AnswerTrue, request, table
<1> QED BY <1>5, <1>6, <1>7, <1>8, <1>9, <1>10, <1>11, <1>12 DEF IInv, DataInv

\* A commit, told or not.
LEMMA CommitKeeps ==
  ASSUME IInv, NEW r \in Requests, Commit(r) \/ CommitLost(r)
  PROVE  IInv'
<1> DEFINE was == report[on[r]]
           row == Written(r)
<1>1. /\ UNCHANGED <<migrated, up, nextId, pool, request, dead, draft, newsSent>>
      /\ Committed(r) /\ pc[r] = "commit" /\ ~dead[r]
      /\ pc' = [pc EXCEPT ![r] = "put"]
      /\ \E c \in {"ready", "closed"} : conn' = [conn EXCEPT ![r] = c]
      /\ faults' \in 0 .. MaxFaults
  <2>1. CASE Commit(r)
    BY <2>1 DEF Commit, Committed, EndWith, IInv, TypeOK, server
  <2>2. CASE CommitLost(r)
    <3>1. faults' \in 0 .. MaxFaults
      BY <2>2, BoundsAssumption DEF CommitLost, IInv, TypeOK
    <3> QED BY <2>2, <3>1 DEF CommitLost, Committed, EndWith
  <2> QED BY <2>1, <2>2
<1>2. /\ \/ Commit(r) /\ lost' = lost
            /\ answer' = [answer EXCEPT ![r] = IF draft[r].stored THEN "ok" ELSE "missing"]
         \/ lost' = [lost EXCEPT ![r] = TRUE] /\ answer' = [answer EXCEPT ![r] = "down"]
  BY DEF Commit, CommitLost, EndWith
<1>3. on[r] \in Reports /\ was \in Row /\ draft[r] \in Row /\ op[r] \in {"post", "read", "news"}
  BY <1>1 DEF IInv, TypeOK, DataInv, FormInv, OwnInv, Writes, Route
<1>4. CASE ~draft[r].stored
  <2>1. UNCHANGED <<report, shown>> /\ op[r] # "post"
    BY <1>1, <1>4 DEF Committed, IInv, DataInv, OwnInv
  <2>2. TypeOK'
    <3>1. pc' \in [Requests -> Phase] /\ conn' \in [Requests -> Connection]
      BY <1>1 DEF IInv, TypeOK, Phase, Connection
    <3>2. answer' \in [Requests -> Answer] /\ lost' \in [Requests -> BOOLEAN]
      BY <1>1, <1>2 DEF IInv, TypeOK, Answer
    <3> QED BY <1>1, <2>1, <3>1, <3>2 DEF IInv, TypeOK, pool, request
  <2>3. HeldInv'
    BY <1>1 DEF IInv, TypeOK, HeldInv
  <2>4. ConnectionsBounded'
    <3>1. Held' = Held
      BY <1>1, HeldSame DEF IInv, TypeOK, HeldInv
    <3> QED BY <1>1, <3>1 DEF IInv, ConnectionsBounded, Used, pool
  <2>5. IdInv'
    <3>1. Posting' \subseteq Posting /\ nextId' = nextId
      BY <1>1 DEF IInv, TypeOK, Posting, request
    <3> QED BY <3>1, FewerPosting, PostingFinite, BoundsAssumption DEF IInv, TypeOK, IdInv
  <2>6. FormInv' /\ OwnInv' /\ FreshInv' /\ LockInv'
    BY <1>1, <2>1 DEF IInv, TypeOK, DataInv, FormInv, OwnInv, FreshInv, LockInv, Locks, request
  <2>7. ReplyInv' /\ ReportsWhole' /\ NewsSeen' /\ AnswerTrue'
    BY <1>1, <1>2, <1>4, <2>1 DEF IInv, TypeOK, DataInv, ReplyInv, ReportsWhole, NewsSeen,
                                   AnswerTrue, request
  <2> QED BY <2>2, <2>3, <2>4, <2>5, <2>6, <2>7 DEF IInv, DataInv
<1>5. CASE draft[r].stored
  <2>1. /\ report' = [report EXCEPT ![on[r]] = row]
        /\ shown' = IF op[r] = "read" THEN [shown EXCEPT ![on[r]] = draft[r].news] ELSE shown
    BY <1>1, <1>5 DEF Committed
  <2>2. /\ row \in Row /\ row.stored /\ row.images = row.promised
        /\ op[r] = "post" => row = draft[r] /\ ~was.stored /\ row.news = 0 /\ shown[on[r]] = 0
        /\ op[r] # "post" => was.stored
        /\ op[r] = "read" => row.news = was.news /\ draft[r].news = was.news
        /\ op[r] = "news" => row.news = was.news + 1 /\ draft[r].news = row.news /\ row.unread
    <3>1. CASE op[r] = "post"
      BY <1>1, <1>3, <3>1 DEF IInv, DataInv, FormInv, OwnInv, FreshInv, Written
    <3>2. CASE op[r] # "post"
      <4>1. Locks(r)
        BY <1>1, <1>3, <3>2 DEF Locks, Writes
      <4>2. was.stored /\ was.images = was.promised
        BY <1>3, <1>5, <4>1 DEF IInv, DataInv, LockInv, ReportsWhole
      <4>3. CASE op[r] = "read"
        <5>1. draft[r].news = was.news
          BY <1>5, <4>1, <4>3 DEF IInv, DataInv, LockInv
        <5>2. row = [was EXCEPT !.unread = draft[r].unread, !.news = was.news]
          BY <1>3, <4>3 DEF Written, Row
        <5> QED BY <1>3, <4>2, <4>3, <5>1, <5>2 DEF Row
      <4>4. CASE op[r] = "news"
        <5>1. draft[r].news = was.news + 1 /\ draft[r].unread
          BY <1>5, <4>1, <4>4 DEF IInv, DataInv, LockInv
        <5>2. row = [was EXCEPT !.unread = draft[r].unread, !.news = draft[r].news]
          BY <1>3, <4>4 DEF Written, Row
        <5> QED BY <1>3, <4>2, <4>4, <5>1, <5>2 DEF Row
      <4> QED BY <1>3, <3>2, <4>3, <4>4
    <3> QED BY <3>1, <3>2
  <2>3. /\ report'[on[r]] = row
        /\ \A i \in Reports \ {on[r]} : report'[i] = report[i] /\ shown'[i] = shown[i]
    BY <2>1, <1>3 DEF IInv, TypeOK
  <2>4. \A u \in Requests \ {r} : pc'[u] = pc[u] /\ lost'[u] = lost[u] /\ answer'[u] = answer[u]
    BY <1>1, <1>2 DEF IInv, TypeOK
  <2> HIDE DEF row
  <2>5. TypeOK'
    <3>1. report' \in [Reports -> Row]
      BY <2>1, <2>2 DEF IInv, TypeOK
    <3>2. shown' \in [Reports -> Nat]
      BY <1>3, <2>1 DEF IInv, TypeOK, Row
    <3>3. pc' \in [Requests -> Phase] /\ conn' \in [Requests -> Connection]
      BY <1>1 DEF IInv, TypeOK, Phase, Connection
    <3>4. answer' \in [Requests -> Answer] /\ lost' \in [Requests -> BOOLEAN]
      BY <1>1, <1>2 DEF IInv, TypeOK, Answer
    <3> QED BY <1>1, <3>1, <3>2, <3>3, <3>4 DEF IInv, TypeOK, pool, request
  <2>6. HeldInv'
    BY <1>1 DEF IInv, TypeOK, HeldInv
  <2>7. ConnectionsBounded'
    <3>1. Held' = Held
      BY <1>1, HeldSame DEF IInv, TypeOK, HeldInv
    <3> QED BY <1>1, <3>1 DEF IInv, ConnectionsBounded, Used, pool
  <2>8. IdInv'
    <3>1. Posting' \subseteq Posting /\ nextId' = nextId
      BY <1>1 DEF IInv, TypeOK, Posting, request
    <3> QED BY <3>1, FewerPosting, PostingFinite, BoundsAssumption DEF IInv, TypeOK, IdInv
  <2>9. FormInv'
    BY <1>1, <2>4 DEF IInv, TypeOK, DataInv, FormInv, request
  \* Nobody else has the id of a submit, and nobody else has the row of a move.
  <2>10. OwnInv'
    <3>1. ASSUME NEW u \in Requests \ {r}, pc[u] \in {"images", "commit"}, op[u] = "post"
          PROVE  on[u] # on[r] /\ on[u] \in Reports
      BY <1>1, <1>3, <2>2, <3>1 DEF IInv, DataInv, OwnInv, Reports
    <3>2. ASSUME NEW u \in Requests \ {r}, pc[u] \in {"images", "commit"}, op[u] = "post"
          PROVE  report'[on[u]] = report[on[u]]
      BY <3>1, <3>2, <2>3
    <3> QED BY <1>1, <2>4, <3>2 DEF IInv, TypeOK, DataInv, OwnInv, request
  <2>11. FreshInv'
    <3>1. on[r] < nextId
      <4>1. CASE op[r] = "post"
        BY <1>1, <4>1 DEF IInv, DataInv, OwnInv
      <4>2. CASE op[r] # "post"
        BY <1>3, <2>2, <4>2 DEF IInv, TypeOK, DataInv, FreshInv, Reports
      <4> QED BY <4>1, <4>2
    <3>2. on[r] \in Int /\ nextId \in Int /\ nextId' = nextId
      BY <1>1 DEF IInv, TypeOK
    <3>3. ~(on[r] >= nextId)
      BY <3>1, <3>2
    <3> QED BY <2>2, <2>3, <3>2, <3>3 DEF IInv, DataInv, FreshInv
  <2>12. LockInv'
    <3>1. \A u \in Requests : Locks(u)' => u # r /\ Locks(u)
      BY <1>1, <2>4 DEF IInv, TypeOK, Locks, request
    <3>2. ASSUME NEW u \in Requests \ {r}, Locks(u), draft[u].stored
          PROVE  report'[on[u]] = report[on[u]]
      <4>1. on[u] # on[r]
        <5>1. CASE op[r] = "post"
          BY <2>2, <3>2, <5>1 DEF IInv, DataInv, LockInv
        <5>2. CASE op[r] # "post"
          BY <1>1, <1>3, <3>2, <5>2 DEF IInv, DataInv, LockInv, Locks, Writes
        <5> QED BY <5>1, <5>2
      <4>2. on[u] \in Reports
        BY <3>2 DEF IInv, DataInv, FormInv, Locks
      <4> QED BY <4>1, <4>2, <2>3
    <3>3. UNCHANGED <<op, on, draft>>
      BY <1>1 DEF request
    <3> QED BY <3>1, <3>2, <3>3 DEF IInv, DataInv, LockInv
  <2>13. \A i \in Reports : report[i].stored =>
             report'[i].stored /\ report'[i].news >= report[i].news
    BY <1>3, <2>2, <2>3 DEF IInv, TypeOK, Row
  <2>14. ReplyInv'
    <3>1. on' = on /\ op' = op
      BY <1>1 DEF request
    <3>2. ASSUME NEW u \in Requests \ {r}, pc[u] = "put", op[u] = "news", answer[u] = "ok"
          PROVE  report'[on[u]].stored
      BY <2>13, <3>2 DEF IInv, DataInv, ReplyInv, FormInv, Writes
    <3> QED BY <2>2, <2>3, <2>4, <3>1, <3>2 DEF ReplyInv
  <2>15. ReportsWhole' /\ NewsSeen'
    <3>1. ReportsWhole'
      BY <2>2, <2>3 DEF IInv, DataInv, ReportsWhole
    <3>2. (report'[on[r]].stored /\ ~report'[on[r]].unread)
              => shown'[on[r]] = report'[on[r]].news
      <4>1. CASE op[r] = "post"
        BY <1>3, <2>1, <2>2, <2>3, <4>1 DEF IInv, TypeOK
      <4>2. CASE op[r] = "read"
        BY <1>3, <2>1, <2>2, <2>3, <4>2 DEF IInv, TypeOK
      <4>3. CASE op[r] = "news"
        BY <2>2, <2>3, <4>3
      <4> QED BY <1>3, <4>1, <4>2, <4>3
    <3> QED BY <2>3, <3>1, <3>2 DEF IInv, DataInv, NewsSeen
  <2>16. AnswerTrue'
    <3>1. UNCHANGED <<op, on, draft>>
      BY <1>1 DEF request
    <3>2. op[r] = "post" => lost'[r] \/ (answer'[r] = "ok") = (on[r] # 0 /\ report'[on[r]].stored)
      BY <1>2, <1>3, <1>5, <2>2, <2>3 DEF IInv, TypeOK, Reports
    <3>3. (op[r] = "news" /\ answer'[r] = "ok")
              => draft[r].news >= 1 /\ report'[on[r]].news >= draft[r].news
      BY <1>3, <2>2, <2>3 DEF Row
    <3>4. ASSUME NEW u \in Requests \ {r}, pc[u] = "put", op[u] = "post"
          PROVE  lost[u] \/ (answer[u] = "ok") = (on[u] # 0 /\ report'[on[u]].stored)
      <4>1. CASE on[u] = 0
        BY <3>4, <4>1 DEF IInv, DataInv, AnswerTrue
      <4>2. CASE on[u] # 0
        <5>1. on[u] \in Reports
          BY <4>2 DEF IInv, TypeOK, Reports
        <5>2. report'[on[u]].stored = report[on[u]].stored
          <6>1. CASE op[r] = "post"
            <7>1. on[u] # on[r]
              BY <1>1, <3>4, <4>2, <6>1 DEF IInv, DataInv, OwnInv
            <7> QED BY <5>1, <7>1, <2>3
          <6>2. CASE op[r] # "post"
            <7>1. row.stored = was.stored
              BY <1>3, <2>2, <6>2 DEF Row
            <7> QED BY <5>1, <7>1, <2>3
          <6> QED BY <6>1, <6>2
        <5> QED BY <3>4, <5>2 DEF IInv, DataInv, AnswerTrue
      <4> QED BY <4>1, <4>2
    <3>5. ASSUME NEW u \in Requests \ {r}, pc[u] = "put", op[u] = "news", answer[u] = "ok"
          PROVE  draft[u].news >= 1 /\ report'[on[u]].news >= draft[u].news
      <4>1. on[u] \in Reports /\ report[on[u]].stored
        BY <3>5 DEF IInv, DataInv, FormInv, ReplyInv, Writes
      <4>2. draft[u].news >= 1 /\ report[on[u]].news >= draft[u].news
        BY <3>5 DEF IInv, DataInv, AnswerTrue
      <4>3. report'[on[u]].news >= report[on[u]].news
        BY <4>1, <2>13
      <4>4. report'[on[u]].news \in Int /\ report[on[u]].news \in Int /\ draft[u].news \in Int
        BY <4>1, <2>5 DEF IInv, TypeOK, Row
      <4> QED BY <4>2, <4>3, <4>4
    <3> QED BY <2>4, <3>1, <3>2, <3>3, <3>4, <3>5 DEF AnswerTrue
  <2> QED BY <2>5, <2>6, <2>7, <2>8, <2>9, <2>10, <2>11, <2>12, <2>14, <2>15, <2>16
          DEF IInv, DataInv
<1> QED BY <1>4, <1>5

-----------------------------------------------------------------------------
\* Giving the connection back.

Given(r, a) ==
    /\ pc[r] = "put" /\ conn[r] # "none"
    /\ pc' = [pc EXCEPT ![r] = "idle"]
    /\ answer' = [answer EXCEPT ![r] = a]
    /\ conn' = [conn EXCEPT ![r] = "none"]
    /\ dead' = [dead EXCEPT ![r] = FALSE]
    /\ UNCHANGED <<server, table, request, draft, newsSent, shown, lost>>
    /\ \/ UNCHANGED <<idle, leaked>>
       \/ idle = "none" /\ idle' \in {"live", "dead"} /\ UNCHANGED leaked
       \/ leaked' = leaked + 1 /\ UNCHANGED idle

LEMMA GivenKeeps ==
  ASSUME IInv, NEW r \in Requests, NEW a \in Answer, Given(r, a)
  PROVE  IInv'
<1>1. UNCHANGED <<server, table, request, draft, newsSent, shown, lost>>
      /\ pc' = [pc EXCEPT ![r] = "idle"] /\ answer' = [answer EXCEPT ![r] = a]
      /\ conn' = [conn EXCEPT ![r] = "none"] /\ dead' = [dead EXCEPT ![r] = FALSE]
      /\ pc[r] = "put" /\ conn[r] # "none"
  BY DEF Given
<1>2. Cardinality(Held') = Cardinality(Held) - 1 /\ Cardinality(Held) \in Nat
      /\ Cardinality(Held') \in Nat
  <2>1. Held' \in SUBSET Requests
    BY DEF Held
  <2>2. Cardinality(Held') \in Nat
    BY <2>1, RequestsAssumption, FS_Subset, FS_CardinalityType
  <2> QED BY <1>1, <2>2, HeldLess, HeldFinite DEF IInv, TypeOK
<1>3. ConnectionsBounded' /\ leaked' \in 0 .. MaxConn /\ idle' \in {"none", "live", "dead"}
  <2>1. CASE UNCHANGED <<idle, leaked>>
    BY <1>2, <2>1, BoundsAssumption DEF IInv, TypeOK, ConnectionsBounded, Used
  <2>2. CASE idle = "none" /\ idle' \in {"live", "dead"} /\ UNCHANGED leaked
    BY <1>2, <2>2, BoundsAssumption DEF IInv, TypeOK, ConnectionsBounded, Used
  <2>3. CASE leaked' = leaked + 1 /\ UNCHANGED idle
    BY <1>2, <2>3, BoundsAssumption DEF IInv, TypeOK, ConnectionsBounded, Used
  <2> QED BY <2>1, <2>2, <2>3 DEF Given
<1>4. TypeOK'
  BY <1>1, <1>3 DEF IInv, TypeOK, server, table, request, Phase, Connection
<1>5. HeldInv'
  BY <1>1 DEF IInv, TypeOK, HeldInv
<1>6. IdInv'
  <2>1. Posting' \subseteq Posting /\ nextId' = nextId
    BY <1>1 DEF IInv, TypeOK, Posting, request, table
  <2> QED BY <2>1, FewerPosting, PostingFinite, BoundsAssumption DEF IInv, TypeOK, IdInv
<1>7. DataInv'
  BY <1>1 DEF IInv, TypeOK, DataInv, FormInv, OwnInv, FreshInv, LockInv, Locks, ReplyInv,
              ReportsWhole, NewsSeen, AnswerTrue, request, table
<1> QED BY <1>3, <1>4, <1>5, <1>6, <1>7 DEF IInv

LEMMA PutKeeps ==
  ASSUME IInv, NEW r \in Requests, PutBack(r) \/ Discard(r) \/ RollbackRaises(r)
  PROVE  IInv'
<1>1. pc[r] = "put" => conn[r] # "none"
  BY DEF IInv, HeldInv
<1>2. answer[r] \in Answer /\ answer = [answer EXCEPT ![r] = answer[r]]
  BY DEF IInv, TypeOK
<1>3. CASE PutBack(r)
  <2>1. Given(r, answer[r])
    BY <1>1, <1>2, <1>3 DEF PutBack, Given
  <2> QED BY <1>2, <2>1, GivenKeeps
<1>4. CASE Discard(r)
  <2>1. Given(r, answer[r])
    BY <1>1, <1>2, <1>4 DEF Discard, Given, pool
  <2> QED BY <1>2, <2>1, GivenKeeps
<1>5. CASE RollbackRaises(r)
  <2>1. Given(r, "down")
    BY <1>1, <1>5 DEF RollbackRaises, Given
  <2> QED BY <2>1, GivenKeeps DEF Answer
<1> QED BY <1>3, <1>4, <1>5

-----------------------------------------------------------------------------
LEMMA StepKeeps == IInv /\ [Next]_vars => IInv'
<1> SUFFICES ASSUME IInv, [Next]_vars PROVE IInv'
  OBVIOUS
<1>1. CASE UNCHANGED vars
  <2>1. Held' = Held /\ Posting' = Posting
    BY <1>1 DEF vars, request, Held, Posting
  <2>2. TypeOK' /\ HeldInv' /\ ConnectionsBounded' /\ IdInv'
    BY <1>1, <2>1 DEF vars, server, table, pool, request, IInv, TypeOK, HeldInv,
                       ConnectionsBounded, Used, IdInv
  <2>3. DataInv'
    BY <1>1 DEF vars, server, table, request, IInv, DataInv, FormInv, OwnInv, FreshInv,
                LockInv, Locks, ReplyInv, ReportsWhole, NewsSeen, AnswerTrue
  <2> QED BY <2>2, <2>3 DEF IInv
<1>2. CASE EnsureSchema \/ ServerStarts
  BY <1>2, ServerKeeps
<1>3. CASE ServerStops
  BY <1>3, ServerStopsKeeps
<1>4. CASE Restart
  BY <1>4, RestartKeeps
<1>5. ASSUME NEW r \in Requests, NEW o \in Route, NEW i \in Reports, NEW n \in 0 .. MaxImages,
             Begin(r, o, i, n)
      PROVE  IInv'
  BY <1>5, BeginKeeps
<1>6. ASSUME NEW r \in Requests, Step(r) \/ Invalid(r) \/ StatementFails(r) \/ CommitLost(r)
      PROVE  IInv'
  <2>1. CASE GetConn(r) \/ NoConn(r)
    BY <2>1, GetConnKeeps, NoConnKeeps
  <2>2. CASE Invalid(r) \/ Breaks(r) \/ Unmigrated(r) \/ Select(r) \/ StatementFails(r)
    BY <2>2, AllEndedKeeps
  <2>3. CASE Insert(r) \/ InsertImage(r) \/ Touch(r)
    BY <2>3, InsertKeeps, InsertImageKeeps, TouchKeeps
  <2>4. CASE Commit(r) \/ CommitLost(r)
    BY <2>4, CommitKeeps
  <2>5. CASE PutBack(r) \/ Discard(r) \/ RollbackRaises(r)
    BY <2>5, PutKeeps
  <2> QED BY <1>6, <2>1, <2>2, <2>3, <2>4, <2>5 DEF Step
<1> QED BY <1>1, <1>2, <1>3, <1>4, <1>5, <1>6 DEF Next

LEMMA Invariant == Spec => []IInv
  BY InitHolds, StepKeeps, PTL DEF Spec

\* The pool, the transactions and the reports keep their types.
THEOREM TypeCorrect == Spec => []TypeOK
<1>1. IInv => TypeOK
  BY DEF IInv
<1> QED BY <1>1, Invariant, PTL

\* However slots are taken, kept and lost, there are never more than maxconn
\* connections.
THEOREM PoolBounded == Spec => []ConnectionsBounded
<1>1. IInv => ConnectionsBounded
  BY DEF IInv
<1> QED BY <1>1, Invariant, PTL

\* A report anyone can read has every image it was sent with, whenever the
\* server goes away.
THEOREM WholeReports == Spec => []ReportsWhole
<1>1. IInv => ReportsWhole
  BY DEF IInv, DataInv
<1> QED BY <1>1, Invariant, PTL

\* The dot is off only if the newest news was in an answer of mark_read.
THEOREM NoNewsHidden == Spec => []NewsSeen
<1>1. IInv => NewsSeen
  BY DEF IInv, DataInv
<1> QED BY <1>1, Invariant, PTL

\* Answers are true of what is stored, but for a commit whose answer is lost.
THEOREM TrueAnswers == Spec => []AnswerTrue
<1>1. IInv => AnswerTrue
  BY DEF IInv, DataInv
<1> QED BY <1>1, Invariant, PTL

=============================================================================
