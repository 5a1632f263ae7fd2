------------------------- MODULE ConfigWritesProofs -------------------------
(***************************************************************************)
(* The settings row under any number of overlapping requests, any fields   *)
(* and any values: what a request read is what the row holds unless the    *)
(* request is marked stale, and what it wrote is still there likewise.     *)
(* Then the page put together of the row meanwhile, for any number of      *)
(* writers, ids and names.                                                 *)
(***************************************************************************)
EXTENDS StatusPage, TLAPS

\* A request carries fields of its own route only.
SentInv == \A r \in Requests :
    /\ pc[r] \in {"read", "write", "reread"} => sent[r] \subseteq IbFields
    /\ pc[r] = "active" => sent[r] \subseteq ActiveFields

\* What was read still stands, and what was written.
ReadInv == \A r \in Requests : (pc[r] = "write" /\ ~stale[r]) => current[r] = Row
WrittenInv == \A r \in Requests :
    (pc[r] = "reread" /\ ~stale[r]) => \A f \in sent[r] : settings[f] = body[r][f]

AnswerInv == \A r \in Requests : (pc[r] = "answered" /\ ~stale[r]) =>
    \A f \in sent[r] \cap IbFields : answer[r][f] = body[r][f]

IInv == TypeOK /\ SentInv /\ ReadInv /\ WrittenInv /\ AnswerInv

LEMMA InitHolds == Init => IInv
  BY DEF Init, IInv, TypeOK, SentInv, ReadInv, WrittenInv, AnswerInv, NoRow, Fields, Setting

LEMMA ArriveKeeps ==
  ASSUME IInv, NEW r \in Requests, NEW fields \in {IbFields, ActiveFields}, Arrive(r, fields)
  PROVE  IInv'
<1>1. PICK s \in SUBSET fields : sent' = [sent EXCEPT ![r] = s]
  BY DEF Arrive
<1>2. sent'[r] = s
  BY <1>1 DEF IInv, TypeOK
<1>3. PICK b \in [sent'[r] -> Setting] :
        body' = [body EXCEPT ![r] = [f \in Fields |-> IF f \in sent'[r] THEN b[f] ELSE Cleared]]
  BY DEF Arrive
<1>4. TypeOK'
  <2>1. sent' \in [Requests -> SUBSET Fields]
    BY <1>1 DEF IInv, TypeOK, Fields
  <2>2. [f \in Fields |-> IF f \in sent'[r] THEN b[f] ELSE Cleared] \in [Fields -> Setting]
    BY DEF Setting
  <2>3. body' \in [Requests -> [Fields -> Setting]]
    BY <1>3, <2>2 DEF IInv, TypeOK
  <2> QED BY <2>1, <2>3 DEF IInv, TypeOK, Arrive
<1>5. pc[r] = "idle" /\ pc' = [pc EXCEPT ![r] = IF fields = IbFields THEN "read" ELSE "active"]
      /\ UNCHANGED <<settings, current, answer, stale>>
  BY DEF Arrive
<1>6. SentInv'
  BY <1>1, <1>5 DEF IInv, TypeOK, SentInv
<1>7. ReadInv'
  BY <1>5 DEF IInv, TypeOK, ReadInv, Row
<1>8. WrittenInv' /\ AnswerInv'
  BY <1>1, <1>3, <1>5 DEF IInv, TypeOK, WrittenInv, AnswerInv
<1> QED BY <1>4, <1>6, <1>7, <1>8 DEF IInv

LEMMA ReadKeeps ==
  ASSUME IInv, NEW r \in Requests, Read(r)
  PROVE  IInv'
<1>1. Row \in [IbFields -> Setting] /\ NoRow \in [IbFields -> Setting]
  BY DEF IInv, TypeOK, Row, NoRow, Fields, Setting
<1>2. TypeOK'
  BY ZenonT(40), <1>1 DEF IInv, TypeOK, Read
<1>3. SentInv'
  BY DEF IInv, TypeOK, SentInv, Read
<1>4. Row' = Row /\ pc' = [pc EXCEPT ![r] = "write"]
  BY DEF Read, Row
<1>5. CASE current' = [current EXCEPT ![r] = Row] /\ stale' = [stale EXCEPT ![r] = FALSE]
  <2>1. ReadInv'
    BY <1>4, <1>5 DEF IInv, TypeOK, ReadInv
  <2>2. WrittenInv' /\ AnswerInv'
    BY <1>4, <1>5 DEF IInv, TypeOK, WrittenInv, AnswerInv, Read
  <2> QED BY <1>2, <1>3, <2>1, <2>2 DEF IInv
<1>6. CASE current' = [current EXCEPT ![r] = NoRow] /\ stale' = [stale EXCEPT ![r] = TRUE]
  <2>1. ReadInv'
    BY <1>4, <1>6 DEF IInv, TypeOK, ReadInv
  <2>2. WrittenInv' /\ AnswerInv'
    BY <1>4, <1>6 DEF IInv, TypeOK, WrittenInv, AnswerInv, Read
  <2> QED BY <1>2, <1>3, <2>1, <2>2 DEF IInv
<1> QED BY <1>5, <1>6 DEF Read

LEMMA WriteIbKeeps ==
  ASSUME IInv, NEW r \in Requests, WriteIb(r)
  PROVE  IInv'
<1>1. \A f \in IbFields : Filled(r, f) \in Setting
  BY DEF IInv, TypeOK, Filled, Fields
<1>2. TypeOK'
  BY <1>1 DEF IInv, TypeOK, WriteIb
<1>3. \A q \in Requests \ {r} : stale'[q]
  BY DEF WriteIb
<1>4. pc'[r] = "reread" /\ \A q \in Requests \ {r} : pc'[q] = pc[q]
  BY DEF IInv, TypeOK, WriteIb
<1>5. SentInv'
  BY <1>4 DEF IInv, TypeOK, SentInv, WriteIb
<1>6. ReadInv'
  BY <1>3, <1>4 DEF ReadInv
<1>7. WrittenInv'
  <2>1. \A f \in sent[r] : settings'[f] = body[r][f]
    BY DEF IInv, SentInv, WriteIb, Filled, Fields
  <2> QED BY <1>3, <2>1 DEF WrittenInv, WriteIb
<1>8. AnswerInv'
  BY <1>3, <1>4 DEF AnswerInv
<1> QED BY <1>2, <1>5, <1>6, <1>7, <1>8 DEF IInv

LEMMA RereadKeeps ==
  ASSUME IInv, NEW r \in Requests, Reread(r)
  PROVE  IInv'
<1>1. Row \in [IbFields -> Setting] /\ NoRow \in [IbFields -> Setting]
  BY DEF IInv, TypeOK, Row, NoRow, Fields, Setting
<1>2. TypeOK'
  BY ZenonT(40), <1>1 DEF IInv, TypeOK, Reread
<1>3. SentInv' /\ ReadInv' /\ WrittenInv'
  BY DEF IInv, TypeOK, SentInv, ReadInv, WrittenInv, Reread, Row
<1>4. AnswerInv'
  BY DEF IInv, TypeOK, WrittenInv, AnswerInv, Reread, Row
<1> QED BY <1>2, <1>3, <1>4 DEF IInv

LEMMA WriteActiveKeeps ==
  ASSUME IInv, NEW r \in Requests, WriteActive(r)
  PROVE  IInv'
<1>1. sent[r] \subseteq ActiveFields /\ pc[r] = "active"
  BY DEF IInv, SentInv, WriteActive
<1>2. \A f \in IbFields : settings'[f] = settings[f]
  BY <1>1, FieldsAssumption DEF WriteActive, Fields
<1>3. TypeOK'
  BY DEF IInv, TypeOK, WriteActive
<1>4. Row' = Row
  BY <1>2 DEF Row
<1>5. SentInv' /\ ReadInv'
  BY <1>1, <1>4 DEF IInv, TypeOK, SentInv, ReadInv, WriteActive
<1>6. WrittenInv'
  BY <1>1, <1>2 DEF IInv, TypeOK, SentInv, WrittenInv, WriteActive
<1>7. AnswerInv'
  BY <1>1, FieldsAssumption DEF IInv, TypeOK, AnswerInv, WriteActive
<1> QED BY <1>3, <1>5, <1>6, <1>7 DEF IInv

LEMMA DoneKeeps ==
  ASSUME IInv, NEW r \in Requests, Done(r)
  PROVE  IInv'
<1>1. TypeOK'
  BY DEF IInv, TypeOK, Done, NoRow, Setting
<1>2. SentInv' /\ ReadInv' /\ WrittenInv' /\ AnswerInv'
  BY ZenonT(40) DEF IInv, TypeOK, SentInv, ReadInv, WrittenInv, AnswerInv, Done, Row
<1> QED BY <1>1, <1>2 DEF IInv

LEMMA StepKeeps == IInv /\ [Next]_vars => IInv'
<1> SUFFICES ASSUME IInv, [Next]_vars PROVE IInv'
  OBVIOUS
<1>1. CASE UNCHANGED vars
  BY <1>1 DEF vars, IInv, TypeOK, SentInv, ReadInv, WrittenInv, AnswerInv, Row
<1>2. CASE Next
  <2> PICK r \in Requests :
        \/ Arrive(r, IbFields) \/ Read(r) \/ WriteIb(r) \/ Reread(r)
        \/ Arrive(r, ActiveFields) \/ WriteActive(r) \/ Done(r)
    BY <1>2 DEF Next
  <2> QED BY ArriveKeeps, ReadKeeps, WriteIbKeeps, RereadKeeps, WriteActiveKeeps, DoneKeeps
<1> QED BY <1>1, <1>2

LEMMA Invariant == Spec => []IInv
  BY InitHolds, StepKeeps, PTL DEF Spec

\* Settings, requests and answers keep their types under any overlap of the
\* two POST routes.
THEOREM TypeCorrect == Spec => []TypeOK
<1>1. IInv => TypeOK
  BY DEF IInv
<1> QED BY <1>1, Invariant, PTL

\* The row the caller of POST /config/ib is shown has what it sent, unless
\* another request wrote in between or the row could not be read again.
THEOREM ShownAsSent == Spec => []AnswerShowsWrite
<1>1. IInv => AnswerShowsWrite
  BY DEF IInv, AnswerInv, AnswerShowsWrite
<1> QED BY <1>1, Invariant, PTL

\* A field omitted from POST /config/ib changes under its write only by
\* overlap or by a failed read.
THEOREM OmittedStays == Spec => OmittedKept
<1>1. ASSUME IInv, [Next]_vars
      PROVE [\A r \in Requests, f \in IbFields :
              (pc[r] = "write" /\ pc'[r] = "reread" /\ f \notin sent[r]
                 /\ settings'[f] # settings[f]) => stale[r]]_vars
  <2> SUFFICES ASSUME NEW r \in Requests, NEW f \in IbFields,
                      pc[r] = "write", pc'[r] = "reread", f \notin sent[r],
                      settings'[f] # settings[f], ~stale[r], Next
               PROVE  FALSE
    BY <1>1 DEF vars
  <2>1. WriteIb(r)
    <3>1. PICK q \in Requests :
            \/ Arrive(q, IbFields) \/ Read(q) \/ WriteIb(q) \/ Reread(q)
            \/ Arrive(q, ActiveFields) \/ WriteActive(q) \/ Done(q)
      BY DEF Next
    <3>2. pc \in [Requests -> {"idle", "read", "write", "reread", "active", "answered"}]
      BY <1>1 DEF IInv, TypeOK
    <3>3. q = r
      BY <3>1, <3>2 DEF Arrive, Read, WriteIb, Reread, WriteActive, Done
    <3> QED BY <3>1, <3>2, <3>3 DEF Arrive, Read, WriteIb, Reread, WriteActive, Done
  <2>2. settings'[f] = current[r][f]
    BY <2>1 DEF WriteIb, Filled, Fields
  <2>3. current[r][f] = settings[f]
    BY <1>1 DEF IInv, ReadInv, Row
  <2> QED BY <2>2, <2>3
<1> QED BY <1>1, Invariant, PTL DEF Spec, OmittedKept

-----------------------------------------------------------------------------
(* The page. *)

PhaseSet == {"idle", "beat", "ids", "names", "socket", "overlay", "shown"}
Part(S) == UNION {[T -> S] : T \in SUBSET ActiveFields}

PageType ==
    /\ name \in [Id -> Names \cup {NoName}] /\ had \in [Id -> SUBSET (Names \cup {NoName})]
    /\ beat \in Connection /\ gateway \in Connection /\ phase \in PhaseSet
    /\ shown \in [beat : Connection, self_check : {"blocked", "degraded", "ok"},
                   ids : Part(Setting), names : Part(Names \cup {NoName}), redis : BOOLEAN]

\* What is there now is among what has been there.
NameHad == phase # "idle" => \A i \in Id : name[i] \in had[i]

\* The ids are all read before the names, and the names before the sockets.
ReadInOrder ==
    /\ phase \in {"idle", "beat"} => shown.ids = None
    /\ phase \in {"names", "socket", "overlay", "shown"} => DOMAIN shown.ids = ActiveFields
    /\ phase \in {"idle", "beat", "ids"} => shown.names = None
    /\ phase \in {"socket", "overlay", "shown"} => DOMAIN shown.names = ActiveFields

NamedSoFar == \A f \in DOMAIN shown.names :
    \/ shown.names[f] = NoName
    \/ shown.ids[f] # Cleared /\ shown.names[f] \in had[shown.ids[f]]

Checked == shown.self_check = SelfCheck(shown.beat)

PageInv == PageType /\ NameHad /\ ReadInOrder /\ NamedSoFar /\ Checked

LEMMA BlankFits ==
  /\ Blank \in [beat : Connection, self_check : {"blocked", "degraded", "ok"},
                ids : Part(Setting), names : Part(Names \cup {NoName}), redis : BOOLEAN]
  /\ Blank.ids = None /\ Blank.names = None /\ Blank.self_check = SelfCheck(Blank.beat)
<1>1. None \in Part(Setting) /\ None \in Part(Names \cup {NoName})
  BY ZenonT(40) DEF None, Part
<1> QED BY <1>1 DEF Blank, Connection, SelfCheck

LEMMA PageInitHolds == Init /\ PageInit => PageInv
<1> SUFFICES ASSUME PageInit PROVE PageInv
  OBVIOUS
<1>1. PageType
  BY BlankFits DEF PageInit, PageType, PhaseSet
<1>2. NamedSoFar
  BY BlankFits DEF PageInit, NamedSoFar, None
<1> QED BY <1>1, <1>2, BlankFits DEF PageInit, PageInv, NameHad, ReadInOrder, Checked

LEMMA BlankKeeps ==
  ASSUME PageInv, Ask \/ FailPage \/ Leave
  PROVE  PageInv'
<1>1. PageType'
  BY BlankFits DEF PageInv, PageType, PhaseSet, Ask, FailPage, Leave, Shows
<1>2. shown' = Blank /\ phase' \in {"idle", "beat"}
  BY DEF Ask, FailPage, Leave, Shows
<1>3. NameHad'
  BY DEF PageInv, PageType, NameHad, Ask, FailPage, Leave, Shows
<1>4. NamedSoFar'
  BY <1>2, BlankFits DEF NamedSoFar, None
<1> QED BY <1>1, <1>2, <1>3, <1>4, BlankFits DEF PageInv, ReadInOrder, Checked

LEMMA BeatKeeps ==
  ASSUME PageInv, ReadBeat
  PROVE  PageInv'
<1>1. shown' = [shown EXCEPT !.beat = beat, !.self_check = SelfCheck(beat)]
  BY DEF ReadBeat, Shows
<1>2. SelfCheck(beat) \in {"blocked", "degraded", "ok"}
  BY DEF PageInv, PageType, Connection, SelfCheck
<1> QED BY <1>1, <1>2 DEF PageInv, PageType, PhaseSet, NameHad, ReadInOrder, NamedSoFar, Checked,
           ReadBeat, Shows

LEMMA IdKeeps ==
  ASSUME TypeOK, PageInv, NEW f \in ActiveFields, ReadId(f)
  PROVE  PageInv'
<1> DEFINE ids == [g \in DOMAIN shown.ids \cup {f} |-> IF g = f THEN settings[f] ELSE shown.ids[g]]
<1>1. shown' = [shown EXCEPT !.ids = ids]
      /\ phase' = IF DOMAIN ids = ActiveFields THEN "names" ELSE "ids"
  BY DEF ReadId, Shows
<1>2. PICK T \in SUBSET ActiveFields : shown.ids \in [T -> Setting]
  BY DEF PageInv, PageType, Part
<1>3. settings[f] \in Setting
  BY DEF TypeOK, Fields
<1>4. ids \in [T \cup {f} -> Setting]
  BY <1>2, <1>3
<1>5. ids \in Part(Setting)
  BY <1>2, <1>4 DEF Part
<1>6. phase = "ids" /\ shown.names = None /\ UNCHANGED <<name, beat, gateway, had>>
  BY DEF PageInv, ReadInOrder, ReadId, Shows
<1> HIDE DEF ids
<1>7. PageType'
  BY <1>1, <1>5, <1>6 DEF PageInv, PageType, PhaseSet
<1>8. shown'.names = None /\ shown'.ids = ids /\ shown'.beat = shown.beat
      /\ shown'.self_check = shown.self_check
  BY <1>1, <1>6 DEF PageInv, PageType
<1>9. NamedSoFar'
  BY <1>8 DEF NamedSoFar, None
<1> QED BY <1>1, <1>6, <1>7, <1>8, <1>9 DEF PageInv, NameHad, ReadInOrder, Checked

LEMMA NameKeeps ==
  ASSUME PageInv, NEW f \in ActiveFields, ReadName(f)
  PROVE  PageInv'
<1>1. PICK n \in Named(f) :
        LET names == [g \in DOMAIN shown.names \cup {f} |-> IF g = f THEN n ELSE shown.names[g]]
        IN Shows(IF DOMAIN names = ActiveFields THEN "socket" ELSE "names",
                 [shown EXCEPT !.names = names])
  BY DEF ReadName
<1> DEFINE names == [g \in DOMAIN shown.names \cup {f} |-> IF g = f THEN n ELSE shown.names[g]]
<1>2. shown' = [shown EXCEPT !.names = names]
      /\ phase' = (IF DOMAIN names = ActiveFields THEN "socket" ELSE "names")
      /\ phase = "names" /\ UNCHANGED <<name, beat, gateway, had>>
  BY <1>1 DEF ReadName, Shows
<1>3. PICK T \in SUBSET ActiveFields : shown.names \in [T -> Names \cup {NoName}]
  BY DEF PageInv, PageType, Part
<1>4. DOMAIN shown.ids = ActiveFields /\ shown.ids[f] \in Setting
  BY <1>2 DEF PageInv, PageType, Part, ReadInOrder
<1>5. n = NoName \/ (shown.ids[f] # Cleared /\ n \in Names \cup {NoName} /\ n \in had[shown.ids[f]])
  BY <1>2, <1>4 DEF Named, NameOf, PageInv, PageType, NameHad, Id, Setting
<1>6. names \in [T \cup {f} -> Names \cup {NoName}]
  BY <1>3, <1>5
<1>7. names \in Part(Names \cup {NoName})
  BY <1>3, <1>6 DEF Part
<1>8. \A g \in DOMAIN names : names[g] = NoName
        \/ (shown.ids[g] # Cleared /\ names[g] \in had[shown.ids[g]])
  BY <1>5 DEF PageInv, NamedSoFar
<1> HIDE DEF names
<1>9. PageType'
  BY <1>2, <1>7 DEF PageInv, PageType, PhaseSet
<1>10. shown'.names = names /\ shown'.ids = shown.ids /\ shown'.beat = shown.beat
      /\ shown'.self_check = shown.self_check
  BY <1>2 DEF PageInv, PageType
<1>11. NamedSoFar'
  BY <1>2, <1>8, <1>10 DEF NamedSoFar
<1> QED BY <1>2, <1>4, <1>9, <1>10, <1>11 DEF PageInv, NameHad, ReadInOrder, Checked

LEMMA SocketKeeps ==
  ASSUME PageInv, OpenRedis \/ Overlay \/ NoOverlay
  PROVE  PageInv'
<1>1. CASE OpenRedis
  BY <1>1 DEF OpenRedis, Shows, PageInv, PageType, PhaseSet, NameHad, ReadInOrder, NamedSoFar, Checked
<1>2. CASE Overlay
  <2>1. SelfCheck(gateway) \in {"blocked", "degraded", "ok"}
    BY DEF PageInv, PageType, Connection, SelfCheck
  <2> QED BY <1>2, <2>1 DEF Overlay, Overlaid, Shows, PageInv, PageType, PhaseSet, NameHad,
             ReadInOrder, NamedSoFar, Checked
<1>3. CASE NoOverlay
  BY <1>3 DEF NoOverlay, Shows, PageInv, PageType, PhaseSet, NameHad, ReadInOrder, NamedSoFar, Checked
<1> QED BY <1>1, <1>2, <1>3

LEMMA WorldKeeps ==
  ASSUME PageInv,
         \/ \E i \in Id : \E n \in Names \cup {NoName} : Rename(i, n)
         \/ \E b, g \in Connection : Live(b, g)
         \/ UNCHANGED pageVars
  PROVE  PageInv'
<1>1. CASE \E i \in Id : \E n \in Names \cup {NoName} : Rename(i, n)
  <2> PICK i \in Id, n \in Names \cup {NoName} : Rename(i, n)
    BY <1>1
  <2>1. \A j \in Id : had[j] \subseteq had'[j]
    BY DEF Rename, PageInv, PageType
  <2>2. PageType' /\ NameHad'
    BY DEF Rename, PageInv, PageType, NameHad
  <2>3. \A f \in DOMAIN shown.names : shown.ids[f] # Cleared =>
            (shown.names[f] \in had[shown.ids[f]] => shown.names[f] \in had'[shown.ids[f]])
    <3> SUFFICES ASSUME NEW f \in DOMAIN shown.names, shown.ids[f] # Cleared
                 PROVE  shown.names[f] \in had[shown.ids[f]] => shown.names[f] \in had'[shown.ids[f]]
      OBVIOUS
    <3>1. f \in ActiveFields /\ DOMAIN shown.ids = ActiveFields
      BY DEF PageInv, PageType, PhaseSet, Part, ReadInOrder, None
    <3>2. shown.ids[f] \in Id
      BY <3>1 DEF PageInv, PageType, Part, Setting, Id
    <3> QED BY <2>1, <3>2
  <2> QED BY <2>2, <2>3 DEF Rename, PageInv, ReadInOrder, NamedSoFar, Checked
<1>2. CASE \E b, g \in Connection : Live(b, g)
  BY <1>2 DEF Live, PageInv, PageType, NameHad, ReadInOrder, NamedSoFar, Checked
<1>3. CASE UNCHANGED pageVars
  BY <1>3 DEF pageVars, PageInv, PageType, NameHad, ReadInOrder, NamedSoFar, Checked
<1> QED BY <1>1, <1>2, <1>3

LEMMA PageStepKeeps == TypeOK /\ PageInv /\ [PageNext]_<<vars, pageVars>> => PageInv'
<1> SUFFICES ASSUME TypeOK, PageInv, [PageNext]_<<vars, pageVars>> PROVE PageInv'
  OBVIOUS
<1>1. CASE PageStep
  <2>1. CASE \E f \in ActiveFields : ReadId(f) \/ ReadName(f)
    BY <2>1, IdKeeps, NameKeeps
  <2> QED BY <1>1, <2>1, BlankKeeps, BeatKeeps, SocketKeeps, WorldKeeps DEF PageStep
<1>2. CASE UNCHANGED pageVars
  BY <1>2, WorldKeeps
<1> QED BY <1>1, <1>2 DEF PageNext

LEMMA RowStillHolds == PageSpec => []IInv
<1>1. [PageNext]_<<vars, pageVars>> => [Next]_vars
  BY DEF PageNext
<1> QED BY <1>1, InitHolds, StepKeeps, PTL DEF PageSpec

LEMMA PageInvariant == PageSpec => []PageInv
<1>1. IInv => TypeOK
  BY DEF IInv
<1> QED BY <1>1, RowStillHolds, PageInitHolds, PageStepKeeps, PTL DEF PageSpec

\* A name on the page is one the row of the id beside it has had since the
\* request arrived, however the settings and the rows are written meanwhile.
THEOREM PageNamesItsIds == PageSpec => []NamesOfTheirIds
<1>1. PageInv => NamesOfTheirIds
  BY DEF PageInv, ReadInOrder, NamedSoFar, NamesOfTheirIds
<1> QED BY <1>1, PageInvariant, PTL

\* The self check on the page is that of the heartbeat on the page.
THEOREM PageChecksItsBeat == PageSpec => []CheckOfItsBeat
<1>1. PageInv => CheckOfItsBeat
  BY DEF PageInv, Checked, CheckOfItsBeat
<1> QED BY <1>1, PageInvariant, PTL

=============================================================================
