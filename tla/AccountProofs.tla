--------------------------- MODULE AccountProofs ---------------------------
(***************************************************************************)
(* The two halves of the account application: the execution book for any   *)
(* number of fills and fetches, any page size and any number of deletes    *)
(* the id space has room for; then one row of any table under the requests *)
(* of any number of callers, for every route.                              *)
(***************************************************************************)
EXTENDS Executions, AccountApp, FiniteSetTheorems, WellFoundedInduction, TLAPS

RowsOf(s) == {e \in Execs : raw[s][e] > 0}

\* Ids are given out once, and a table gives out as many as it holds and lost.
RawInv ==
    /\ \A s \in Source, e, g \in Execs : (raw[s][e] > 0 /\ raw[s][e] = raw[s][g]) => e = g
    /\ \A s \in Source : serial[s] <= Cardinality(RowsOf(s)) + deletes

\* What a fetch that has met no error still owes is where it will look.
FetchInv == \A r \in Requests :
    /\ pc[r] = "primary" => due[r] \subseteq Reported
    /\ pc[r] = "secondary" =>
           TwoSlots /\ due[r] \subseteq got[r] \cup gateway["secondary"]
    /\ (pc[r] = "write" /\ verdict[r] = "ok") => due[r] \subseteq got[r]
    /\ (pc[r] = "announce" /\ verdict[r] = "ok") => due[r] \ Incomplete \subseteq Book

\* A steady fill has been shown exactly if the cursor has passed it.
PageInv ==
    /\ paging = "open" =>
           \A e \in steady : shown[e] = IF Precedes(cursor, Key(e)) THEN 0 ELSE 1
    /\ paging = "done" => \A e \in steady : shown[e] = 1

\* While nothing is removed, what was shown once stays behind the cursor.
RepeatInv == ~removed => \A e \in Execs :
    /\ shown[e] <= 1
    /\ shown[e] # 0 => e \in Book /\ (paging = "open" => ~Precedes(cursor, Key(e)))

IInv == TypeOK /\ RawInv /\ FetchInv /\ PageInv /\ RepeatInv

-----------------------------------------------------------------------------
\* Keys.

ProperBook(r) ==
    /\ r \in [Source -> [Execs -> Nat]]
    /\ \A s \in Source, e, g \in Execs : (r[s][e] > 0 /\ r[s][e] = r[s][g]) => e = g
    /\ \A s \in Source, e \in Execs : r[s][e] < Base

LEMMA BaseInt == Base \in Nat
BY SizesAssumption

LEMMA IdType ==
  ASSUME NEW r, ProperBook(r), NEW e \in Execs
  PROVE  IdIn(r, e) \in Int
<1>1. r["flex"][e] \in Nat /\ r["tws"][e] \in Nat /\ r["journal"][e] \in Nat
  BY DEF ProperBook, Source
<1> QED BY <1>1, BaseInt DEF IdIn

\* The id space is shared without a clash.
LEMMA IdsDistinct ==
  ASSUME NEW r, ProperBook(r), NEW e \in BookOf(r), NEW g \in BookOf(r),
         IdIn(r, e) = IdIn(r, g)
  PROVE  e = g
<1>1. e \in Execs /\ g \in Execs
  BY DEF BookOf
<1>2. \A s \in Source : r[s][e] \in Nat /\ r[s][g] \in Nat /\ r[s][e] < Base /\ r[s][g] < Base
  BY <1>1 DEF ProperBook
<1>3. \A s \in Source : (r[s][e] > 0 /\ r[s][e] = r[s][g]) => e = g
  BY <1>1 DEF ProperBook
<1>4. (\E s \in Source : r[s][e] > 0) /\ (\E s \in Source : r[s][g] > 0)
  BY DEF BookOf
<1> QED BY <1>2, <1>3, <1>4, BaseInt DEF IdIn, Source

LEMMA PrecedesOrder ==
  ASSUME NEW k \in Nat \X Int, NEW l \in Nat \X Int, NEW m \in Nat \X Int
  PROVE  /\ ~Precedes(k, k)
         /\ Precedes(k, l) => ~Precedes(l, k)
         /\ Precedes(k, l) /\ Precedes(l, m) => Precedes(k, m)
         /\ Precedes(k, l) \/ Precedes(l, k) \/ (k[1] = l[1] /\ k[2] = l[2])
BY DEF Precedes

LEMMA Proper ==
  ASSUME TypeOK, RawInv
  PROVE  ProperBook(raw)
<1> SUFFICES ASSUME NEW s \in Source, NEW e \in Execs PROVE raw[s][e] < Base
  BY DEF TypeOK, RawInv, ProperBook
<1>1. RowsOf(s) \in SUBSET Execs
  BY DEF RowsOf
<1>2. Cardinality(RowsOf(s)) \in Nat /\ Cardinality(RowsOf(s)) <= Cardinality(Execs)
      /\ Cardinality(Execs) \in Nat
  BY <1>1, FillsAssumption, FS_Subset, FS_CardinalityType
<1>3. raw[s][e] <= serial[s] /\ serial[s] <= Cardinality(RowsOf(s)) + deletes
      /\ raw[s][e] \in Nat /\ serial[s] \in Nat /\ deletes \in Nat /\ deletes <= MaxDeletes
  BY SizesAssumption DEF TypeOK, RawInv
<1> QED BY <1>2, <1>3, SizesAssumption

LEMMA KeyType ==
  ASSUME TypeOK, RawInv, NEW e \in Execs
  PROVE  Key(e) \in Nat \X Int /\ Key(e)[1] = When[e] /\ Key(e)[2] = IdIn(raw, e)
<1>1. IdIn(raw, e) \in Int /\ When[e] \in Nat
  BY Proper, IdType, FillsAssumption
<1> QED BY <1>1 DEF Key

LEMMA KeysDistinct ==
  ASSUME TypeOK, RawInv, NEW e \in Book, NEW g \in Book, e # g
  PROVE  Precedes(Key(e), Key(g)) \/ Precedes(Key(g), Key(e))
<1>1. e \in Execs /\ g \in Execs
  BY DEF Book, BookOf
<1>2. IdIn(raw, e) # IdIn(raw, g)
  BY Proper, IdsDistinct DEF Book
<1> QED BY <1>1, <1>2, KeyType, PrecedesOrder

-----------------------------------------------------------------------------
\* Pages.

Ahead(S, e) == {x \in S : Precedes(Key(x), Key(e))}

LEMMA AheadFinite ==
  ASSUME NEW S \in SUBSET Execs, NEW e
  PROVE  IsFiniteSet(Ahead(S, e)) /\ Cardinality(Ahead(S, e)) \in Nat
<1>1. Ahead(S, e) \in SUBSET Execs
  BY DEF Ahead
<1> QED BY <1>1, FillsAssumption, FS_Subset, FS_CardinalityType

LEMMA AheadLess ==
  ASSUME TypeOK, RawInv, NEW S \in SUBSET Book, NEW e \in S, NEW g \in S,
         Precedes(Key(g), Key(e))
  PROVE  Cardinality(Ahead(S, g)) < Cardinality(Ahead(S, e))
<1>1. S \subseteq Execs
  BY DEF Book, BookOf
<1>2. \A x \in S : Key(x) \in Nat \X Int
  BY <1>1, KeyType
<1>3. Ahead(S, g) \in SUBSET Ahead(S, e)
  BY <1>2, PrecedesOrder DEF Ahead
<1>4. g \in Ahead(S, e) /\ g \notin Ahead(S, g)
  BY <1>2, PrecedesOrder DEF Ahead
<1>5. Cardinality(Ahead(S, g)) <= Cardinality(Ahead(S, e))
      /\ Cardinality(Ahead(S, g)) # Cardinality(Ahead(S, e))
  BY <1>1, <1>3, <1>4, AheadFinite, FS_Subset
<1> QED BY <1>1, <1>5, AheadFinite

LEMMA FirstRowsAhead == \A S : FirstRows(S) = {e \in S : Cardinality(Ahead(S, e)) < PageSize}
BY DEF FirstRows, Ahead

\* What a page leaves out comes after all it holds.
LEMMA PageClosed ==
  ASSUME TypeOK, RawInv, NEW S \in SUBSET Book, NEW l \in FirstRows(S),
         NEW e \in S \ FirstRows(S)
  PROVE  Precedes(Key(l), Key(e))
<1>1. S \subseteq Execs /\ l \in S /\ l # e
  BY FirstRowsAhead DEF Book, BookOf
<1>2. Cardinality(Ahead(S, l)) < PageSize /\ ~(Cardinality(Ahead(S, e)) < PageSize)
  BY FirstRowsAhead
<1>3. ~(Cardinality(Ahead(S, e)) < Cardinality(Ahead(S, l)))
  BY <1>1, <1>2, AheadFinite, SizesAssumption
<1>4. ~Precedes(Key(e), Key(l))
  BY <1>1, <1>3, AheadLess
<1> QED BY <1>1, <1>4, KeysDistinct

LEMMA Smallest ==
  ASSUME NEW T \in SUBSET Nat, T # {}
  PROVE  \E m \in T : \A n \in T : m <= n
<1> DEFINE R == OpToRel(<, Nat)
<1>1. IsWellFoundedOn(R, Nat)
  BY NatLessThanWellFounded
<1>2. \A m, n \in Nat : n < m => <<n, m>> \in R
  BY DEF OpToRel
<1> HIDE DEF R
<1>3. PICK m \in T : \A n \in T : ~(<<n, m>> \in R)
  BY <1>1, WFMin
<1>4. \A n \in T : ~(n < m)
  BY <1>2, <1>3
<1> QED BY <1>4

\* A page is empty only if there is nothing to show.
LEMMA PageNonempty ==
  ASSUME TypeOK, RawInv, NEW S \in SUBSET Book, FirstRows(S) = {}
  PROVE  S = {}
<1> SUFFICES ASSUME S # {} PROVE FALSE
  OBVIOUS
<1> DEFINE T == {Cardinality(Ahead(S, e)) : e \in S}
<1>1. S \subseteq Execs
  BY DEF Book, BookOf
<1>2. T \in SUBSET Nat /\ T # {}
  BY <1>1, AheadFinite
<1>3. PICK m \in T : \A n \in T : m <= n
  BY <1>2, Smallest
<1>4. PICK e \in S : m = Cardinality(Ahead(S, e))
  BY <1>3
<1>5. ~(Cardinality(Ahead(S, e)) < PageSize)
  BY FirstRowsAhead
<1>6. Ahead(S, e) # {}
  BY <1>5, FS_EmptySet, SizesAssumption
<1>7. PICK g \in Ahead(S, e) : TRUE
  BY <1>6
<1>8. Cardinality(Ahead(S, g)) < Cardinality(Ahead(S, e)) /\ g \in S
  BY <1>7, AheadLess DEF Ahead
<1>9. m <= Cardinality(Ahead(S, g))
  BY <1>3, <1>8
<1> QED BY <1>1, <1>4, <1>8, <1>9, AheadFinite

-----------------------------------------------------------------------------
LEMMA InitHolds == Init => IInv
<1> SUFFICES ASSUME Init PROVE IInv
  OBVIOUS
<1>1. TypeOK
  <2>1. raw \in [Source -> [Execs -> Nat]] /\ serial \in [Source -> Nat]
        /\ \A s \in Source, e \in Execs : raw[s][e] <= serial[s]
    BY DEF Init
  <2>2. deletes \in 0 .. MaxDeletes /\ cursor \in Nat \X Int /\ shown \in [Execs -> Nat]
    BY SizesAssumption DEF Init
  <2>3. gateway \in [Slots -> SUBSET Execs] /\ got \in [Requests -> SUBSET Execs]
        /\ due \in [Requests -> SUBSET Execs] /\ pc \in [Requests -> FetchPhase]
        /\ verdict \in [Requests -> Verdict]
    BY DEF Init, FetchPhase, Verdict
  <2> QED BY <2>1, <2>2, <2>3 DEF Init, TypeOK
<1>2. RawInv
  <2>1. \A s \in Source : Cardinality(RowsOf(s)) \in Nat
    <3> SUFFICES ASSUME NEW s \in Source PROVE Cardinality(RowsOf(s)) \in Nat
      OBVIOUS
    <3>1. RowsOf(s) \in SUBSET Execs
      BY DEF RowsOf
    <3> QED BY <3>1, FillsAssumption, FS_Subset, FS_CardinalityType
  <2> QED BY <2>1 DEF Init, RawInv
<1>3. FetchInv /\ PageInv /\ RepeatInv
  BY DEF Init, FetchInv, PageInv, RepeatInv
<1> QED BY <1>1, <1>2, <1>3 DEF IInv

\* The book a step leaves alone, and the pages of a book that stays.
LEMMA SameRaw ==
  ASSUME RawInv, UNCHANGED <<raw, serial, deletes>>
  PROVE  RawInv' /\ Book' = Book
BY DEF RawInv, RowsOf, Book

LEMMA SamePages ==
  ASSUME PageInv, RepeatInv, UNCHANGED <<raw, pager>>
  PROVE  PageInv' /\ RepeatInv'
BY DEF PageInv, RepeatInv, pager, Key, Book

-----------------------------------------------------------------------------
\* The gateway.

LEMMA TradeKeeps ==
  ASSUME IInv, NEW s \in Slots, NEW e \in Execs, Trade(s, e)
  PROVE  IInv'
<1>1. gateway' = [gateway EXCEPT ![s] = @ \cup {e}]
      /\ UNCHANGED <<raw, serial, deletes, fetch, pager>>
  BY DEF Trade
<1>2. gateway' \in [Slots -> SUBSET Execs] /\ \A t \in Slots : gateway[t] \subseteq gateway'[t]
  BY <1>1 DEF IInv, TypeOK
<1>3. Reported \subseteq Reported'
  BY <1>2 DEF Reported
<1>4. RawInv' /\ Book' = Book /\ PageInv' /\ RepeatInv'
  BY <1>1, SameRaw, SamePages DEF IInv
<1>5. TypeOK'
  BY <1>1, <1>2, <1>4 DEF IInv, TypeOK, fetch, pager
<1>6. FetchInv'
  BY <1>1, <1>2, <1>3, <1>4 DEF IInv, FetchInv, fetch, Slots
<1> QED BY <1>4, <1>5, <1>6 DEF IInv

LEMMA RolloverKeeps ==
  ASSUME IInv, NEW s \in Slots, NEW e \in Execs, Rollover(s, e)
  PROVE  IInv'
<1>1. gateway' = [gateway EXCEPT ![s] = @ \ {e}]
      /\ due' = [r \in Requests |-> due[r] \ {e}]
      /\ UNCHANGED <<raw, serial, deletes, pc, got, verdict, pager>>
  BY DEF Rollover
<1>2. gateway' \in [Slots -> SUBSET Execs] /\ \A t \in Slots : gateway[t] \ {e} \subseteq gateway'[t]
  BY <1>1 DEF IInv, TypeOK
<1>3. Reported \ {e} \subseteq Reported'
  BY <1>2 DEF Reported
<1>4. RawInv' /\ Book' = Book /\ PageInv' /\ RepeatInv'
  BY <1>1, SameRaw, SamePages DEF IInv
<1>5. TypeOK'
  BY <1>1, <1>2, <1>4 DEF IInv, TypeOK, pager
<1>6. FetchInv'
  BY <1>1, <1>2, <1>3, <1>4 DEF IInv, FetchInv, Slots
<1> QED BY <1>4, <1>5, <1>6 DEF IInv

-----------------------------------------------------------------------------
\* Rows are added.

LEMMA InsertBasics ==
  ASSUME IInv, NEW s \in Source, NEW new \in SUBSET Execs,
         \A e \in new : raw[s][e] = 0, Insert(s, new)
  PROVE  /\ raw' \in [Source -> [Execs -> Nat]] /\ serial' \in [Source -> Nat]
         /\ \A t \in Source, e \in Execs : raw'[t][e] <= serial'[t]
         /\ RawInv'
         /\ \A t \in Source, e \in Execs : raw[t][e] # 0 => raw'[t][e] = raw[t][e]
         /\ \A e \in new : raw'[s][e] > 0
         /\ \A t \in Source, e \in Execs : (t # s \/ e \notin new) => raw'[t][e] = raw[t][e]
<1> DEFINE n == Cardinality(new)
<1>1. n \in Nat /\ IsFiniteSet(new)
  BY FillsAssumption, FS_Subset, FS_CardinalityType
<1>2. PICK f \in Bijection(new, serial[s] + 1 .. serial[s] + n) :
        raw' = [raw EXCEPT ![s] = [e \in Execs |-> IF e \in new THEN f[e] ELSE @[e]]]
  BY DEF Insert
<1>3. /\ f \in [new -> serial[s] + 1 .. serial[s] + n]
      /\ \A e, g \in new : f[e] = f[g] => e = g
  BY DEF Bijection, Injection, IsInjective
<1>4. serial[s] \in Nat /\ serial' = [serial EXCEPT ![s] = @ + n] /\ deletes' = deletes
  BY DEF IInv, TypeOK, Insert
<1>5. \A e \in new : f[e] \in Nat /\ f[e] > serial[s] /\ f[e] <= serial[s] + n
  BY <1>1, <1>3, <1>4
<1>6. \A e \in Execs : raw'[s][e] = IF e \in new THEN f[e] ELSE raw[s][e]
  BY <1>2 DEF IInv, TypeOK
<1>7. \A t \in Source \ {s} : raw'[t] = raw[t] /\ serial'[t] = serial[t]
  BY <1>2, <1>4 DEF IInv, TypeOK
<1>8. serial'[s] = serial[s] + n
  BY <1>4 DEF IInv, TypeOK
<1>9. raw' \in [Source -> [Execs -> Nat]] /\ serial' \in [Source -> Nat]
  <2>1. [e \in Execs |-> IF e \in new THEN f[e] ELSE raw[s][e]] \in [Execs -> Nat]
    BY <1>5 DEF IInv, TypeOK
  <2> QED BY <1>1, <1>2, <1>4, <2>1 DEF IInv, TypeOK
<1>10. \A t \in Source, e \in Execs : raw'[t][e] <= serial'[t]
  <2> SUFFICES ASSUME NEW t \in Source, NEW e \in Execs PROVE raw'[t][e] <= serial'[t]
    OBVIOUS
  <2>1. raw[t][e] <= serial[t] /\ raw[t][e] \in Nat /\ serial[t] \in Nat
    BY DEF IInv, TypeOK
  <2> QED BY <1>1, <1>5, <1>6, <1>7, <1>8, <2>1
<1>11. \A t \in Source, e, g \in Execs :
           (raw'[t][e] > 0 /\ raw'[t][e] = raw'[t][g]) => e = g
  <2> SUFFICES ASSUME NEW t \in Source, NEW e \in Execs, NEW g \in Execs,
                      raw'[t][e] > 0, raw'[t][e] = raw'[t][g]
               PROVE  e = g
    OBVIOUS
  <2>1. raw[t][e] <= serial[t] /\ raw[t][g] <= serial[t] /\ serial[t] \in Nat
        /\ raw[t][e] \in Nat /\ raw[t][g] \in Nat
    BY DEF IInv, TypeOK
  <2>2. (raw[t][e] > 0 /\ raw[t][e] = raw[t][g]) => e = g
    BY DEF IInv, RawInv
  <2> QED BY <1>3, <1>5, <1>6, <1>7, <2>1, <2>2
<1>12. \A t \in Source : serial'[t] <= Cardinality(RowsOf(t)') + deletes'
  <2> SUFFICES ASSUME NEW t \in Source
               PROVE  serial'[t] <= Cardinality(RowsOf(t)') + deletes'
    OBVIOUS
  <2>1. serial[t] <= Cardinality(RowsOf(t)) + deletes /\ serial[t] \in Nat /\ deletes \in Nat
    BY DEF IInv, TypeOK, RawInv
  <2>2. CASE t # s
    <3>1. RowsOf(t)' = RowsOf(t)
      BY <1>7, <2>2 DEF RowsOf
    <3> QED BY <1>4, <1>7, <2>1, <2>2, <3>1
  <2>3. CASE t = s
    <3>1. RowsOf(s)' = RowsOf(s) \cup new /\ RowsOf(s) \cap new = {}
      BY <1>5, <1>6, <1>4 DEF RowsOf
    <3>2. RowsOf(s) \in SUBSET Execs
      BY DEF RowsOf
    <3>3. IsFiniteSet(RowsOf(s)) /\ Cardinality(RowsOf(s)) \in Nat
      BY <3>2, FillsAssumption, FS_Subset, FS_CardinalityType
    <3>4. Cardinality(RowsOf(s) \cup new) = Cardinality(RowsOf(s)) + n - 0
      BY <1>1, <3>1, <3>3, FS_Union, FS_EmptySet
    <3> QED BY <1>1, <1>4, <1>8, <2>1, <2>3, <3>1, <3>3, <3>4
  <2> QED BY <2>2, <2>3
<1>13. RawInv'
  BY <1>11, <1>12 DEF RawInv
<1>14. \A t \in Source, e \in Execs : (t # s \/ e \notin new) => raw'[t][e] = raw[t][e]
  BY <1>6, <1>7
<1>15. \A e \in new : raw'[s][e] > 0
  BY <1>4, <1>5, <1>6
<1>16. \A t \in Source, e \in Execs : raw[t][e] # 0 => raw'[t][e] = raw[t][e]
  BY <1>14
<1> QED BY <1>9, <1>10, <1>13, <1>14, <1>15, <1>16

\* A fill only moves towards the front.
LEMMA InsertPages ==
  ASSUME IInv, NEW s \in Source, NEW new \in SUBSET Execs,
         \A e \in new : raw[s][e] = 0, Insert(s, new)
  PROVE  /\ Book \subseteq Book' /\ new \subseteq Book'
         /\ PageInv' /\ RepeatInv'
         /\ steady' \subseteq there' /\ there' \subseteq Book'
         /\ UNCHANGED <<gateway, deletes, removed, paging, cursor, shown>>
<1>1. /\ raw' \in [Source -> [Execs -> Nat]] /\ serial' \in [Source -> Nat]
      /\ \A t \in Source, e \in Execs : raw'[t][e] <= serial'[t]
      /\ RawInv'
      /\ \A t \in Source, e \in Execs : raw[t][e] # 0 => raw'[t][e] = raw[t][e]
      /\ \A e \in new : raw'[s][e] > 0
  BY InsertBasics
<1>2. Book \subseteq Book' /\ new \subseteq Book'
  BY <1>1 DEF Book, BookOf
<1>3. UNCHANGED <<gateway, deletes, removed, paging, cursor, shown>>
      /\ there' = there \cap BookOf(raw')
      /\ steady' = {e \in steady : e \in BookOf(raw') /\ IdIn(raw', e) = IdIn(raw, e)}
  BY DEF Insert, Witness
<1>4. steady \subseteq there /\ there \subseteq Book /\ Book \subseteq Execs
  BY DEF IInv, TypeOK, Book, BookOf
<1>5. \A e \in steady' : Key(e)' = Key(e) /\ e \in steady
  BY <1>3 DEF Key
<1>6. PageInv'
  BY <1>3, <1>5 DEF IInv, PageInv
<1>7. \A e \in Book : IdIn(raw', e) >= IdIn(raw, e)
  <2> SUFFICES ASSUME NEW e \in Book PROVE IdIn(raw', e) >= IdIn(raw, e)
    OBVIOUS
  <2>1. ProperBook(raw)
    BY Proper DEF IInv
  <2>2. \A t \in Source, g \in Execs : raw'[t][g] < Base
    <3> SUFFICES ASSUME NEW t \in Source, NEW g \in Execs PROVE raw'[t][g] < Base
      OBVIOUS
    <3>2. RowsOf(t)' \in SUBSET Execs
      BY DEF RowsOf
    <3>3. Cardinality(RowsOf(t)') \in Nat /\ Cardinality(RowsOf(t)') <= Cardinality(Execs)
          /\ Cardinality(Execs) \in Nat
      BY <3>2, FillsAssumption, FS_Subset, FS_CardinalityType
    <3>4. serial'[t] <= Cardinality(RowsOf(t)') + deletes' /\ raw'[t][g] <= serial'[t]
          /\ raw'[t][g] \in Nat /\ serial'[t] \in Nat
      BY <1>1 DEF RawInv
    <3>5. deletes' \in Nat /\ deletes' <= MaxDeletes
      BY <1>3, SizesAssumption DEF IInv, TypeOK
    <3> QED BY <3>3, <3>4, <3>5, SizesAssumption
  <2>3. e \in Execs /\ \A t \in Source :
            raw[t][e] \in Nat /\ raw'[t][e] \in Nat /\ raw'[t][e] < Base /\ raw[t][e] < Base
            /\ (raw[t][e] # 0 => raw'[t][e] = raw[t][e])
    BY <1>1, <1>4, <2>1, <2>2 DEF ProperBook
  <2>4. \E t \in Source : raw[t][e] > 0
    BY DEF Book, BookOf
  <2> QED BY <2>3, <2>4, BaseInt DEF IdIn, Source
<1>8. RepeatInv'
  <2> SUFFICES ASSUME ~removed, NEW e \in Execs
               PROVE  /\ shown[e] <= 1
                      /\ shown[e] # 0 =>
                            e \in Book' /\ (paging = "open" => ~Precedes(cursor, Key(e)'))
    BY <1>3 DEF RepeatInv
  <2>1. /\ shown[e] <= 1
        /\ shown[e] # 0 => e \in Book /\ (paging = "open" => ~Precedes(cursor, Key(e)))
    BY DEF IInv, RepeatInv
  <2>2. ASSUME e \in Book, ~Precedes(cursor, Key(e)) PROVE ~Precedes(cursor, Key(e)')
    <3>1. Key(e) = <<When[e], IdIn(raw, e)>> /\ Key(e)' = <<When[e], IdIn(raw', e)>>
      BY DEF Key
    <3>2. IdIn(raw, e) \in Int /\ IdIn(raw', e) \in Int /\ When[e] \in Nat
      <4>1. IdIn(raw, e) \in Int
        BY Proper, IdType DEF IInv
      <4>2. IdIn(raw', e) \in Int
        BY <1>1, BaseInt DEF IdIn, Source
      <4> QED BY <4>1, <4>2, FillsAssumption
    <3>3. cursor \in Nat \X Int
      BY DEF IInv, TypeOK
    <3> QED BY <1>7, <2>2, <3>1, <3>2, <3>3 DEF Precedes
  <2> QED BY <1>2, <2>1, <2>2
<1>9. steady' \subseteq there' /\ there' \subseteq Book'
  BY <1>3, <1>4 DEF Book
<1> QED BY <1>2, <1>3, <1>6, <1>8, <1>9

LEMMA InsertTyped ==
  ASSUME IInv, NEW s \in Source, NEW new \in SUBSET Execs,
         \A e \in new : raw[s][e] = 0, Insert(s, new),
         pc' \in [Requests -> FetchPhase], UNCHANGED <<got, verdict, due>>
  PROVE  TypeOK'
<1>1. raw' \in [Source -> [Execs -> Nat]] /\ serial' \in [Source -> Nat]
      /\ \A t \in Source, e \in Execs : raw'[t][e] <= serial'[t]
  BY InsertBasics
<1>2. UNCHANGED <<gateway, deletes, removed, paging, cursor, shown>>
      /\ steady' \subseteq there' /\ there' \subseteq Book'
  BY InsertPages
<1> QED BY <1>1, <1>2 DEF IInv, TypeOK

LEMMA AddedKeeps ==
  ASSUME IInv, NEW s \in Source, NEW e \in Execs, raw[s][e] = 0,
         Insert(s, {e}), UNCHANGED fetch
  PROVE  IInv'
<1>1. TypeOK'
  BY InsertTyped DEF IInv, TypeOK, fetch
<1>2. RawInv'
  BY InsertBasics
<1>3. Book \subseteq Book' /\ PageInv' /\ RepeatInv' /\ gateway' = gateway
  BY InsertPages
<1>4. FetchInv'
  BY <1>3 DEF IInv, FetchInv, fetch, Reported
<1> QED BY <1>1, <1>2, <1>3, <1>4 DEF IInv

LEMMA ConfirmKeeps ==
  ASSUME IInv, NEW e \in Execs, Confirm(e)
  PROVE  IInv'
BY AddedKeeps DEF Confirm, Source

LEMMA PostKeeps ==
  ASSUME IInv, NEW e \in Execs, PostExecution(e)
  PROVE  IInv'
<1>1. raw["journal"][e] = 0
  BY DEF IInv, TypeOK, PostExecution, Book, BookOf, Source
<1> QED BY <1>1, AddedKeeps DEF PostExecution, Source

LEMMA WriteKeeps ==
  ASSUME IInv, NEW r \in Requests, Write(r)
  PROVE  IInv'
<1> DEFINE new == {e \in Rows(r) : raw["tws"][e] = 0}
<1>1. pc[r] = "write" /\ pc' = [pc EXCEPT ![r] = "announce"] /\ Insert("tws", new)
      /\ UNCHANGED <<got, verdict, due>>
  BY DEF Write
<1>2. new \in SUBSET Execs /\ "tws" \in Source /\ \A e \in new : raw["tws"][e] = 0
  BY DEF IInv, TypeOK, Rows, Source
<1>3. TypeOK'
  BY <1>1, <1>2, InsertTyped DEF IInv, TypeOK, FetchPhase
<1>4. RawInv'
  BY <1>1, <1>2, InsertBasics
<1>5. Book \subseteq Book' /\ new \subseteq Book' /\ PageInv' /\ RepeatInv' /\ gateway' = gateway
  BY <1>1, <1>2, InsertPages
<1>6. Rows(r) \subseteq Book'
  <2>1. ASSUME NEW e \in Rows(r), raw["tws"][e] # 0 PROVE e \in Book
    <3>1. e \in Execs /\ raw["tws"][e] \in Nat
      BY DEF IInv, TypeOK, Rows, Source
    <3> QED BY <2>1, <3>1 DEF Book, BookOf, Source
  <2> QED BY <1>5, <2>1
<1>7. FetchInv'
  <2>1. verdict[r] = "ok" => due[r] \ Incomplete \subseteq Rows(r)
    BY <1>1 DEF IInv, FetchInv, Rows
  <2> QED BY <1>1, <1>5, <1>6, <2>1 DEF IInv, TypeOK, FetchInv, Reported
<1> QED BY <1>3, <1>4, <1>5, <1>7 DEF IInv

-----------------------------------------------------------------------------
\* The rest of a fetch.

LEMMA ArriveKeeps ==
  ASSUME IInv, NEW r \in Requests, Arrive(r)
  PROVE  IInv'
<1>1. pc' = [pc EXCEPT ![r] = "primary"] /\ verdict' = [verdict EXCEPT ![r] = "ok"]
      /\ due' = [due EXCEPT ![r] = Reported]
      /\ UNCHANGED <<gateway, raw, serial, deletes, got, pager>>
  BY DEF Arrive
<1>2. RawInv' /\ Book' = Book /\ PageInv' /\ RepeatInv'
  BY <1>1, SameRaw, SamePages DEF IInv
<1>3. Reported \in SUBSET Execs /\ Reported' = Reported
  BY <1>1 DEF IInv, TypeOK, Reported
<1>4. TypeOK'
  BY <1>1, <1>2, <1>3 DEF IInv, TypeOK, FetchPhase, Verdict, pager
<1>5. FetchInv'
  BY <1>1, <1>2, <1>3 DEF IInv, TypeOK, FetchInv
<1> QED BY <1>2, <1>4, <1>5 DEF IInv

\* A request is told something and goes on.
LEMMA ToldKeeps ==
  ASSUME IInv, NEW r \in Requests, NEW fills \in SUBSET Execs, NEW v \in Verdict,
         NEW next \in {"secondary", "write", "announce"}, Told(r, fills, v, next),
         next = "secondary" =>
             TwoSlots /\ due[r] \subseteq got[r] \cup fills \cup gateway["secondary"],
         (next = "write" /\ v = "ok") => due[r] \subseteq got[r] \cup fills,
         (next = "announce" /\ v = "ok") => due[r] \ Incomplete \subseteq Book
  PROVE  IInv'
<1>1. pc' = [pc EXCEPT ![r] = next] /\ got' = [got EXCEPT ![r] = @ \cup fills]
      /\ verdict' = [verdict EXCEPT ![r] = v]
      /\ UNCHANGED <<gateway, raw, serial, deletes, due, pager>>
  BY DEF Told
<1>2. RawInv' /\ Book' = Book /\ PageInv' /\ RepeatInv'
  BY <1>1, SameRaw, SamePages DEF IInv
<1>3. TypeOK'
  BY <1>1, <1>2 DEF IInv, TypeOK, FetchPhase, pager
<1>4. FetchInv'
  <2>1. pc'[r] = next /\ verdict'[r] = v /\ got'[r] = got[r] \cup fills
    BY <1>1 DEF IInv, TypeOK
  <2>2. \A q \in Requests \ {r} : pc'[q] = pc[q] /\ verdict'[q] = verdict[q] /\ got'[q] = got[q]
    BY <1>1 DEF IInv, TypeOK
  <2> QED BY <1>1, <1>2, <2>1, <2>2 DEF IInv, FetchInv, Reported
<1> QED BY <1>2, <1>3, <1>4 DEF IInv

LEMMA AskPrimaryKeeps ==
  ASSUME IInv, NEW r \in Requests, AskPrimary(r)
  PROVE  IInv'
<1>1. gateway["primary"] \in SUBSET Execs /\ due[r] \subseteq Reported
      /\ Reported = IF TwoSlots THEN gateway["primary"] \cup gateway["secondary"]
                    ELSE gateway["primary"]
  BY DEF IInv, TypeOK, FetchInv, AskPrimary, Slots, Reported
<1>2. CASE Told(r, gateway["primary"], "ok", IF TwoSlots THEN "secondary" ELSE "write")
  <2>1. CASE TwoSlots
    <3>1. Told(r, gateway["primary"], "ok", "secondary")
      BY <1>2, <2>1
    <3>2. due[r] \subseteq got[r] \cup gateway["primary"] \cup gateway["secondary"]
      BY <1>1, <2>1
    <3> QED BY <1>1, <2>1, <3>1, <3>2, ToldKeeps DEF Verdict
  <2>2. CASE ~TwoSlots
    <3>1. Told(r, gateway["primary"], "ok", "write")
      BY <1>2, <2>2
    <3>2. due[r] \subseteq got[r] \cup gateway["primary"]
      BY <1>1, <2>2
    <3> QED BY <1>1, <3>1, <3>2, ToldKeeps DEF Verdict
  <2> QED BY <2>1, <2>2
<1>3. CASE Told(r, {}, "error", "announce")
  BY <1>3, ToldKeeps DEF Verdict
<1> QED BY <1>2, <1>3 DEF AskPrimary

LEMMA AskSecondaryKeeps ==
  ASSUME IInv, NEW r \in Requests, AskSecondary(r)
  PROVE  IInv'
<1>1. TwoSlots /\ due[r] \subseteq got[r] \cup gateway["secondary"]
  BY DEF AskSecondary, IInv, FetchInv
<1>2. gateway["secondary"] \in SUBSET Execs
  BY <1>1 DEF IInv, TypeOK, Slots
<1>3. CASE Told(r, gateway["secondary"], "ok", "write")
  BY <1>1, <1>2, <1>3, ToldKeeps DEF Verdict
<1>4. CASE Told(r, {}, "partial", "write")
  BY <1>4, ToldKeeps DEF Verdict
<1> QED BY <1>3, <1>4 DEF AskSecondary

LEMMA WriteNothingKeeps ==
  ASSUME IInv, NEW r \in Requests, WriteNothing(r) \/ WriteFails(r) \/ WriteMissesTable(r)
  PROVE  IInv'
<1>1. CASE WriteNothing(r)
  <2>1. verdict[r] \in Verdict /\ pc[r] = "write"
    BY <1>1 DEF IInv, TypeOK, WriteNothing
  <2>2. verdict[r] = "ok" => due[r] \ Incomplete \subseteq Book
    BY <1>1, <2>1 DEF IInv, FetchInv, WriteNothing, Rows
  <2>3. Told(r, {}, verdict[r], "announce")
    BY <1>1 DEF WriteNothing
  <2> QED BY <2>1, <2>2, <2>3, ToldKeeps
<1>2. CASE WriteFails(r)
  <2>1. Told(r, {}, "error", "announce")
    BY <1>2 DEF WriteFails
  <2> QED BY <2>1, ToldKeeps DEF Verdict
<1>3. CASE WriteMissesTable(r)
  <2>1. Told(r, {}, "unstored", "announce")
    BY <1>3 DEF WriteMissesTable
  <2> QED BY <2>1, ToldKeeps DEF Verdict
<1> QED BY <1>1, <1>2, <1>3

LEMMA AnnounceKeeps ==
  ASSUME IInv, NEW r \in Requests, Announce(r)
  PROVE  IInv'
<1>1. pc' = [pc EXCEPT ![r] = "idle"] /\ got' = [got EXCEPT ![r] = {}]
      /\ verdict' = [verdict EXCEPT ![r] = "none"] /\ due' = [due EXCEPT ![r] = {}]
      /\ UNCHANGED <<gateway, raw, serial, deletes, pager>>
  BY DEF Announce
<1>2. RawInv' /\ Book' = Book /\ PageInv' /\ RepeatInv'
  BY <1>1, SameRaw, SamePages DEF IInv
<1>3. TypeOK'
  BY <1>1, <1>2 DEF IInv, TypeOK, FetchPhase, Verdict, pager
<1>4. FetchInv'
  BY <1>1, <1>2 DEF IInv, TypeOK, FetchInv, Reported
<1> QED BY <1>2, <1>3, <1>4 DEF IInv

-----------------------------------------------------------------------------
\* Rows are taken away.

LEMMA DeleteKeeps ==
  ASSUME IInv, NEW s \in Source, NEW e \in Execs, DeleteExecution(s, e)
  PROVE  IInv'
<1>1. /\ raw[s][e] > 0 /\ deletes < MaxDeletes /\ deletes' = deletes + 1
      /\ raw' = [raw EXCEPT ![s][e] = 0] /\ removed' = TRUE
      /\ due' = [r \in Requests |-> due[r] \cap (Book' \cup (Execs \ {e}))]
      /\ there' = there \cap Book'
      /\ steady' = {g \in steady : g \in Book' /\ IdIn(raw', g) = IdIn(raw, g)}
      /\ UNCHANGED <<gateway, serial, pc, got, verdict, paging, cursor, shown>>
  BY DEF DeleteExecution, Witness, Book
<1>2. raw' \in [Source -> [Execs -> Nat]]
      /\ \A t \in Source, g \in Execs :
             raw'[t][g] = IF t = s /\ g = e THEN 0 ELSE raw[t][g]
  BY <1>1 DEF IInv, TypeOK
<1>3. Book \ {e} \subseteq Book' /\ Book' \subseteq Book
  BY <1>2 DEF Book, BookOf
<1>4. TypeOK'
  <2>1. deletes' \in 0 .. MaxDeletes
    BY <1>1, SizesAssumption DEF IInv, TypeOK
  <2>2. due' \in [Requests -> SUBSET Execs]
    BY <1>1 DEF IInv, TypeOK
  <2>3. \A t \in Source, g \in Execs : raw'[t][g] <= serial'[t]
    BY <1>1, <1>2 DEF IInv, TypeOK
  <2>4. steady' \subseteq there' /\ there' \subseteq Book' /\ removed' \in BOOLEAN
    BY <1>1 DEF IInv, TypeOK
  <2> QED BY <1>1, <1>2, <2>1, <2>2, <2>3, <2>4 DEF IInv, TypeOK
<1>5. RawInv'
  <2>1. \A t \in Source, g, h \in Execs : (raw'[t][g] > 0 /\ raw'[t][g] = raw'[t][h]) => g = h
    BY <1>2 DEF IInv, RawInv
  <2>2. ASSUME NEW t \in Source
        PROVE  serial'[t] <= Cardinality(RowsOf(t)') + deletes'
    <3>1. RowsOf(t) \in SUBSET Execs /\ deletes \in Nat /\ serial[t] \in Nat
          /\ serial[t] <= Cardinality(RowsOf(t)) + deletes
      BY DEF RowsOf, IInv, TypeOK, RawInv
    <3>2. IsFiniteSet(RowsOf(t)) /\ Cardinality(RowsOf(t)) \in Nat
      BY <3>1, FillsAssumption, FS_Subset, FS_CardinalityType
    <3>3. CASE t # s
      <4>1. RowsOf(t)' = RowsOf(t)
        BY <1>2, <3>3 DEF RowsOf
      <4> QED BY <1>1, <3>1, <3>2, <4>1
    <3>4. CASE t = s
      <4>1. RowsOf(t)' = RowsOf(t) \ {e} /\ e \in RowsOf(t)
        BY <1>1, <1>2, <3>4 DEF RowsOf
      <4>2. Cardinality(RowsOf(t) \ {e}) = Cardinality(RowsOf(t)) - 1
        BY <3>2, <4>1, FS_RemoveElement
      <4> QED BY <1>1, <3>1, <3>2, <4>1, <4>2
    <3> QED BY <3>3, <3>4
  <2> QED BY <2>1, <2>2 DEF RawInv
<1>6. FetchInv'
  <2>1. \A r \in Requests : due'[r] \subseteq due[r] /\ due'[r] \cap Book \subseteq Book'
    BY <1>1, <1>3
  <2>2. Reported' = Reported
    BY <1>1 DEF Reported
  <2> QED BY <1>1, <2>1, <2>2 DEF IInv, FetchInv
<1>7. PageInv'
  <2>1. \A g \in steady' : Key(g)' = Key(g) /\ g \in steady
    BY <1>1 DEF Key
  <2> QED BY <1>1, <2>1 DEF IInv, PageInv
<1>8. RepeatInv'
  BY <1>1 DEF RepeatInv
<1> QED BY <1>4, <1>5, <1>6, <1>7, <1>8 DEF IInv

-----------------------------------------------------------------------------
\* Pages of the book.

LEMMA SameBook ==
  ASSUME IInv, UNCHANGED <<gateway, raw, serial, deletes, fetch>>
  PROVE  /\ RawInv' /\ FetchInv' /\ Book' = Book
         /\ \A e \in Execs : Key(e)' = Key(e)
BY SameRaw DEF IInv, FetchInv, fetch, Reported, Key

\* What a page does to what was shown and to the cursor.
LEMMA PageTaken ==
  ASSUME IInv, NEW S \in SUBSET Book, NEW before \in [Execs -> Nat], TakePage(S, before)
  PROVE  /\ shown' \in [Execs -> Nat] /\ cursor' \in Nat \X Int
         /\ \A e \in Execs : shown'[e] =
                IF e \in FirstRows(S) THEN before[e] + 1 ELSE before[e]
         /\ paging' \in {"open", "done"}
         /\ paging' = "done" => FirstRows(S) = S
         /\ paging' = "open" =>
                /\ \E l \in S : cursor' = Key(l)
                /\ \A e \in S : e \in FirstRows(S) <=> ~Precedes(cursor', Key(e))
<1> DEFINE page == FirstRows(S)
<1>1. /\ shown' = [e \in Execs |-> IF e \in page THEN before[e] + 1 ELSE before[e]]
      /\ paging' = IF page = S THEN "done" ELSE "open"
      /\ \/ page = {} /\ cursor' = cursor
         \/ \E e \in page : /\ \A x \in page \ {e} : Precedes(Key(x), Key(e))
                            /\ cursor' = Key(e)
  BY DEF TakePage
<1>2. page \subseteq S /\ S \subseteq Execs
  BY FirstRowsAhead DEF Book, BookOf
<1>3. shown' \in [Execs -> Nat]
  BY <1>1
<1>4. cursor' \in Nat \X Int
  BY <1>1, <1>2, KeyType DEF IInv, TypeOK
<1>5. ASSUME paging' = "open"
      PROVE  /\ \E l \in S : cursor' = Key(l)
             /\ \A e \in S : e \in page <=> ~Precedes(cursor', Key(e))
  <2>1. page # {}
    BY <1>1, <1>5, PageNonempty DEF IInv
  <2>2. PICK l \in page : (\A x \in page \ {l} : Precedes(Key(x), Key(l))) /\ cursor' = Key(l)
    BY <1>1, <2>1
  <2>3. ASSUME NEW e \in page PROVE ~Precedes(Key(l), Key(e))
    <3>1. Key(e) \in Nat \X Int /\ Key(l) \in Nat \X Int
      BY <1>2, KeyType DEF IInv
    <3> QED BY <2>2, <3>1, PrecedesOrder
  <2>4. ASSUME NEW e \in S \ page PROVE Precedes(Key(l), Key(e))
    BY PageClosed DEF IInv
  <2> QED BY <1>2, <2>2, <2>3, <2>4
<1>6. \A e \in Execs : shown'[e] = IF e \in page THEN before[e] + 1 ELSE before[e]
  BY <1>1
<1> QED BY <1>1, <1>3, <1>4, <1>5, <1>6

LEMMA FirstPageKeeps ==
  ASSUME IInv, FirstPage
  PROVE  IInv'
<1> DEFINE none == [e \in Execs |-> 0]
<1>1. TakePage(Book, none) /\ there' = Book /\ steady' = Book /\ removed' = FALSE
      /\ UNCHANGED <<gateway, raw, serial, deletes, fetch>>
  BY DEF FirstPage, TakePage
<1>2. none \in [Execs -> Nat]
  OBVIOUS
<1>3. RawInv' /\ FetchInv' /\ Book' = Book /\ \A e \in Execs : Key(e)' = Key(e)
  BY <1>1, SameBook
<1>4. /\ shown' \in [Execs -> Nat] /\ cursor' \in Nat \X Int /\ paging' \in {"open", "done"}
      /\ \A e \in Execs : shown'[e] = IF e \in FirstRows(Book) THEN 1 ELSE 0
      /\ paging' = "done" => FirstRows(Book) = Book
      /\ paging' = "open" => \A e \in Book : e \in FirstRows(Book) <=> ~Precedes(cursor', Key(e))
  BY <1>1, <1>2, PageTaken
<1>5. Book \subseteq Execs /\ FirstRows(Book) \subseteq Book
  BY FirstRowsAhead DEF Book, BookOf
<1>6. TypeOK'
  BY <1>1, <1>3, <1>4 DEF IInv, TypeOK, fetch
<1>7. PageInv'
  BY <1>1, <1>3, <1>4, <1>5 DEF PageInv
<1>8. RepeatInv'
  BY <1>3, <1>4, <1>5 DEF RepeatInv
<1> QED BY <1>3, <1>6, <1>7, <1>8 DEF IInv

LEMMA NextPageKeeps ==
  ASSUME IInv, NextPage
  PROVE  IInv'
<1> DEFINE S == {e \in Book : Precedes(cursor, Key(e))}
<1>1. paging = "open" /\ TakePage(S, shown) /\ UNCHANGED <<there, steady, removed>>
      /\ UNCHANGED <<gateway, raw, serial, deletes, fetch>>
  BY DEF NextPage, TakePage
<1>2. shown \in [Execs -> Nat] /\ cursor \in Nat \X Int /\ steady \subseteq Book
      /\ Book \subseteq Execs /\ S \subseteq Book
  BY DEF IInv, TypeOK, Book, BookOf
<1>3. RawInv' /\ FetchInv' /\ Book' = Book /\ \A e \in Execs : Key(e)' = Key(e)
  BY <1>1, SameBook
<1>4. /\ shown' \in [Execs -> Nat] /\ cursor' \in Nat \X Int /\ paging' \in {"open", "done"}
      /\ \A e \in Execs : shown'[e] = IF e \in FirstRows(S) THEN shown[e] + 1 ELSE shown[e]
      /\ paging' = "done" => FirstRows(S) = S
      /\ paging' = "open" =>
             /\ \E l \in S : cursor' = Key(l)
             /\ \A e \in S : e \in FirstRows(S) <=> ~Precedes(cursor', Key(e))
  BY <1>1, <1>2, PageTaken
<1>5. FirstRows(S) \subseteq S
  BY FirstRowsAhead
\* The cursor moves on: what it had passed, it has passed still.
<1>6. ASSUME paging' = "open", NEW e \in Book, ~Precedes(cursor, Key(e))
      PROVE  ~Precedes(cursor', Key(e))
  <2>1. PICK l \in S : cursor' = Key(l)
    BY <1>4, <1>6
  <2>2. Precedes(cursor, Key(l)) /\ Key(l) \in Nat \X Int /\ Key(e) \in Nat \X Int
    BY <1>2, KeyType DEF IInv
  <2> QED BY <1>2, <1>6, <2>1, <2>2, PrecedesOrder
<1>7. TypeOK'
  BY <1>1, <1>3, <1>4 DEF IInv, TypeOK, fetch
<1>8. PageInv'
  <2>1. \A e \in steady : shown[e] = IF Precedes(cursor, Key(e)) THEN 0 ELSE 1
    BY <1>1 DEF IInv, PageInv
  <2>2. ASSUME NEW e \in steady
        PROVE  /\ paging' = "done" => shown'[e] = 1
               /\ paging' = "open" => shown'[e] = IF Precedes(cursor', Key(e)) THEN 0 ELSE 1
    <3>1. CASE Precedes(cursor, Key(e))
      <4>1. e \in S /\ e \in Execs /\ shown[e] = 0
        BY <1>2, <2>1, <3>1
      <4>2. shown'[e] = IF e \in FirstRows(S) THEN 1 ELSE 0
        BY <1>4, <4>1
      <4>3. paging' = "done" => e \in FirstRows(S)
        BY <1>4, <4>1
      <4>4. paging' = "open" => (e \in FirstRows(S) <=> ~Precedes(cursor', Key(e)))
        BY <1>4, <4>1
      <4> HIDE DEF S
      <4> QED BY <4>2, <4>3, <4>4
    <3>2. CASE ~Precedes(cursor, Key(e))
      <4>1. e \notin FirstRows(S) /\ shown'[e] = 1
        BY <1>2, <1>4, <1>5, <2>1, <3>2
      <4> QED BY <1>2, <1>6, <3>2, <4>1
    <3> QED BY <3>1, <3>2
  <2> QED BY <1>1, <1>2, <1>3, <2>2 DEF PageInv
<1>9. RepeatInv'
  <2> SUFFICES ASSUME ~removed, NEW e \in Execs
               PROVE  /\ shown'[e] <= 1
                      /\ shown'[e] # 0 =>
                            e \in Book /\ (paging' = "open" => ~Precedes(cursor', Key(e)))
    BY <1>1, <1>3 DEF RepeatInv
  <2>1. /\ shown[e] <= 1 /\ shown[e] \in Nat
        /\ shown[e] # 0 => e \in Book /\ ~Precedes(cursor, Key(e))
    BY <1>1, <1>2 DEF IInv, RepeatInv
  <2>2. CASE e \in FirstRows(S)
    BY <1>4, <1>5, <2>1, <2>2
  <2>3. CASE e \notin FirstRows(S)
    BY <1>4, <1>6, <2>1, <2>3
  <2> QED BY <2>2, <2>3
<1> QED BY <1>3, <1>7, <1>8, <1>9 DEF IInv

LEMMA LeaveKeeps ==
  ASSUME IInv, Leave
  PROVE  IInv'
<1>1. /\ paging' = "idle" /\ cursor' = <<0, 0>> /\ shown' = [e \in Execs |-> 0]
      /\ there' = {} /\ steady' = {} /\ removed' = FALSE
      /\ UNCHANGED <<gateway, raw, serial, deletes, fetch>>
  BY DEF Leave
<1>2. RawInv' /\ FetchInv' /\ Book' = Book
  BY <1>1, SameBook
<1>3. TypeOK'
  <2>1. shown' \in [Execs -> Nat]
    <3>1. [e \in Execs |-> 0] \in [Execs -> Nat]
      OBVIOUS
    <3> QED BY <1>1, <3>1
  <2>2. cursor' \in Nat \X Int
    <3>1. <<0, 0>> \in Nat \X Int
      OBVIOUS
    <3> QED BY <1>1, <3>1
  <2>3. steady' \subseteq there' /\ there' \subseteq Book'
    BY <1>1
  <2>4. \A s \in Source, e \in Execs : raw'[s][e] <= serial'[s]
    BY <1>1 DEF IInv, TypeOK
  <2>5. paging' \in {"idle", "open", "done"} /\ removed' \in BOOLEAN
    BY <1>1
  <2> QED BY <1>1, <2>1, <2>2, <2>3, <2>4, <2>5 DEF IInv, TypeOK, fetch
<1>4. PageInv' /\ RepeatInv'
  BY <1>1 DEF PageInv, RepeatInv
<1> QED BY <1>2, <1>3, <1>4 DEF IInv

-----------------------------------------------------------------------------
LEMMA StepKeeps == IInv /\ [Next]_vars => IInv'
<1> SUFFICES ASSUME IInv, [Next]_vars PROVE IInv'
  OBVIOUS
<1>1. CASE UNCHANGED vars
  <2>1. RawInv' /\ Book' = Book /\ PageInv' /\ RepeatInv'
    BY <1>1, SameRaw, SamePages DEF IInv, vars
  <2>2. TypeOK' /\ FetchInv'
    BY <1>1, <2>1 DEF vars, fetch, pager, IInv, TypeOK, FetchInv, Reported
  <2> QED BY <2>1, <2>2 DEF IInv
<1>2. CASE \E s \in Slots, e \in Execs \ Manual : Trade(s, e) \/ Rollover(s, e)
  BY <1>2, TradeKeeps, RolloverKeeps
<1>3. CASE \E e \in Execs : Confirm(e) \/ PostExecution(e)
  BY <1>3, ConfirmKeeps, PostKeeps
<1>4. CASE \E s \in Source, e \in Execs : DeleteExecution(s, e)
  BY <1>4, DeleteKeeps
<1>5. ASSUME NEW r \in Requests, Fetch(r) PROVE IInv'
  BY <1>5, ArriveKeeps, AskPrimaryKeeps, AskSecondaryKeeps, WriteNothingKeeps, WriteKeeps,
     AnnounceKeeps DEF Fetch
<1>6. CASE FirstPage \/ NextPage \/ Leave
  BY <1>6, FirstPageKeeps, NextPageKeeps, LeaveKeeps
<1> QED BY <1>1, <1>2, <1>3, <1>4, <1>5, <1>6 DEF Next

LEMMA Invariant == Spec => []IInv
  BY InitHolds, StepKeeps, PTL DEF Spec

\* The book, the fetches and the pages keep their types.
THEOREM TypeCorrect == Spec => []TypeOK
<1>1. IInv => TypeOK
  BY DEF IInv
<1> QED BY <1>1, Invariant, PTL

\* A fetch answered 200 with neither secondary_error nor tws_raw_missing_table
\* has stored every complete fill both slots went on reporting, whatever other
\* fetches do.
THEOREM NothingForgotten == Spec => []OkMeansStored
<1>1. IInv => OkMeansStored
  BY DEF IInv, FetchInv, OkMeansStored
<1> QED BY <1>1, Invariant, PTL

\* Pages of any size show every fill that stays under its id exactly once.
THEOREM CompletePages == Spec => []PagesComplete
<1>1. IInv => PagesComplete
  BY DEF IInv, PageInv, PagesComplete
<1> QED BY <1>1, Invariant, PTL

\* No fill is shown twice while rows are only added.
THEOREM NoRepeats == Spec => []NoRowRepeated
<1>1. IInv => NoRowRepeated
  BY DEF IInv, RepeatInv, NoRowRepeated
<1> QED BY <1>1, Invariant, PTL

-----------------------------------------------------------------------------
(* The routes of the account application. *)

ReadOnly == {"read", "static"}
Doings == ReadOnly \cup Moves \cup {"create", "patch", "upsert", "put", "replace", "set", "delete"}
HandlerFields ==
    {"method", "path", "body", "needs", "alias", "skips", "splits", "typed", "does", "says"}

\* What a writer's outcomes may be told as: never as done, and its failures
\* never as a refusal.
WriteSays(says) ==
    /\ \A o \in DOMAIN says : says[o] \in 400 .. 599
    /\ \A o \in Failures \cap DOMAIN says : says[o] \in {500, 503}

\* What a reader's may be told as: only a row that is not there as one that is
\* not, or as none.
ReadSays(says) == \A o \in DOMAIN says \ {"none", "missing"} : says[o] \notin {200, 404}

\* A handler that does this to the row, and tells its outcomes apart.
Is(h, does) ==
    /\ DOMAIN h = HandlerFields /\ h.does = does /\ does \in Doings
    /\ does \notin ReadOnly => WriteSays(h.says) /\ ~h.splits
    /\ does = "read" => ReadSays(h.says)
    /\ does = "replace" => ~h.skips /\ h.alias = "none"

LEMMA HandlerIs ==
  ASSUME NEW does, NEW says
  PROVE  LET h == Handler(does, says) IN
         /\ DOMAIN h = HandlerFields /\ h.does = does /\ h.says = says
         /\ ~h.splits /\ ~h.skips /\ h.alias = "none"
BY DEF Handler, HandlerFields

\* Fields that what a handler is does not depend on.
LEMMA SameKind ==
  ASSUME NEW h, NEW does, Is(h, does), NEW g, DOMAIN g = HandlerFields,
         \A f \in {"does", "says", "splits", "skips", "alias"} : g[f] = h[f]
  PROVE  Is(g, does)
BY DEF Is

LEMMA Derived1 ==
  ASSUME NEW h, NEW does, Is(h, does), NEW x
  PROVE  /\ Is(Get(h), does) /\ Is(At(h, x), does) /\ Is(Typed(h), does) /\ Is(Needs(h, x), does)
         /\ does # "replace" => Is(Aliased(h, x), does) /\ Is(Skipping(h), does)
<1>1. DOMAIN h = HandlerFields
  BY DEF Is
<1>2. Is(Get(h), does)
  BY <1>1, SameKind DEF Get, HandlerFields
<1>3. Is(At(h, x), does)
  BY <1>1, SameKind DEF At, HandlerFields
<1>4. Is(Typed(h), does)
  BY <1>1, SameKind DEF Typed, HandlerFields
<1>5. Is(Needs(h, x), does)
  BY <1>1, SameKind DEF Needs, HandlerFields
<1>6. ASSUME does # "replace"  PROVE Is(Aliased(h, x), does)
  <2>. DEFINE g == Aliased(h, x)
  <2>1. DOMAIN g = HandlerFields /\ g.does = h.does /\ g.says = h.says /\ g.splits = h.splits
    BY <1>1 DEF HandlerFields, Aliased, Skipping
  <2>. QED  BY <1>6, <2>1 DEF Is
<1>7. ASSUME does # "replace"  PROVE Is(Skipping(h), does)
  <2>. DEFINE g == Skipping(h)
  <2>1. DOMAIN g = HandlerFields /\ g.does = h.does /\ g.says = h.says /\ g.splits = h.splits
    BY <1>1 DEF HandlerFields, Aliased, Skipping
  <2>. QED  BY <1>7, <2>1 DEF Is
<1>. QED  BY <1>2, <1>3, <1>4, <1>5, <1>6, <1>7

LEMMA Writer ==
  ASSUME NEW says, WriteSays(says), NEW does \in Doings \ ReadOnly
  PROVE  /\ Is(Handler(does, says), does) /\ Is(Post(does, says), does)
         /\ Is(Put(does, says), does) /\ Is(PostCore(does, says), does)
<1>1. Is(Handler(does, says), does) /\ DOMAIN Handler(does, says) = HandlerFields
  BY HandlerIs DEF Is, ReadOnly
<1>2. Is(Post(does, says), does)
  BY <1>1, SameKind DEF Post, HandlerFields
<1>3. Is(Put(does, says), does)
  BY <1>1, SameKind DEF Put, HandlerFields
<1>4. Is(PostCore(does, says), does)
  BY <1>1, SameKind DEF PostCore, HandlerFields
<1>. QED  BY <1>1, <1>2, <1>3, <1>4

LEMMA Readers ==
  /\ Is(List, "read") /\ Is(One, "read") /\ Is(Static, "static") /\ Is(Ranged, "read")
  /\ Is(Caught(200), "read") /\ Is(Caught(404), "read") /\ Is(LinkRead, "read")
  /\ Is(LinkQuery, "read")
<1>1. ASSUME NEW says, ReadSays(says)  PROVE Is(Handler("read", says), "read")
  BY <1>1, HandlerIs DEF Is, Doings, ReadOnly
<1>2. ASSUME NEW none  PROVE Is(Reader(none), "read")
  <2>1. ReadSays([none |-> none, down |-> 503, broken |-> 503])
    BY DEF ReadSays
  <2>. QED  BY <1>1, <2>1 DEF Reader, Unreadable
<1>3. ASSUME NEW none  PROVE Is(Caught(none), "read")
  <2>1. ReadSays([none |-> none, down |-> 500, broken |-> 500])
    BY DEF ReadSays
  <2>. QED  BY <1>1, <2>1 DEF Caught
<1>4. Is(Ranged, "read")
  <2>1. ReadSays([none |-> 200, invalid |-> 400, down |-> 503, broken |-> 503])
    BY DEF ReadSays
  <2>. QED  BY <1>1, <2>1 DEF Ranged, Unreadable
<1>5. Is(LinkRead, "read")
  <2>1. ReadSays([none |-> 200, missing |-> 404, conflict |-> 409, invalid |-> 400, down |-> 503, broken |-> 500])
    BY DEF ReadSays
  <2>. QED  BY <1>1, <2>1 DEF LinkRead
<1>6. Is(Static, "static")
  BY HandlerIs DEF Static, Is, Doings, ReadOnly
<1>7. Is(LinkQuery, "read")
  <2>1. DOMAIN LinkRead = HandlerFields
    BY <1>5 DEF Is
  <2>. QED  BY <1>5, <2>1, SameKind DEF LinkQuery, HandlerFields
<1>. QED  BY <1>2, <1>3, <1>4, <1>5, <1>6, <1>7 DEF List, One

LEMMA Writers ==
  /\ Is(Patch, "patch") /\ Is(Delete, "delete") /\ Is(Create, "create")
  /\ Is(Edit("upsert"), "upsert")
  /\ Is(Post("create", Strict), "create") /\ Is(PostCore("create", OrRaised), "create")
  /\ Is(PostCore("create", OrNothing), "create")
  /\ Is(Put("set", Plain), "set") /\ Is(Put("put", Strict), "put") /\ Is(Post("put", OrNothing), "put")
  /\ Is(Put("upsert", Strict), "upsert") /\ Is(Post("upsert", Strict), "upsert")
  /\ Is(Handler("intended", PlanMove), "intended") /\ Is(PostCore("filled", PlanMove), "filled")
  /\ Is(Handler("cancelled", PlanMove), "cancelled")
<1>1. WriteSays(Strict) /\ WriteSays(Plain) /\ WriteSays(OrNothing) /\ WriteSays(OrRaised)
      /\ WriteSays(PlanMove)
  BY DEF WriteSays, Strict, Plain, OrNothing, OrRaised, PlanMove, Failures
<1>2. {"create", "patch", "upsert", "put", "set", "delete", "intended", "filled", "cancelled"}
        \subseteq Doings \ ReadOnly
  BY DEF Doings, ReadOnly, Moves
<1>3. ASSUME NEW does \in Doings \ ReadOnly  PROVE Is(Edit(does), does)
  <2>1. Is(Handler(does, Strict), does) /\ DOMAIN Handler(does, Strict) = HandlerFields
    BY <1>1, Writer, HandlerIs
  <2>. QED  BY <2>1, SameKind DEF Edit, HandlerFields
<1>5. Is(Patch, "patch") /\ Is(Edit("upsert"), "upsert")
  BY <1>2, <1>3 DEF Patch
<1>6. Is(Delete, "delete")
  <2>1. Is(Handler("delete", Strict), "delete") /\ DOMAIN Handler("delete", Strict) = HandlerFields
    BY <1>1, <1>2, Writer, HandlerIs
  <2>. QED  BY <2>1, SameKind DEF Delete, HandlerFields
<1>8. Is(Create, "create") /\ Is(Post("create", Strict), "create")
  BY <1>1, <1>2, Writer DEF Create
<1>9. Is(PostCore("create", OrRaised), "create") /\ Is(PostCore("create", OrNothing), "create")
  BY <1>1, <1>2, Writer
<1>10. Is(Put("set", Plain), "set") /\ Is(Put("put", Strict), "put") /\ Is(Post("put", OrNothing), "put")
  BY <1>1, <1>2, Writer
<1>11. Is(Put("upsert", Strict), "upsert") /\ Is(Post("upsert", Strict), "upsert")
  BY <1>1, <1>2, Writer
<1>12. /\ Is(Handler("intended", PlanMove), "intended") /\ Is(PostCore("filled", PlanMove), "filled")
       /\ Is(Handler("cancelled", PlanMove), "cancelled")
  BY <1>1, <1>2, Writer
<1>. QED  BY <1>5, <1>6, <1>8, <1>9, <1>10, <1>11, <1>12

\* The handlers a table is made of, besides those above.
LEMMA ReadHandlers ==
  /\ Is(Get(List), "read") /\ Is(Typed(Get(List)), "read") /\ Is(At(List, "win-rate"), "read")
  /\ Is(Get(One), "read") /\ Is(Typed(Get(One)), "read") /\ Is(Get(Static), "static")
  /\ Is(Get(Caught(200)), "read") /\ Is(Typed(Get(Caught(200))), "read") /\ Is(Typed(Get(Caught(404))), "read")
  /\ Is(Get(Ranged), "read") /\ Is(Typed(At(Ranged, "trades")), "read")
  /\ Is(At(Ranged, "performance"), "read") /\ Is(At(Ranged, "transactions"), "read")
  /\ Is(Get(LinkRead), "read") /\ Is(At(LinkRead, "stock-link-candidates"), "read")
  /\ Is(Needs(LinkQuery, "value"), "read")
<1>1. Is(Get(List), "read") /\ Is(Typed(Get(List)), "read") /\ Is(At(List, "win-rate"), "read")
  BY Readers, Derived1
<1>2. Is(Get(One), "read") /\ Is(Typed(Get(One)), "read") /\ Is(Get(Static), "static")
  BY Readers, Derived1
<1>3. Is(Get(Caught(200)), "read") /\ Is(Get(Caught(404)), "read")
  BY ZenonT(40), Readers, Derived1
<1>4. Is(Typed(Get(Caught(200))), "read") /\ Is(Typed(Get(Caught(404))), "read")
  BY <1>3, Derived1
<1>5. Is(Get(Ranged), "read") /\ Is(At(Ranged, "trades"), "read")
  BY Readers, Derived1
<1>6. Is(Typed(At(Ranged, "trades")), "read")
  BY <1>5, Derived1
<1>7. Is(At(Ranged, "performance"), "read") /\ Is(At(Ranged, "transactions"), "read")
  BY Readers, Derived1
<1>8. /\ Is(Get(LinkRead), "read") /\ Is(At(LinkRead, "stock-link-candidates"), "read")
      /\ Is(Needs(LinkQuery, "value"), "read")
  BY Readers, Derived1
<1>. QED  BY <1>1, <1>2, <1>3, <1>4, <1>5, <1>6, <1>7, <1>8

LEMMA WriteHandlers ==
  /\ Is(Typed(Patch), "patch") /\ Is(Needs(Create, "text"), "create")
  /\ Is(Needs(Put("set", Plain), "value"), "set") /\ Is(Needs(Put("upsert", Strict), "sent"), "upsert")
  /\ Is(Aliased(PostCore("create", OrNothing), "unless_null"), "create")
  /\ Is(Aliased(Typed(Patch), "always"), "patch")
  /\ Is(Aliased(Post("put", OrNothing), "unless_null"), "put")
  /\ Is(Skipping(Post("upsert", Strict)), "upsert")
<1>1. Is(Typed(Patch), "patch") /\ Is(Needs(Create, "text"), "create")
  BY Writers, Derived1
<1>2. Is(Needs(Put("set", Plain), "value"), "set") /\ Is(Needs(Put("upsert", Strict), "sent"), "upsert")
  BY Writers, Derived1
<1>3. Is(Aliased(PostCore("create", OrNothing), "unless_null"), "create")
  <2>1. Is(PostCore("create", OrNothing), "create")
    BY Writers
  <2>. QED  BY <2>1, Derived1
<1>4. Is(Aliased(Typed(Patch), "always"), "patch")
  BY <1>1, Derived1
<1>5. Is(Aliased(Post("put", OrNothing), "unless_null"), "put")
  <2>1. Is(Post("put", OrNothing), "put")
    BY Writers
  <2>. QED  BY <2>1, Derived1
<1>6. Is(Skipping(Post("upsert", Strict)), "upsert")
  BY Writers, Derived1
<1>. QED  BY <1>1, <1>2, <1>3, <1>4, <1>5, <1>6

\* What the handlers of the tables do that are about no plan and replace no row.
SettledDoings == ReadOnly \cup {"create", "patch", "upsert", "put", "set", "delete"}
Settled(h) == Is(h, h.does) /\ h.does \in SettledDoings

LEMMA IsSettled ==
  ASSUME NEW h, NEW does \in SettledDoings, Is(h, does)
  PROVE  Settled(h)
BY DEF Is, Settled

LEMMA SettledReads ==
  /\ Settled(Get(List)) /\ Settled(Typed(Get(List))) /\ Settled(At(List, "win-rate"))
  /\ Settled(Get(One)) /\ Settled(Typed(Get(One))) /\ Settled(Get(Static))
  /\ Settled(Get(Caught(200))) /\ Settled(Get(Ranged)) /\ Settled(Typed(At(Ranged, "trades")))
  /\ Settled(At(Ranged, "performance")) /\ Settled(At(Ranged, "transactions"))
  /\ Settled(Get(LinkRead)) /\ Settled(At(LinkRead, "stock-link-candidates"))
  /\ Settled(Needs(LinkQuery, "value"))
<1>1. ASSUME NEW h, Is(h, "read") \/ Is(h, "static")  PROVE Settled(h)
  BY <1>1, IsSettled DEF SettledDoings, ReadOnly
<1>2. /\ Settled(Get(List)) /\ Settled(Typed(Get(List))) /\ Settled(At(List, "win-rate"))
      /\ Settled(Get(One)) /\ Settled(Typed(Get(One))) /\ Settled(Get(Static))
  BY <1>1, ReadHandlers
<1>3. Settled(Get(Caught(200))) /\ Settled(Get(Ranged)) /\ Settled(Typed(At(Ranged, "trades")))
  BY <1>1, ReadHandlers
<1>4. Settled(At(Ranged, "performance")) /\ Settled(At(Ranged, "transactions"))
  BY <1>1, ReadHandlers
<1>5. /\ Settled(Get(LinkRead)) /\ Settled(At(LinkRead, "stock-link-candidates"))
      /\ Settled(Needs(LinkQuery, "value"))
  BY <1>1, ReadHandlers
<1>. QED  BY <1>2, <1>3, <1>4, <1>5

LEMMA SettledWrites ==
  /\ Settled(Patch) /\ Settled(Typed(Patch)) /\ Settled(Edit("upsert")) /\ Settled(Delete)
  /\ Settled(Create) /\ Settled(Post("create", Strict)) /\ Settled(PostCore("create", OrRaised))
  /\ Settled(Needs(Create, "text")) /\ Settled(Put("set", Plain))
  /\ Settled(Needs(Put("set", Plain), "value")) /\ Settled(Put("put", Strict))
  /\ Settled(Needs(Put("upsert", Strict), "sent")) /\ Settled(Skipping(Post("upsert", Strict)))
  /\ Settled(Aliased(Post("put", OrNothing), "unless_null"))
<1>1. {"create", "patch", "upsert", "put", "set", "delete"} \subseteq SettledDoings
  BY DEF SettledDoings
<1>. QED  BY <1>1, Writers, WriteHandlers, IsSettled

LEMMA TemplatesAre == \A q \in DOMAIN Templates : Settled(Templates[q])
BY SettledReads, SettledWrites DEF Templates

LEMMA OpportunitiesAre == \A q \in DOMAIN Opportunities : Settled(Opportunities[q])
BY SettledReads, SettledWrites DEF Opportunities

LEMMA AllocationsAre == \A q \in DOMAIN Allocations : Settled(Allocations[q])
BY SettledReads, SettledWrites DEF Allocations

LEMMA TradesAre == \A q \in DOMAIN Trades : Settled(Trades[q])
BY SettledReads, SettledWrites DEF Trades

LEMMA ReviewsAre == \A q \in DOMAIN Reviews : Settled(Reviews[q])
BY SettledReads, SettledWrites DEF Reviews

LEMMA SavedSearchesAre == \A q \in DOMAIN SavedSearches : Settled(SavedSearches[q])
BY SettledReads, SettledWrites DEF SavedSearches

LEMMA CategoriesAre == \A q \in DOMAIN Categories : Settled(Categories[q])
BY SettledReads, SettledWrites DEF Categories

LEMMA TagsAre == \A q \in DOMAIN Tags : Settled(Tags[q])
BY SettledReads, SettledWrites DEF Tags

LEMMA SymbolOrdersAre == \A q \in DOMAIN SymbolOrders : Settled(SymbolOrders[q])
BY SettledReads, SettledWrites DEF SymbolOrders

LEMMA InstrumentClassesAre == \A q \in DOMAIN InstrumentClasses : Settled(InstrumentClasses[q])
BY SettledReads, SettledWrites DEF InstrumentClasses

LEMMA PositionsAre == \A q \in DOMAIN Positions : Settled(Positions[q])
BY SettledReads, SettledWrites DEF Positions

LEMMA LinksAre == \A q \in DOMAIN Links : Settled(Links[q])
BY SettledReads, SettledWrites DEF Links

LEMMA WatchlistAre == \A q \in DOMAIN Watchlist : Settled(Watchlist[q])
BY SettledReads, SettledWrites DEF Watchlist

-----------------------------------------------------------------------------
\* What the answers rest on, for the route q of the table t.
Route(t, q, h) ==
    /\ h.does \in Doings
    /\ h.does \notin ReadOnly => \A o \in DOMAIN h.says : h.says[o] \in 400 .. 599
    /\ h.does \notin ReadOnly /\ q \notin Blurred => WriteSays(h.says) /\ ~h.splits
    /\ h.does = "read" /\ q # "get_transactions_unlimited" => ReadSays(h.says)
    /\ h.does = "replace" => ~h.skips /\ h.alias = "none"
    /\ h.does \in Moves => t = "plans"
    /\ h.does \in {"put", "replace"} => t # "plans"

LEMMA RouteOf ==
  ASSUME NEW t, NEW q, NEW h, NEW does, Is(h, does),
         does \in Moves => t = "plans", does \in {"put", "replace"} => t # "plans"
  PROVE  Route(t, q, h)
BY DEF Is, Route, WriteSays, Settled, SettledDoings

LEMMA RouteOfSettled ==
  ASSUME NEW t, t # "plans", NEW q, NEW h, Settled(h)
  PROVE  Route(t, q, h)
BY RouteOf DEF Settled, SettledDoings, ReadOnly, Moves

\* A handler that blurs what failed still never tells a failure as done.
LEMMA RouteOfBlurred ==
  ASSUME NEW t, t # "plans", NEW q \in Blurred, NEW h, DOMAIN h = HandlerFields,
         h.does \in {"create", "patch", "replace"},
         \A o \in DOMAIN h.says : h.says[o] \in 400 .. 599,
         h.does = "replace" => ~h.skips /\ h.alias = "none"
  PROVE  Route(t, q, h)
BY DEF Route, Doings, ReadOnly, Moves

LEMMA StructuresAre == \A q \in DOMAIN Structures : Route("structures", q, Structures[q])
<1>. DEFINE h == Put("replace", OneNo)
<1>1. DOMAIN h = HandlerFields /\ h.does = "replace" /\ h.says = OneNo /\ ~h.skips /\ h.alias = "none"
  BY HandlerIs DEF Put, HandlerFields
<1>2. \A o \in DOMAIN OneNo : OneNo[o] \in 400 .. 599
  BY DEF OneNo
<1>3. Route("structures", "update_structure_endpoint", h)
  BY <1>1, <1>2, RouteOfBlurred DEF Blurred
<1>. HIDE DEF h
<1>4. ASSUME NEW q, NEW g, Settled(g)  PROVE Route("structures", q, g)
  BY <1>4, RouteOfSettled
<1>5. ASSUME NEW q \in DOMAIN Structures
      PROVE \/ q = "update_structure_endpoint" /\ Structures[q] = h
            \/ Settled(Structures[q])
  BY SettledReads, SettledWrites DEF Structures, h
<1>. QED  BY <1>3, <1>4, <1>5

LEMMA GateSetsAre == \A q \in DOMAIN GateSets : Route("gate_sets", q, GateSets[q])
<1>. DEFINE h == Needs(Put("replace", OneNo), "text")
<1>1. /\ DOMAIN Put("replace", OneNo) = HandlerFields /\ Put("replace", OneNo).does = "replace"
      /\ Put("replace", OneNo).says = OneNo /\ ~Put("replace", OneNo).skips
      /\ Put("replace", OneNo).alias = "none"
  BY HandlerIs DEF Put, HandlerFields
<1>2. DOMAIN h = HandlerFields /\ h.does = "replace" /\ h.says = OneNo /\ ~h.skips /\ h.alias = "none"
  BY <1>1 DEF Needs, HandlerFields
<1>3. \A o \in DOMAIN OneNo : OneNo[o] \in 400 .. 599
  BY DEF OneNo
<1>4. Route("gate_sets", "update_gate_safety_endpoint", h)
  BY <1>2, <1>3, RouteOfBlurred DEF Blurred
<1>. HIDE DEF h
<1>5. ASSUME NEW q, NEW g, Settled(g)  PROVE Route("gate_sets", q, g)
  BY <1>5, RouteOfSettled
<1>6. ASSUME NEW q \in DOMAIN GateSets
      PROVE \/ q = "update_gate_safety_endpoint" /\ GateSets[q] = h
            \/ Settled(GateSets[q])
  BY SettledReads, SettledWrites DEF GateSets, h
<1>. QED  BY <1>4, <1>5, <1>6

LEMMA FillsAre == \A q \in DOMAIN Fills : Route("fills", q, Fills[q])
<1>. DEFINE p == Put("patch", AllFalse)
            c == Post("create", AllNone)
            edit == Splitting(p)
            add == Splitting(Needs(c, "value"))
<1>1. DOMAIN p = HandlerFields /\ p.does = "patch" /\ p.says = AllFalse
  BY HandlerIs DEF Put, HandlerFields
<1>2. DOMAIN c = HandlerFields /\ c.does = "create" /\ c.says = AllNone
  BY HandlerIs DEF Post, HandlerFields
<1>3. DOMAIN edit = HandlerFields /\ edit.does = "patch" /\ edit.says = AllFalse
  <2>. HIDE DEF p
  <2>. QED  BY <1>1 DEF Splitting, HandlerFields
<1>4. DOMAIN add = HandlerFields /\ add.does = "create" /\ add.says = AllNone
  <2>. HIDE DEF c
  <2>. QED  BY <1>2 DEF Splitting, Needs, HandlerFields
<1>5. /\ \A o \in DOMAIN AllFalse : AllFalse[o] \in 400 .. 599
      /\ \A o \in DOMAIN AllNone : AllNone[o] \in 400 .. 599
  BY DEF AllFalse, AllNone
<1>6. Route("fills", "put_execution", edit)
  BY <1>3, <1>5, RouteOfBlurred DEF Blurred
<1>7. Route("fills", "post_execution", add)
  BY <1>4, <1>5, RouteOfBlurred DEF Blurred
<1>. HIDE DEF edit, add
<1>8. ASSUME NEW q, NEW g, Settled(g)  PROVE Route("fills", q, g)
  BY <1>8, RouteOfSettled
<1>9. ASSUME NEW q \in DOMAIN Fills
      PROVE \/ q = "put_execution" /\ Fills[q] = edit
            \/ q = "post_execution" /\ Fills[q] = add
            \/ Settled(Fills[q])
  BY SettledReads, SettledWrites DEF Fills, edit, add
<1>. QED  BY <1>6, <1>7, <1>8, <1>9

LEMMA FillReportsAre == \A q \in DOMAIN FillReports : Route("statements", q, FillReports[q])
<1>. DEFINE h == At(Lenient, "transactions")
<1>1. h.does = "read"
  <2>1. DOMAIN Lenient = HandlerFields /\ Lenient.does = "read"
    BY HandlerIs DEF Lenient
  <2>. QED  BY <2>1 DEF At, HandlerFields
<1>2. Route("statements", "get_transactions_unlimited", h)
  BY <1>1 DEF Route, Doings, ReadOnly, Moves
<1>. HIDE DEF h
<1>3. ASSUME NEW q, NEW g, Settled(g)  PROVE Route("statements", q, g)
  BY <1>3, RouteOfSettled
<1>4. ASSUME NEW q \in DOMAIN FillReports
      PROVE \/ q = "get_transactions_unlimited" /\ FillReports[q] = h
            \/ Settled(FillReports[q])
  BY SettledReads, SettledWrites DEF FillReports, h
<1>. QED  BY <1>2, <1>3, <1>4

LEMMA PlansAre == \A q \in DOMAIN Plans : Route("plans", q, Plans[q])
<1>1. ASSUME NEW q, NEW g, NEW does, does \notin {"put", "replace"}, Is(g, does)
      PROVE  Route("plans", q, g)
  BY <1>1, RouteOf
<1>2. ASSUME NEW q
      PROVE  /\ Route("plans", q, Typed(Get(Caught(200)))) /\ Route("plans", q, Typed(Get(Caught(404))))
             /\ Route("plans", q, Delete)
             /\ Route("plans", q, Aliased(PostCore("create", OrNothing), "unless_null"))
             /\ Route("plans", q, Aliased(Typed(Patch), "always"))
             /\ Route("plans", q, Handler("intended", PlanMove))
             /\ Route("plans", q, PostCore("filled", PlanMove))
             /\ Route("plans", q, Handler("cancelled", PlanMove))
  <2>1. Route("plans", q, Typed(Get(Caught(200)))) /\ Route("plans", q, Typed(Get(Caught(404))))
    BY <1>1, ReadHandlers
  <2>2. Route("plans", q, Delete)
    BY <1>1, Writers
  <2>3. /\ Route("plans", q, Aliased(PostCore("create", OrNothing), "unless_null"))
        /\ Route("plans", q, Aliased(Typed(Patch), "always"))
    BY <1>1, WriteHandlers
  <2>4. /\ Route("plans", q, Handler("intended", PlanMove))
        /\ Route("plans", q, PostCore("filled", PlanMove))
        /\ Route("plans", q, Handler("cancelled", PlanMove))
    BY <1>1, Writers
  <2>. QED  BY <2>1, <2>2, <2>3, <2>4
<1>. QED  BY <1>2 DEF Plans

\* Every route of every table.
LEMMA RoutesAre ==
  ASSUME NEW t \in DOMAIN Tables, NEW q \in DOMAIN Tables[t]
  PROVE  Route(t, q, Tables[t][q])
<1>1. ASSUME NEW S, NEW u, u # "plans", \A p \in DOMAIN S : Settled(S[p])
      PROVE  \A p \in DOMAIN S : Route(u, p, S[p])
  BY <1>1, RouteOfSettled
<1>2. CASE t \in {"templates", "opportunities", "allocations", "trades", "reviews", "searches"}
  <2>1. \A p \in DOMAIN Tables[t] : Settled(Tables[t][p])
    BY <1>2, TemplatesAre, OpportunitiesAre, AllocationsAre, TradesAre, ReviewsAre, SavedSearchesAre
       DEF Tables
  <2>. QED  BY <1>1, <1>2, <2>1
<1>3. CASE t \in {"categories", "tags", "orders", "classes", "book", "links", "watchlist"}
  <2>1. \A p \in DOMAIN Tables[t] : Settled(Tables[t][p])
    BY <1>3, CategoriesAre, TagsAre, SymbolOrdersAre, InstrumentClassesAre, PositionsAre, LinksAre,
       WatchlistAre
       DEF Tables
  <2>. QED  BY <1>1, <1>3, <2>1
<1>4. CASE t \in {"structures", "gate_sets", "plans", "fills", "statements"}
  BY <1>4, StructuresAre, GateSetsAre, PlansAre, FillsAre, FillReportsAre DEF Tables
<1>. QED  BY <1>2, <1>3, <1>4 DEF Tables

-----------------------------------------------------------------------------
(* One row under the requests of any callers. *)

\* What a field of a row, or of a body that is served, may hold.
Cell == Setting \cup {Wrong, "draft"} \cup Moves
Row == [Field -> Cell]

AppTypes ==
    /\ postgres \in BOOLEAN /\ table \in DOMAIN Tables
    /\ row \in Row /\ form \in [Callers -> Row]

\* Only the moves of a plan change a status.
OnlyPlansMove == row # Absent /\ table # "plans" => row["status"] = "draft"

AppInv == AppTypes /\ OnlyPlansMove

-----------------------------------------------------------------------------
\* A body is refused by its schema or holds settings under the names of its route.
LEMMA BodyOf ==
  ASSUME NEW h, NEW e \in Bodies(h)
  PROVE  \/ "gone" \in DOMAIN e
         \/ DOMAIN e = {"a"} /\ e["a"] = Wrong
         \/ /\ \A n \in DOMAIN e : e[n] \in Setting
            /\ DOMAIN e \subseteq {"a", "b"} \cup (IF h.alias # "none" THEN {"old"} ELSE {})
            /\ h.does \in Moves => DOMAIN e = {}
            /\ h.does = "set" => DOMAIN e \subseteq {"a"}
<1>. DEFINE text == IF h.skips \/ h.needs = "text" THEN Setting ELSE Setting \ {Blank}
            names == IF h.does \in Moves THEN {} ELSE IF h.does = "set" THEN {"a"}
                     ELSE {"a", "b"} \cup (IF h.alias # "none" THEN {"old"} ELSE {})
<1>1. \/ e = NoBody
      \/ \E s \in SUBSET names : e \in [s -> text]
      \/ e \in [{"a"} -> {Wrong}]
      \/ e \in [{"gone"} -> Values]
  <2>. DEFINE some == UNION {[s -> text] : s \in {s \in SUBSET names : Cardinality(s) <= 2}}
  <2>1. \/ e = NoBody
        \/ e \in some
        \/ e \in [{"a"} -> {Wrong}]
        \/ e \in [{"gone"} -> Values]
    <3>. HIDE DEF text, names
    <3>. QED  BY Zenon DEF Bodies, text, names
  <2>2. e \in some => \E s \in SUBSET names : e \in [s -> text]
    <3>. HIDE DEF text, names
    <3>. QED  OBVIOUS
  <2>. HIDE DEF text, names, some
  <2>. QED  BY <2>1, <2>2
<1>2. CASE e = NoBody
  BY <1>2 DEF NoBody
<1>3. ASSUME NEW s \in SUBSET names, e \in [s -> text]
      PROVE  /\ \A n \in DOMAIN e : e[n] \in Setting
             /\ DOMAIN e \subseteq {"a", "b"} \cup (IF h.alias # "none" THEN {"old"} ELSE {})
             /\ h.does \in Moves => DOMAIN e = {}
             /\ h.does = "set" => DOMAIN e \subseteq {"a"}
  <2>1. text \subseteq Setting
    OBVIOUS
  <2>2. DOMAIN e = s /\ \A n \in s : e[n] \in text
    BY <1>3
  <2>3. names \subseteq {"a", "b"} \cup (IF h.alias # "none" THEN {"old"} ELSE {})
    OBVIOUS
  <2>4. /\ h.does \in Moves => names = {}
        /\ h.does = "set" => names \subseteq {"a"}
    BY DEF Moves
  <2>. HIDE DEF text, names
  <2>. QED  BY <1>3, <2>1, <2>2, <2>3, <2>4
<1>4. CASE e \in [{"a"} -> {Wrong}]
  BY <1>4
<1>5. CASE e \in [{"gone"} -> Values]
  BY <1>5
<1>. HIDE DEF text, names
<1>. QED  BY <1>1, <1>2, <1>3, <1>4, <1>5

\* What bifrost_core is handed for a field is what the body has for it under one
\* of its names; only a route that skips leaves out what was sent.
LEMMA PayloadIs ==
  ASSUME NEW h, NEW b
  PROVE  LET p == Payload(h, b) IN
         /\ DOMAIN p \subseteq {"a", "b"}
         /\ \A f \in DOMAIN p : \E n \in DOMAIN b : FieldOf(n) = f /\ p[f] = b[n]
         /\ ~h.skips => \A n \in DOMAIN b : FieldOf(n) \in {"a", "b"} => FieldOf(n) \in DOMAIN p
         /\ "a" \in DOMAIN b /\ b["a"] \in Values => "a" \in DOMAIN p /\ p["a"] = b["a"]
<1>. DEFINE first == IF "a" \in DOMAIN b /\ (h.alias # "unless_null" \/ b["a"] # Null \/ "old" \notin DOMAIN b)
                     THEN {"a"} ELSE {"old"} \cap DOMAIN b
            kept == {n \in first \cup ({"b"} \cap DOMAIN b) :
                        h.skips => b[n] # Blank /\ (n = "b" => b[n] # Null)}
            given == {FieldOf(n) : n \in kept}
            name(f) == IF f = "a" /\ "a" \notin first THEN "old" ELSE f
            p == [f \in given |-> b[name(f)]]
<1>1. Payload(h, b) = p
  BY DEF Payload
<1>2. first \subseteq DOMAIN b /\ kept \subseteq DOMAIN b /\ kept \subseteq {"a", "b", "old"}
  OBVIOUS
<1>3. \A n \in kept : FieldOf(n) \in {"a", "b"} /\ name(FieldOf(n)) = n
  BY DEF FieldOf
<1>4. \A f \in given : \E n \in DOMAIN b : FieldOf(n) = f /\ p[f] = b[n]
  <2>. HIDE DEF kept, name
  <2>. QED  BY <1>2, <1>3
<1>5. given \subseteq {"a", "b"}
  <2>. HIDE DEF kept, name
  <2>. QED  BY <1>3
<1>6. ASSUME ~h.skips, NEW n \in DOMAIN b, FieldOf(n) \in {"a", "b"}  PROVE FieldOf(n) \in given
  <2>1. kept = first \cup ({"b"} \cap DOMAIN b)
    BY <1>6
  <2>2. CASE n = "b"
    BY <2>1, <2>2
  <2>3. CASE n \in {"a", "old"}
    <3>1. \E m \in first : FieldOf(m) = "a"
      BY <2>3 DEF FieldOf
    <3>. HIDE DEF first, kept
    <3>. QED  BY <2>1, <2>3, <3>1 DEF FieldOf
  <2>. QED  BY <1>6, <2>2, <2>3 DEF FieldOf
<1>7. ASSUME "a" \in DOMAIN b, b["a"] \in Values  PROVE "a" \in given /\ p["a"] = b["a"]
  <2>1. b["a"] # Null /\ b["a"] # Blank
    BY <1>7, ValuesAssumption
  <2>2. "a" \in first /\ "a" \in kept
    BY <1>7, <2>1
  <2>. HIDE DEF first, kept
  <2>. QED  BY <2>2 DEF FieldOf
<1>. HIDE DEF given, name
<1>. QED  BY ZenonT(40), <1>1, <1>4, <1>5, <1>6, <1>7

-----------------------------------------------------------------------------
\* A request is one of its caller, to a route of the table.
LEMMA RequestIs ==
  ASSUME AppTypes, NEW c \in Callers, NEW r \in Asks(c)
  PROVE  /\ r.by \in Callers /\ r.handler \in DOMAIN Handlers /\ r.edits \in Bodies(H(r))
         /\ Route(table, r.handler, H(r))
<1>1. PICK q \in DOMAIN Handlers : r \in [by : {c}, handler : {q}, edits : Bodies(Handlers[q])]
  BY DEF Asks
<1>2. r.by \in Callers /\ r.handler = q /\ r.edits \in Bodies(Handlers[q])
  BY <1>1
<1>3. Route(table, q, Tables[table][q])
  BY RoutesAre DEF AppTypes, Handlers
<1>. QED  BY <1>2, <1>3 DEF H, Handlers

\* The layers answer for retired names and for roles, before the body is read.
LEMMA RefusalsAre ==
  ASSUME NEW r, NEW code \in Refusals(r)
  PROVE  code \in {200, 400, 403, 422, 503} /\ (code = 200 => Parses(H(r), B(r)))
<1>1. PICK token \in Tokens, old \in BOOLEAN : code = Refusal(H(r), B(r), token, old)
  BY DEF Refusals
<1>2. Admit(H(r).method, H(r).path, token, old) \in {200, 403, 422}
  BY DEF Admit
<1>. QED  BY <1>1, <1>2 DEF Refusal

\* What a request that is served has sent.
LEMMA ServedIs ==
  ASSUME AppTypes, NEW c \in Callers, NEW r \in Asks(c), Served(r)
  PROVE  /\ \A n \in DOMAIN B(r) : B(r)[n] \in Cell
         /\ H(r).does # "replace" \/ form[r.by] = Absent => B(r) = r.edits
         /\ H(r).does = "replace" => DOMAIN r.edits \subseteq {"a", "b"}
         /\ H(r).does = "replace" /\ form[r.by] # Absent =>
                B(r) = [n \in {"a", "b"} |-> IF n \in DOMAIN r.edits THEN r.edits[n] ELSE form[r.by][n]]
         /\ H(r).does \in Moves => DOMAIN r.edits = {}
         /\ H(r).does = "set" => DOMAIN r.edits \subseteq {"a"}
<1>. DEFINE h == H(r)  e == r.edits
            whole == [n \in {"a", "b"} |-> IF n \in DOMAIN e THEN e[n] ELSE form[r.by][n]]
<1>1. r.by \in Callers /\ e \in Bodies(h) /\ (h.does = "replace" => h.alias = "none")
  BY RequestIs DEF Route
<1>2. Parses(h, B(r))
  BY RefusalsAre DEF Served
<1>3. B(r) = IF h.does = "replace" /\ form[r.by] # Absent /\ DOMAIN e \subseteq {"a", "b"} THEN whole ELSE e
  BY DEF B, Sends
<1>4. form[r.by] \in Row
  BY <1>1 DEF AppTypes
<1>. HIDE DEF h, e
<1>5. \/ "gone" \in DOMAIN e
      \/ DOMAIN e = {"a"} /\ e["a"] = Wrong
      \/ /\ \A n \in DOMAIN e : e[n] \in Setting
         /\ DOMAIN e \subseteq {"a", "b"} \cup (IF h.alias # "none" THEN {"old"} ELSE {})
         /\ h.does \in Moves => DOMAIN e = {}
         /\ h.does = "set" => DOMAIN e \subseteq {"a"}
  BY <1>1, BodyOf
<1>6. "gone" \notin DOMAIN e
  BY <1>2, <1>3 DEF Parses
<1>7. ~(DOMAIN e = {"a"} /\ e["a"] = Wrong)
  <2>1. ASSUME DOMAIN e = {"a"}, e["a"] = Wrong  PROVE "a" \in DOMAIN B(r) /\ B(r)["a"] = Wrong
    BY <1>3, <2>1
  <2>. QED  BY <1>2, <2>1 DEF Parses
<1>8. /\ \A n \in DOMAIN e : e[n] \in Setting
      /\ DOMAIN e \subseteq {"a", "b"} \cup (IF h.alias # "none" THEN {"old"} ELSE {})
      /\ h.does \in Moves => DOMAIN e = {}
      /\ h.does = "set" => DOMAIN e \subseteq {"a"}
  BY <1>5, <1>6, <1>7
<1>9. h.does = "replace" => DOMAIN e \subseteq {"a", "b"}
  BY <1>1, <1>8
<1>10. \A n \in DOMAIN B(r) : B(r)[n] \in Cell
  <2>1. \A n \in DOMAIN e : e[n] \in Cell
    BY <1>8 DEF Cell
  <2>2. \A n \in {"a", "b"} : form[r.by][n] \in Cell
    BY <1>4 DEF Row, Field
  <2>. QED  BY <1>3, <2>1, <2>2
<1>11. /\ h.does # "replace" \/ form[r.by] = Absent => B(r) = e
       /\ h.does = "replace" /\ form[r.by] # Absent => B(r) = whole
  BY <1>3, <1>9
<1>. QED  BY <1>8, <1>9, <1>10, <1>11 DEF h, e

\* What a call that is done leaves.
LEMMA WrittenIs ==
  ASSUME NEW h, h.does \in Doings \ ReadOnly, CanBeDone(h), NEW given
  PROVE  LET w == Written(h, given) IN
         \/ h.does = "delete" /\ w = Absent
         \/ h.does \in Moves /\ row # Absent /\ w = [row EXCEPT !["status"] = h.does]
         \/ h.does = "create" /\ row # Absent /\ w = row
         \/ /\ h.does = "set" /\ row # Absent
            /\ w = Over([f \in {"a"} |-> IF f \in DOMAIN given THEN given[f] ELSE Null], row)
         \/ /\ h.does \in {"patch", "upsert", "put", "replace", "create"}
            /\ \E base \in {row, Empty} :
                /\ w = Over(given, base) /\ (base = row => row # Absent)
                /\ h.does \in {"put", "replace"} => base = Empty
                /\ h.does \in {"patch", "upsert"} /\ row # Absent => base = row
                /\ h.does = "create" => row = Absent
<1>0. Empty # Absent
  <2>1. Empty["status"] = "draft" /\ Empty["a"] = Null /\ Absent["a"] = Wrong
    BY DEF Empty, Absent, Field
  <2>. QED  BY <2>1, ValuesAssumption
<1>1. CASE h.does = "delete"
  BY <1>1 DEF Written, Moves
<1>2. CASE h.does \in Moves
  BY <1>2 DEF Written, Moves, CanBeDone, OfARow
<1>3. CASE h.does = "create" /\ row # Absent
  BY <1>3 DEF Written
<1>4. CASE h.does = "create" /\ row = Absent
  <2>1. Written(h, given) = Over(given, Empty)
    BY <1>4 DEF Written
  <2>. QED  BY <1>0, <1>4, <2>1
<1>5. CASE h.does = "set"
  BY <1>5 DEF Written, CanBeDone, OfARow
<1>6. CASE h.does = "patch"
  <2>1. Written(h, given) = Over(given, row) /\ row # Absent
    BY <1>6 DEF Written, CanBeDone, OfARow
  <2>. QED  BY <1>6, <2>1
<1>7. CASE h.does \in {"put", "replace"}
  <2>1. Written(h, given) = Over(given, Empty)
    BY <1>7 DEF Written
  <2>. QED  BY <1>0, <1>7, <2>1
<1>8. CASE h.does = "upsert"
  <2>1. Written(h, given) = Over(given, IF row = Absent THEN Empty ELSE row)
    BY <1>8 DEF Written
  <2>. QED  BY <1>0, <1>8, <2>1
<1>. QED  BY <1>1, <1>2, <1>3, <1>4, <1>5, <1>6, <1>7, <1>8 DEF Doings, ReadOnly

-----------------------------------------------------------------------------
\* What a request that is served may do to the row: nothing, or what its handler writes.
LEMMA RowAfter ==
  ASSUME NEW r,
         Refused(r) \/ (Served(r) /\ (Found(r) \/ NotFound(r) \/ Done(r) \/ Denies(r) \/ Fails(r)))
  PROVE  \/ row' = row
         \/ /\ Served(r) /\ H(r).does \notin ReadOnly /\ CanBeDone(H(r)) /\ form' = form
            /\ row' = Written(H(r), Payload(H(r), B(r)))
BY DEF Refused, Found, NotFound, Done, Denies, Fails, Reads, Writes, ReadOnly

LEMMA AnswerIs ==
  ASSUME NEW r, NEW code, Answer(r, code)
  PROVE  /\ last'.by = r.by /\ last'.handler = r.handler /\ last'.edits = r.edits /\ last'.answer = code
         /\ H(last') = H(r) /\ Sends(last'.by, H(last'), last'.edits) = B(r)
<1>1. last'.by = r.by /\ last'.handler = r.handler /\ last'.edits = r.edits /\ last'.answer = code
  BY DEF Answer
<1>2. H(last') = H(r)
  BY <1>1 DEF H
<1>. QED  BY <1>1, <1>2 DEF B

\* Whatever the step, its request is the last one.
LEMMA LastIs ==
  ASSUME NEW r,
         Refused(r) \/ Found(r) \/ NotFound(r) \/ Done(r) \/ Denies(r) \/ Fails(r)
  PROVE  /\ last'.by = r.by /\ last'.handler = r.handler /\ last'.edits = r.edits
         /\ H(last') = H(r) /\ Sends(last'.by, H(last'), last'.edits) = B(r)
<1>1. \E code : Answer(r, code)
  BY DEF Refused, Found, NotFound, Done, Denies, Fails
<1>. QED  BY <1>1, AnswerIs

LEMMA Over1 ==
  ASSUME NEW given, NEW base \in Row, \A f \in DOMAIN given : given[f] \in Cell
  PROVE  Over(given, base) \in Row
BY DEF Over, Row

LEMMA Bases == Absent \in Row /\ Empty \in Row /\ Empty["status"] = "draft"
  /\ Empty["a"] = Null /\ Empty["b"] = Null
BY DEF Absent, Empty, Row, Cell, Field, Setting

\* What is written is a row again, and only a move changes its status.
LEMMA WrittenKeeps ==
  ASSUME AppInv, NEW c \in Callers, NEW r \in Asks(c), Served(r), H(r).does \notin ReadOnly,
         CanBeDone(H(r))
  PROVE  LET w == Written(H(r), Payload(H(r), B(r))) IN
         w \in Row /\ (w # Absent /\ table # "plans" => w["status"] = "draft")
<1>. DEFINE h == H(r)  p == Payload(h, B(r))  w == Written(h, p)
            list == [f \in {"a"} |-> IF f \in DOMAIN p THEN p[f] ELSE Null]
<1>1. h.does \in Doings \ ReadOnly /\ (h.does \in Moves => table = "plans")
  BY RequestIs DEF Route, AppInv
<1>2. row \in Row /\ (row # Absent /\ table # "plans" => row["status"] = "draft")
  BY DEF AppInv, AppTypes, OnlyPlansMove
<1>3. DOMAIN p \subseteq {"a", "b"} /\ \A f \in DOMAIN p : p[f] \in Cell
  <2>1. \A n \in DOMAIN B(r) : B(r)[n] \in Cell
    BY ServedIs DEF AppInv
  <2>. QED  BY <2>1, PayloadIs
<1>4. \/ h.does = "delete" /\ w = Absent
      \/ h.does \in Moves /\ row # Absent /\ w = [row EXCEPT !["status"] = h.does]
      \/ h.does = "create" /\ row # Absent /\ w = row
      \/ h.does = "set" /\ row # Absent /\ w = Over(list, row)
      \/ \E base \in {row, Empty} : w = Over(p, base) /\ (base = row => row # Absent)
  <2>. HIDE DEF h, p
  <2>1. CanBeDone(h)
    BY DEF h
  <2>. QED  BY <1>1, <2>1, WrittenIs
<1>. SUFFICES w \in Row /\ (w # Absent /\ table # "plans" => w["status"] = "draft")
  OBVIOUS
<1>. HIDE DEF h, p, w
<1>5. ASSUME NEW base \in Row, base["status"] = "draft" \/ table = "plans", NEW given,
             DOMAIN given \subseteq {"a", "b"}, \A f \in DOMAIN given : given[f] \in Cell
      PROVE  Over(given, base) \in Row /\ (table # "plans" => Over(given, base)["status"] = "draft")
  <2>1. Over(given, base) \in Row
    BY <1>5, Over1
  <2>2. Over(given, base)["status"] = base["status"]
    BY <1>5 DEF Over, Field
  <2>. QED  BY <1>5, <2>1, <2>2
<1>6. CASE h.does = "delete" /\ w = Absent
  BY <1>6, Bases
<1>7. CASE h.does \in Moves /\ row # Absent /\ w = [row EXCEPT !["status"] = h.does]
  BY <1>1, <1>2, <1>7 DEF Row, Cell, Field
<1>8. CASE h.does = "create" /\ row # Absent /\ w = row
  BY <1>2, <1>8
<1>9. CASE h.does = "set" /\ row # Absent /\ w = Over(list, row)
  <2>1. DOMAIN list = {"a"} /\ \A f \in DOMAIN list : list[f] \in Cell
    BY <1>3 DEF Cell, Setting
  <2>. HIDE DEF list
  <2>. QED  BY <1>2, <1>5, <1>9, <2>1
<1>10. CASE \E base \in {row, Empty} : w = Over(p, base) /\ (base = row => row # Absent)
  BY <1>2, <1>3, <1>5, <1>10, Bases
<1>. QED  BY <1>4, <1>6, <1>7, <1>8, <1>9, <1>10

LEMMA AppInitially == AppInit => AppInv
<1>. SUFFICES ASSUME AppInit  PROVE AppInv
  OBVIOUS
<1>1. AppTypes
  BY Bases DEF AppInit, AppTypes
<1>2. OnlyPlansMove
  BY Bases DEF AppInit, OnlyPlansMove
<1>. QED  BY <1>1, <1>2 DEF AppInv

LEMMA AppKeeps == AppInv /\ [AppNext]_appVars => AppInv'
<1>. SUFFICES ASSUME AppInv, [AppNext]_appVars  PROVE AppInv'
  OBVIOUS
<1>1. CASE UNCHANGED appVars
  BY <1>1 DEF AppInv, AppTypes, OnlyPlansMove, appVars
<1>2. ASSUME NEW c \in Callers, NEW r \in Asks(c),
             Refused(r) \/ (Served(r) /\ (Found(r) \/ NotFound(r) \/ Done(r) \/ Denies(r) \/ Fails(r)))
      PROVE  AppInv'
  <2>1. UNCHANGED <<postgres, table>>
    BY <1>2 DEF Refused, Found, NotFound, Done, Denies, Fails, Reads, Writes
  <2>2. row' \in Row /\ (row' # Absent /\ table # "plans" => row'["status"] = "draft")
    <3>1. CASE row' = row
      BY <3>1 DEF AppInv, AppTypes, OnlyPlansMove
    <3>2. CASE row' # row
      BY <1>2, <3>2, RowAfter, WrittenKeeps
    <3>. QED  BY <3>1, <3>2
  <2>3. form' = form \/ form' = [form EXCEPT ![r.by] = row]
    BY <1>2 DEF Refused, Found, NotFound, Done, Denies, Fails, Reads, Writes
  <2>4. form' \in [Callers -> Row]
    BY <2>3 DEF AppInv, AppTypes
  <2>. QED  BY <2>1, <2>2, <2>4 DEF AppInv, AppTypes, OnlyPlansMove
<1>. QED  BY <1>1, <1>2 DEF AppNext

-----------------------------------------------------------------------------
\* What was sent for a field is what is written, unless its route skips.
LEMMA SentIsWritten ==
  ASSUME NEW h, NEW b, NEW f \in {"a", "b"}, NEW base,
         ~h.skips
  PROVE  Sent(b, f) = {} \/ Over(Payload(h, b), base)[f] \in Sent(b, f)
<1>. DEFINE p == Payload(h, b)
<1>1. SUFFICES ASSUME Sent(b, f) # {}  PROVE Over(p, base)[f] \in Sent(b, f)
  OBVIOUS
<1>2. PICK n \in DOMAIN b : FieldOf(n) = f
  BY <1>1 DEF Sent
<1>3. f \in DOMAIN p
  BY <1>2, PayloadIs
<1>4. PICK m \in DOMAIN b : FieldOf(m) = f /\ p[f] = b[m]
  BY <1>3, PayloadIs
<1>5. Over(p, base)[f] = b[m]
  BY <1>3, <1>4 DEF Over, Field
<1>. QED  BY <1>4, <1>5 DEF Sent

LEMMA DoneIsWritten ==
  ASSUME AppInv, NEW c \in Callers, NEW r \in Asks(c), Served(r), Done(r),
         H(r).does # "delete", H(r).does = "create" => row = Absent, NEW f \in {"a", "b"}
  PROVE  /\ Sent(B(r), f) = {} \/ row'[f] \in Sent(B(r), f) \/ H(r).skips
         /\ "a" \in DOMAIN B(r) /\ B(r)["a"] \in Values => row'["a"] = B(r)["a"]
<1>. DEFINE h == H(r)  b == B(r)  p == Payload(h, b)
            list == [g \in {"a"} |-> IF g \in DOMAIN p THEN p[g] ELSE Null]
<1>1. h.does \in Doings \ ReadOnly /\ CanBeDone(h) /\ row' = Written(h, p)
  BY RequestIs DEF Done, Writes, ReadOnly, Route, AppInv
<1>2. /\ h.does # "replace" => b = r.edits
      /\ h.does \in Moves => DOMAIN r.edits = {}
      /\ h.does = "set" => DOMAIN r.edits \subseteq {"a"}
  BY ServedIs DEF AppInv
<1>3. h.does # "delete" /\ (h.does = "create" => row = Absent)
  OBVIOUS
<1>4. /\ DOMAIN p \subseteq {"a", "b"}
      /\ "a" \in DOMAIN b /\ b["a"] \in Values => "a" \in DOMAIN p /\ p["a"] = b["a"]
  <2>. HIDE DEF h, b
  <2>. QED  BY PayloadIs
<1>5. SUFFICES /\ Sent(b, f) = {} \/ row'[f] \in Sent(b, f) \/ h.skips
               /\ "a" \in DOMAIN b /\ b["a"] \in Values => row'["a"] = b["a"]
  OBVIOUS
<1>6. \/ h.does \in Moves
      \/ h.does = "set" /\ row' = Over(list, row)
      \/ \E base : row' = Over(p, base)
  <2>. HIDE DEF h, p
  <2>. QED  BY <1>1, <1>3, WrittenIs
<1>. HIDE DEF h, b
<1>7. CASE h.does \in Moves
  <2>1. DOMAIN b = {}
    BY <1>2, <1>7 DEF Moves
  <2>. QED  BY <2>1 DEF Sent
<1>8. ASSUME NEW base, row' = Over(p, base)
      PROVE  /\ Sent(b, f) = {} \/ row'[f] \in Sent(b, f) \/ h.skips
             /\ "a" \in DOMAIN b /\ b["a"] \in Values => row'["a"] = b["a"]
  <2>1. Sent(b, f) = {} \/ row'[f] \in Sent(b, f) \/ h.skips
    BY <1>8, SentIsWritten
  <2>. HIDE DEF p
  <2>2. "a" \in DOMAIN b /\ b["a"] \in Values => row'["a"] = b["a"]
    BY <1>4, <1>8 DEF Over, Field
  <2>. QED  BY <2>1, <2>2
<1>9. CASE h.does = "set" /\ row' = Over(list, row)
  <2>1. DOMAIN b \subseteq {"a"}
    BY <1>2, <1>9
  <2>2. CASE "a" \notin DOMAIN b
    BY <2>1, <2>2 DEF Sent
  <2>3. CASE "a" \in DOMAIN b
    <3>1. Sent(b, "b") = {}
      BY <2>1 DEF Sent, FieldOf
    <3>2. Over(list, row)["a"] = list["a"] /\ Over(p, row)["a"] = IF "a" \in DOMAIN p THEN p["a"] ELSE row["a"]
      BY DEF Over, Field
    <3>3. h.skips \/ "a" \in DOMAIN p
      <4>1. FieldOf("a") = "a"
        BY DEF FieldOf
      <4>. QED  BY <2>3, <4>1, PayloadIs
    <3>4. Sent(b, "a") = {} \/ Over(p, row)["a"] \in Sent(b, "a") \/ h.skips
      BY SentIsWritten
    <3>5. "a" \in DOMAIN p => list["a"] = p["a"]
      OBVIOUS
    <3>. HIDE DEF list, p
    <3>. QED  BY <1>4, <1>9, <3>1, <3>2, <3>3, <3>4, <3>5
  <2>. QED  BY <2>2, <2>3
<1>. QED  BY <1>6, <1>7, <1>8, <1>9

-----------------------------------------------------------------------------
\* A request is answered as done only if its call was.
LEMMA MatchingStep ==
  ASSUME AppInv, NEW c \in Callers, NEW r \in Asks(c),
         Refused(r) \/ (Served(r) /\ (Found(r) \/ NotFound(r) \/ Done(r) \/ Denies(r) \/ Fails(r)))
  PROVE  LET does == H(r).does IN
         /\ /\ last'.answer = 200 /\ does \notin {"read", "static", "delete"}
            /\ does = "create" => row = Absent
            => \A f \in {"a", "b"} :
                /\ Sent(B(r), f) = {} \/ row'[f] \in Sent(B(r), f) \/ H(r).skips
                /\ "a" \in DOMAIN B(r) /\ B(r)["a"] \in Values => row'["a"] = B(r)["a"]
         /\ last'.answer \in 400 .. 499 /\ r.handler \notin Blurred => row' = row
<1>. DEFINE h == H(r)
<1>1. Route(table, r.handler, h)
  BY RequestIs DEF AppInv
<1>2. CASE Refused(r)
  <2>1. row' = row /\ \E code \in Refusals(r) \ {200} : Answer(r, code)
    BY <1>2 DEF Refused
  <2>2. last'.answer # 200
    BY <2>1, AnswerIs
  <2>. QED  BY <2>1, <2>2
<1>3. CASE Found(r) \/ NotFound(r)
  <2>1. row' = row /\ h.does \in {"read", "static"}
    BY <1>3 DEF Found, NotFound, Reads
  <2>. QED  BY <2>1
<1>4. CASE Served(r) /\ Done(r)
  <2>1. \E code \in {200, 500} : Answer(r, code)
    BY <1>4 DEF Done, Success
  <2>2. last'.answer \in {200, 500}
    BY <2>1, AnswerIs
  <2>3. last'.answer \notin 400 .. 499
    BY <2>2
  <2>. QED  BY <1>4, <2>3, DoneIsWritten
<1>5. ASSUME Writes(r), NEW o \in DOMAIN h.says, Answer(r, Says(r, o))
      PROVE  /\ last'.answer # 200
             /\ o \in Failures /\ r.handler \notin Blurred => last'.answer \notin 400 .. 499
  <2>1. h.does \notin ReadOnly
    BY <1>5 DEF Writes, ReadOnly
  <2>2. last'.answer = Says(r, o)
    BY <1>5, AnswerIs
  <2>3. h.says[o] \in 400 .. 599 /\ (o \in Failures /\ r.handler \notin Blurred => h.says[o] \in {500, 503})
    BY <1>1, <1>5, <2>1 DEF Route, WriteSays
  <2>4. Says(r, o) \in {400, h.says[o]}
    BY DEF Says
  <2>5. r.handler \notin Blurred => Says(r, o) = h.says[o]
    BY <1>1, <2>1 DEF Says, Route
  <2>. HIDE DEF h
  <2>. QED  BY <2>2, <2>3, <2>4, <2>5
<1>6. CASE Denies(r)
  <2>1. row' = row /\ Writes(r) /\ \E o \in DOMAIN h.says : Answer(r, Says(r, o))
    BY <1>6 DEF Denies
  <2>2. last'.answer # 200
    BY <1>5, <2>1
  <2>. QED  BY <2>1, <2>2
<1>7. CASE Fails(r)
  <2>1. Writes(r) /\ \E o \in Failures \cap DOMAIN h.says : Answer(r, Says(r, o))
    BY <1>7 DEF Fails
  <2>2. last'.answer # 200 /\ (r.handler \notin Blurred => last'.answer \notin 400 .. 499)
    BY <1>5, <2>1
  <2>. QED  BY <2>2
<1>. QED  BY <1>2, <1>3, <1>4, <1>6, <1>7

\* A reader's answer tells an outage from a row that is not there.
LEMMA TellingStep ==
  ASSUME AppInv, NEW c \in Callers, NEW r \in Asks(c),
         Refused(r) \/ (Served(r) /\ (Found(r) \/ NotFound(r) \/ Done(r) \/ Denies(r) \/ Fails(r))),
         postgres, last'.answer \in {200, 404}, H(r).does = "read"
  PROVE  row = Absent \/ form'[r.by] = row \/ r.handler = "get_transactions_unlimited"
<1>1. CASE Refused(r)
  <2>1. \E code \in Refusals(r) \ {200} : Answer(r, code)
    BY <1>1 DEF Refused
  <2>2. last'.answer \in {400, 403, 422, 503}
    BY <2>1, AnswerIs, RefusalsAre
  <2>. QED  BY <2>2
<1>2. CASE Found(r)
  <2>1. PICK code \in {200, 500} :
          Answer(r, code) /\ form' = IF code = 200 THEN [form EXCEPT ![r.by] = row] ELSE form
    BY <1>2 DEF Found, Success
  <2>2. code = 200
    BY <2>1, AnswerIs
  <2>3. form \in [Callers -> Row] /\ r.by \in Callers
    BY RequestIs DEF AppInv, AppTypes
  <2>. QED  BY <2>1, <2>2, <2>3
<1>3. CASE NotFound(r)
  <2>1. PICK o \in DOMAIN H(r).says :
          /\ o \in {"none", "missing"} /\ postgres /\ H(r).does = "read" => row = Absent
          /\ Answer(r, H(r).says[o])
    BY <1>3 DEF NotFound
  <2>2. CASE o \in {"none", "missing"}
    BY <2>1, <2>2
  <2>3. CASE o \notin {"none", "missing"} /\ r.handler # "get_transactions_unlimited"
    <3>1. H(r).says[o] \notin {200, 404}
      BY <2>1, <2>3, RequestIs DEF Route, ReadSays, AppInv
    <3>. QED  BY <2>1, <3>1, AnswerIs
  <2>. QED  BY <2>2, <2>3
<1>4. CASE Done(r) \/ Denies(r) \/ Fails(r)
  BY <1>4 DEF Done, Denies, Fails, Writes
<1>. QED  BY <1>1, <1>2, <1>3, <1>4

\* What a route writes over a row that stays, field by field.
LEMMA KeepingStep ==
  ASSUME AppInv, NEW c \in Callers, NEW r \in Asks(c),
         Refused(r) \/ (Served(r) /\ (Found(r) \/ NotFound(r) \/ Done(r) \/ Denies(r) \/ Fails(r))),
         NEW f \in Field, row' # Absent, row # Absent, row'[f] # row[f]
  PROVE  LET does == H(r).does
             seen == form[r.by]
         IN
         \/ \E n \in DOMAIN r.edits : FieldOf(n) = f
         \/ row'[f] = Null /\ (does \in {"put", "set"} \/ (does = "replace" /\ seen = Absent))
         \/ does = "replace" /\ seen \notin {Absent, row}
         \/ f = "status" /\ does \in Moves
<1>. DEFINE h == H(r)  b == B(r)  p == Payload(h, b)  seen == form[r.by]
            list == [g \in {"a"} |-> IF g \in DOMAIN p THEN p[g] ELSE Null]
<1>1. /\ Served(r) /\ h.does \notin ReadOnly /\ CanBeDone(h)
      /\ row' = Written(h, p)
  BY RowAfter
<1>2. /\ h.does \in Doings \ ReadOnly
      /\ h.does = "replace" => ~h.skips /\ h.alias = "none"
      /\ h.does \in {"put", "replace"} => table # "plans"
  BY <1>1, RequestIs DEF Route, AppInv
<1>3. row \in Row /\ (table # "plans" => row["status"] = "draft")
  BY DEF AppInv, AppTypes, OnlyPlansMove
<1>4. /\ h.does # "replace" \/ seen = Absent => b = r.edits
      /\ h.does = "replace" => DOMAIN r.edits \subseteq {"a", "b"}
      /\ h.does = "replace" /\ seen # Absent =>
            b = [n \in {"a", "b"} |-> IF n \in DOMAIN r.edits THEN r.edits[n] ELSE seen[n]]
      /\ h.does = "set" => DOMAIN r.edits \subseteq {"a"}
  BY <1>1, ServedIs DEF AppInv
<1>5. /\ DOMAIN p \subseteq {"a", "b"}
      /\ \A g \in DOMAIN p : \E n \in DOMAIN b : FieldOf(n) = g /\ p[g] = b[n]
      /\ ~h.skips => \A n \in DOMAIN b : FieldOf(n) \in {"a", "b"} => FieldOf(n) \in DOMAIN p
  <2>. HIDE DEF h, b
  <2>. QED  BY PayloadIs
<1>6. \/ h.does \in Moves /\ row' = [row EXCEPT !["status"] = h.does]
      \/ h.does = "set" /\ row' = Over(list, row)
      \/ /\ h.does \in {"patch", "upsert"} /\ row' = Over(p, row)
      \/ /\ h.does \in {"put", "replace"} /\ row' = Over(p, Empty)
  <2>1. row' # Absent /\ row # Absent /\ row' # row
    OBVIOUS
  <2>. HIDE DEF h, p
  <2>. QED  BY <1>1, <1>2, <2>1, WrittenIs
<1>7. SUFFICES \/ \E n \in DOMAIN r.edits : FieldOf(n) = f
               \/ row'[f] = Null /\ (h.does \in {"put", "set"} \/ (h.does = "replace" /\ seen = Absent))
               \/ h.does = "replace" /\ seen \notin {Absent, row}
               \/ f = "status" /\ h.does \in Moves
  OBVIOUS
<1>. HIDE DEF h, b, p, seen
<1>8. CASE h.does \in Moves /\ row' = [row EXCEPT !["status"] = h.does]
  BY <1>3, <1>8 DEF Row, Field
<1>9. CASE h.does = "set" /\ row' = Over(list, row)
  <2>1. f = "a" /\ row'["a"] = IF "a" \in DOMAIN p THEN p["a"] ELSE Null
    BY <1>9 DEF Over, Field
  <2>2. b = r.edits
    BY <1>4, <1>9
  <2>. QED  BY <1>5, <1>9, <2>1, <2>2
<1>10. CASE h.does \in {"patch", "upsert"} /\ row' = Over(p, row)
  <2>1. f \in DOMAIN p
    BY <1>10 DEF Over
  <2>2. b = r.edits
    BY <1>4, <1>10
  <2>. QED  BY <1>5, <2>1, <2>2
<1>11. CASE h.does \in {"put", "replace"} /\ row' = Over(p, Empty)
  <2>1. f \notin DOMAIN p => row'[f] = Empty[f]
    BY <1>11 DEF Over
  <2>2. f # "status"
    <3>1. ASSUME f = "status"  PROVE row'[f] = row[f]
      BY <1>2, <1>3, <1>5, <1>11, <2>1, <3>1, Bases
    <3>. QED  BY <3>1
  <2>3. f \in {"a", "b"} /\ Empty[f] = Null
    BY <2>2, Bases DEF Field
  <2>4. CASE b = r.edits
    <3>1. CASE f \in DOMAIN p
      BY <1>5, <2>4, <3>1
    <3>2. CASE f \notin DOMAIN p /\ (h.does = "put" \/ seen = Absent)
      BY <1>11, <2>1, <2>3, <3>2
    <3>3. CASE f \notin DOMAIN p /\ h.does = "replace" /\ seen # Absent
      <4>1. f \in DOMAIN b /\ FieldOf(f) = f
        BY <1>4, <2>3, <3>3 DEF FieldOf
      <4>. QED  BY <2>4, <4>1
    <3>. QED  BY <1>11, <3>1, <3>2, <3>3
  <2>5. CASE b # r.edits
    <3>1. /\ h.does = "replace" /\ seen # Absent
          /\ b = [n \in {"a", "b"} |-> IF n \in DOMAIN r.edits THEN r.edits[n] ELSE seen[n]]
      BY <1>4, <2>5
    <3>2. FieldOf(f) = f /\ (\A n \in {"a", "b"} : FieldOf(n) = f => n = f)
      BY <2>3 DEF FieldOf
    <3>3. DOMAIN b = {"a", "b"}
      BY <3>1
    <3>4. f \in DOMAIN p /\ p[f] = b[f]
      BY <1>2, <1>5, <2>3, <3>1, <3>2, <3>3
    <3>5. row'[f] = b[f]
      BY <1>11, <3>4 DEF Over
    <3>6. CASE f \in DOMAIN r.edits
      BY <3>2, <3>6
    <3>7. CASE f \notin DOMAIN r.edits
      <4>1. b[f] = seen[f]
        BY <2>3, <3>1, <3>7
      <4>. QED  BY <3>1, <3>5, <4>1
    <3>. QED  BY <3>6, <3>7
  <2>. QED  BY <2>4, <2>5
<1>. QED  BY <1>6, <1>8, <1>9, <1>10, <1>11

-----------------------------------------------------------------------------
\* The row and the forms keep their types, whatever is sent to whichever route,
\* and only the moves of a plan change a status.
THEOREM AppAlways == AppSpec => []AppInv
<1>. QED  BY AppInitially, AppKeeps, PTL DEF AppSpec

\* For every route: a request answered ok has written what it sent, and one that
\* was refused has written nothing, but for the four routes that cannot tell a
\* failed statement from a refusal (account/app.py, write_errors.py).
THEOREM MatchingAnswer == AppSpec => AnswerMatchesRow
<1>. DEFINE Matches ==
       LET b == Sends(last'.by, H(last'), last'.edits)
           does == H(last').does
       IN
       /\ /\ last'.answer = 200 /\ does \notin {"read", "static", "delete"}
          /\ does = "create" => row = Absent
          => \A f \in {"a", "b"} :
               /\ Sent(b, f) = {} \/ row'[f] \in Sent(b, f) \/ H(last').skips
               /\ "a" \in DOMAIN b /\ b["a"] \in Values => row'["a"] = b["a"]
       /\ last'.answer \in 400 .. 499 /\ last'.handler \notin Blurred => row' = row
<1>1. AppInv /\ [AppNext]_appVars => [Matches]_appVars
  <2>. SUFFICES ASSUME AppInv, NEW c \in Callers, NEW r \in Asks(c),
                       Refused(r) \/ (Served(r) /\ (Found(r) \/ NotFound(r) \/ Done(r) \/ Denies(r) \/ Fails(r)))
                PROVE  Matches
    BY DEF AppNext
  <2>1. /\ last'.handler = r.handler
        /\ H(last') = H(r) /\ Sends(last'.by, H(last'), last'.edits) = B(r)
    BY LastIs
  <2>. QED  BY <2>1, MatchingStep
<1>2. AnswerMatchesRow <=> [][Matches]_appVars
  BY PTL DEF AnswerMatchesRow
<1>. HIDE DEF Matches
<1>. QED  BY <1>1, <1>2, AppAlways, PTL DEF AppSpec

\* For every route: a field a request does not mean to change stays, but under a
\* page that saves the whole of a row another request has changed since.
THEOREM KeepsTheOthers == AppSpec => OthersKept
<1>. DEFINE Keeps ==
       \A f \in Field : row' # Absent /\ row # Absent /\ row'[f] # row[f] =>
        LET does == H(last').does
            seen == form[last'.by]
        IN
        \/ \E n \in DOMAIN last'.edits : FieldOf(n) = f
        \/ row'[f] = Null /\ (does \in {"put", "set"} \/ (does = "replace" /\ seen = Absent))
        \/ does = "replace" /\ seen \notin {Absent, row}
        \/ f = "status" /\ does \in Moves
<1>1. AppInv /\ [AppNext]_appVars => [Keeps]_appVars
  <2>. SUFFICES ASSUME AppInv, NEW c \in Callers, NEW r \in Asks(c),
                       Refused(r) \/ (Served(r) /\ (Found(r) \/ NotFound(r) \/ Done(r) \/ Denies(r) \/ Fails(r)))
                PROVE  Keeps
    BY DEF AppNext
  <2>1. last'.by = r.by /\ last'.edits = r.edits /\ H(last') = H(r)
    BY LastIs
  <2>. QED  BY <2>1, KeepingStep
<1>2. OthersKept <=> [][Keeps]_appVars
  BY PTL DEF OthersKept
<1>. HIDE DEF Keeps
<1>. QED  BY <1>1, <1>2, AppAlways, PTL DEF AppSpec

\* For every reader: an answer that shows no row is given only when there is none,
\* and never for a read that failed.
THEOREM TellsOutages == AppSpec => OutagesTold
<1>. DEFINE Tells ==
       postgres /\ last'.answer \in {200, 404} /\ H(last').does = "read" =>
            \/ row = Absent \/ form'[last'.by] = row
            \/ last'.handler = "get_transactions_unlimited"
<1>1. AppInv /\ [AppNext]_appVars => [Tells]_appVars
  <2>. SUFFICES ASSUME AppInv, NEW c \in Callers, NEW r \in Asks(c),
                       Refused(r) \/ (Served(r) /\ (Found(r) \/ NotFound(r) \/ Done(r) \/ Denies(r) \/ Fails(r)))
                PROVE  Tells
    BY DEF AppNext
  <2>1. last'.by = r.by /\ last'.handler = r.handler /\ H(last') = H(r)
    BY LastIs
  <2>. QED  BY <2>1, TellingStep
<1>2. OutagesTold <=> [][Tells]_appVars
  BY PTL DEF OutagesTold
<1>. HIDE DEF Tells
<1>. QED  BY <1>1, <1>2, AppAlways, PTL DEF AppSpec

=============================================================================
