----------------------------- MODULE ListProofs -----------------------------
(***************************************************************************)
(* The list of bookings: each row is where its time belongs in what the    *)
(* chosen filter gives, of one state of the table, in one section per day. *)
(***************************************************************************)
EXTENDS Dashboard, OrderLemmas

-----------------------------------------------------------------------------
(* What a query gives, of any state b of the table and any day.            *)

Scopes == {"past", "today", "upcoming"}
Filters == [scope : Scopes, status : Statuses \cup {None}, q : {None, Word}]
Tables == [Ids -> Statuses \cup {None}]
Stamp == [table : Nat, day : Nat]

MatchesIn(b, id, f, day) ==
  /\ InScope(id, f.scope, day)
  /\ b[id] # None
  /\ f.status = None \/ b[id] = f.status
  /\ f.q = None \/ id \in Found

MatchingIds(b, f, day) == {id \in Ids : MatchesIn(b, id, f, day)}

LEMMA MatchingNow ==
  ASSUME NEW f
  PROVE  Matching(f) = MatchingIds(book, f, UtcDay(now))
BY DEF Matching, MatchesOn, MatchingIds, MatchesIn

LEMMA MatchingFinite ==
  ASSUME NEW b, NEW f, NEW day
  PROVE  /\ MatchingIds(b, f, day) \in SUBSET Ids
         /\ IsFiniteSet(MatchingIds(b, f, day)) /\ Cardinality(MatchingIds(b, f, day)) \in Nat
<1>1. MatchingIds(b, f, day) \in SUBSET Ids
  BY DEF MatchingIds
<1>2. IsFiniteSet(MatchingIds(b, f, day))
  BY <1>1, BookingsAssumption, FS_Subset
<1> QED BY <1>1, <1>2, FS_CardinalityType

LEMMA MinOfTwo ==
  ASSUME NEW m \in Int, NEW n \in Int
  PROVE  Min({m, n}) = IF m <= n THEN m ELSE n
BY DEF Min

(* Appointments put in order, those of one time in whatever order, are     *)
(* each in place.                                                          *)
LEMMA OrderedInPlace ==
  ASSUME NEW ids \in SUBSET Ids, NEW scope, NEW s \in Orders(ids, scope), NEW i \in DOMAIN s
  PROVE  InPlace(s[i], i, ids, scope)
<1> DEFINE Upto(k) == {s[j] : j \in 1 .. k}
           before == {x \in ids : Precedes(scope, x, s[i])}
           notAfter == {x \in ids : ~Precedes(scope, s[i], x)}
           n == Cardinality(ids)
<1>1. IsFiniteSet(ids) /\ s \in SetToSeqs(ids)
  BY BookingsAssumption, FS_Subset DEF Orders
<1>2. /\ n \in Nat /\ s \in Seq(ids) /\ DOMAIN s = 1 .. n
      /\ \A j, k \in DOMAIN s : s[j] = s[k] => j = k
      /\ \A x \in ids : \E j \in DOMAIN s : s[j] = x
  BY <1>1, SeqsOfSet
<1>3. \A j, k \in DOMAIN s : j < k => ~Precedes(scope, s[k], s[j])
  BY DEF Orders
<1>4. \A j \in DOMAIN s : s[j] \in ids /\ ScheduledAt[s[j]] \in Nat
  <2>1. \A j \in DOMAIN s : s[j] \in ids
    <3> HIDE DEF n
    <3> QED BY <1>2
  <2>2. \A x \in ids : ScheduledAt[x] \in Nat
    BY BookingsAssumption
  <2> QED BY <2>1, <2>2
<1>5. i \in 1 .. n /\ i \in Nat
  BY <1>2
<1>6. \A k \in 0 .. n : IsFiniteSet(Upto(k)) /\ Cardinality(Upto(k)) = k
  <2> TAKE k \in 0 .. n
  <2>1. k \in Nat /\ IsFiniteSet(1 .. k) /\ Cardinality(1 .. k) = k
    BY FS_Interval
  <2> DEFINE g == [j \in 1 .. k |-> s[j]]
  <2>2. 1 .. k \in SUBSET DOMAIN s
    BY <1>2
  <2>3. g \in Surjection(1 .. k, Upto(k))
    BY DEF Surjection
  <2>4. g \in Injection(1 .. k, Upto(k))
    <3>1. g \in [1 .. k -> Upto(k)]
      BY <2>3 DEF Surjection
    <3>2. \A x, y \in 1 .. k : g[x] = g[y] => x = y
      BY <1>2, <2>2
    <3> QED BY <3>1, <3>2 DEF Injection, IsInjective
  <2> HIDE DEF g, Upto
  <2> QED BY <2>1, <2>3, <2>4, FS_Surjection
<1> HIDE DEF n
<1>7. before \subseteq Upto(i - 1)
  <2> SUFFICES ASSUME NEW x \in before PROVE x \in Upto(i - 1)
    OBVIOUS
  <2>1. PICK j \in DOMAIN s : s[j] = x
    BY <1>2
  <2>2. Precedes(scope, s[j], s[i])
    BY <2>1
  <2>3. j # i
    BY <1>4, <2>2 DEF Precedes
  <2>4. ~(i < j)
    BY <1>3, <2>2
  <2>5. j \in 1 .. i - 1
    BY <1>2, <1>5, <2>3, <2>4
  <2> QED BY <2>1, <2>5
<1>8. Upto(i) \subseteq notAfter
  <2> SUFFICES ASSUME NEW j \in 1 .. i PROVE s[j] \in notAfter
    OBVIOUS
  <2>1. j \in DOMAIN s /\ s[j] \in ids
    BY <1>2, <1>4, <1>5
  <2>2. ~Precedes(scope, s[i], s[j])
    <3>1. CASE j = i
      BY <1>4, <2>1, <3>1 DEF Precedes
    <3>2. CASE j # i
      <4>1. j < i
        BY <1>5, <3>2
      <4> QED BY <1>3, <2>1, <4>1
    <3> QED BY <3>1, <3>2
  <2> QED BY <2>1, <2>2
<1>9. before \in SUBSET ids /\ notAfter \in SUBSET ids
  OBVIOUS
<1> HIDE DEF before, notAfter, Upto
<1>10. Cardinality(before) <= i - 1 /\ i <= Cardinality(notAfter)
       /\ Cardinality(before) \in Nat /\ Cardinality(notAfter) \in Nat
  <2>1. IsFiniteSet(before) /\ IsFiniteSet(notAfter)
    BY <1>1, <1>9, FS_Subset
  <2>2. /\ IsFiniteSet(Upto(i - 1)) /\ Cardinality(Upto(i - 1)) = i - 1
        /\ Cardinality(Upto(i)) = i
    <3>1. i - 1 \in 0 .. n /\ i \in 0 .. n
      BY <1>2, <1>5
    <3> QED BY <1>6, <3>1
  <2> QED BY <1>7, <1>8, <2>1, <2>2, FS_Subset, FS_CardinalityType
<1> QED BY <1>5, <1>10 DEF InPlace, before, notAfter

-----------------------------------------------------------------------------
(* Pages, and the lists they make.                                         *)

(* A row that is the i-th of what a filter gives.                          *)
Placed(b, f, day, row, i) ==
  /\ MatchesIn(b, row.id, f, day) /\ row.status = b[row.id]
  /\ InPlace(row.id, i, MatchingIds(b, f, day), f.scope)

LEMMA ListedRow ==
  ASSUME NEW s \in Seq(Row), NEW i \in DOMAIN s
  PROVE  s[i] \in Row /\ s[i].id \in Ids /\ i \in 1 .. Len(s)
<1>1. s[i] \in Row /\ i \in 1 .. Len(s)
  OBVIOUS
<1>2. \A r \in Row : r.id \in Ids
  BY DEF Row
<1> QED BY <1>1, <1>2

IsPage(b, f, day, skip, d) ==
  LET n == Cardinality(MatchingIds(b, f, day)) IN
  /\ d \in Seq(Row)
  /\ Len(d) = IF skip + Page <= n THEN Page ELSE IF skip <= n THEN n - skip ELSE 0
  /\ \A i \in 1 .. Len(d) : Placed(b, f, day, d[i], skip + i)

Begins(s, b, f, day) ==
  /\ Len(s) <= Cardinality(MatchingIds(b, f, day))
  /\ \A i \in 1 .. Len(s) : Placed(b, f, day, s[i], i)

LEMMA ServedPage ==
  ASSUME NEW f \in Filters, NEW skip \in Nat, book \in Tables,
         NEW ids \in Orders(Matching(f), f.scope)
  PROVE  IsPage(book, f, UtcDay(now), skip, Rows(PageOf(ids, skip)))
<1> DEFINE M == MatchingIds(book, f, UtcDay(now))
           n == Cardinality(M)
           top == IF skip + Page <= n THEN skip + Page ELSE n
           p == PageOf(ids, skip)
<1>1. M \in SUBSET Ids /\ IsFiniteSet(M) /\ n \in Nat /\ Matching(f) = M
  BY MatchingFinite, MatchingNow
<1>2. ids \in Seq(M) /\ Len(ids) = n
  <2> HIDE DEF M
  <2>1. ids \in SetToSeqs(M)
    BY <1>1 DEF Orders
  <2> QED BY <1>1, <2>1, SeqsOfSet
<1>3. Page \in Nat \ {0}
  BY BookingsAssumption
<1> HIDE DEF M, n
<1>4. Min({skip + Page, Len(ids)}) = top
  BY <1>1, <1>2, <1>3, MinOfTwo
<1>5. top \in 0 .. n
  BY <1>1, <1>3
<1> HIDE DEF top
<1>6. p = SubSeq(ids, skip + 1, top)
  BY <1>4 DEF PageOf
<1> HIDE DEF p
<1>7. /\ p \in Seq(M)
      /\ Len(p) = IF skip + 1 <= top THEN top - skip ELSE 0
      /\ \A i \in 1 .. Len(p) : p[i] = ids[skip + i]
  <2>1. Len(p) = IF skip + 1 <= top THEN top - skip ELSE 0
    BY <1>1, <1>2, <1>5, <1>6
  <2>2. p \in Seq(M)
    BY <1>1, <1>2, <1>5, <1>6
  <2>3. \A i \in 1 .. Len(p) : p[i] = ids[skip + i]
    BY <1>1, <1>2, <1>5, <1>6, <2>1
  <2> QED BY <2>1, <2>2, <2>3
<1> DEFINE d == Rows(p)
<1>8. d = [i \in DOMAIN p |-> [id |-> p[i], status |-> book[p[i]]]]
  BY DEF Rows
<1> HIDE DEF d
<1>9. Len(p) \in Nat /\ DOMAIN p = 1 .. Len(p) /\ Len(d) = Len(p) /\ DOMAIN d = 1 .. Len(p)
  BY <1>7, <1>8
<1>10. ASSUME NEW i \in 1 .. Len(p)
       PROVE  d[i] \in Row /\ Placed(book, f, UtcDay(now), d[i], skip + i)
  <2>1. p[i] \in M /\ p[i] = ids[skip + i]
    BY <1>7, <1>9
  <2>2. MatchesIn(book, p[i], f, UtcDay(now)) /\ p[i] \in Ids
    BY <2>1 DEF M, MatchingIds
  <2>3. d[i] = [id |-> p[i], status |-> book[p[i]]]
    BY <1>8, <1>9
  <2>4. book[p[i]] \in Statuses
    BY <2>2 DEF MatchesIn, Tables
  <2>5. skip + i \in DOMAIN ids
    BY <1>1, <1>2, <1>5, <1>7, <1>9
  <2>6. InPlace(p[i], skip + i, M, f.scope)
    <3>1. ids \in Orders(M, f.scope)
      BY <1>1
    <3> QED BY <1>1, <2>1, <2>5, <3>1, OrderedInPlace
  <2> QED BY <2>2, <2>3, <2>4, <2>6 DEF Row, Placed, M
<1>11. d \in Seq(Row)
  BY <1>8, <1>9, <1>10
<1>12. Len(d) = IF skip + Page <= n THEN Page ELSE IF skip <= n THEN n - skip ELSE 0
  BY <1>1, <1>3, <1>7, <1>9 DEF top
<1> QED BY <1>9, <1>10, <1>11, <1>12 DEF IsPage, d, p, M, n

(* The first page of a list, and a list with the page after it.            *)
LEMMA FirstPage ==
  ASSUME NEW b, NEW f, NEW day, NEW d, IsPage(b, f, day, 0, d)
  PROVE  Begins(d, b, f, day) /\ (Len(d) # Page => Len(d) = Cardinality(MatchingIds(b, f, day)))
<1> DEFINE n == Cardinality(MatchingIds(b, f, day))
<1>1. Page \in Nat \ {0} /\ n \in Nat
  BY BookingsAssumption, MatchingFinite
<1>2. /\ Len(d) \in Nat
      /\ Len(d) = IF 0 + Page <= n THEN Page ELSE IF 0 <= n THEN n - 0 ELSE 0
      /\ \A i \in 1 .. Len(d) : Placed(b, f, day, d[i], 0 + i)
  BY DEF IsPage
<1> HIDE DEF n
<1>3. Len(d) <= n /\ (Len(d) # Page => Len(d) = n)
  BY <1>1, <1>2
<1>4. \A i \in 1 .. Len(d) : Placed(b, f, day, d[i], i)
  <2> TAKE i \in 1 .. Len(d)
  <2>1. 0 + i = i
    OBVIOUS
  <2> QED BY <1>2, <2>1
<1> QED BY <1>3, <1>4 DEF Begins, n

LEMMA NextPage ==
  ASSUME NEW b, NEW f, NEW day, NEW s \in Seq(Row), Begins(s, b, f, day),
         NEW d, IsPage(b, f, day, Len(s), d)
  PROVE  /\ Begins(s \o d, b, f, day)
         /\ Len(d) # Page => Len(s \o d) = Cardinality(MatchingIds(b, f, day))
<1> DEFINE n == Cardinality(MatchingIds(b, f, day))
<1>1. Page \in Nat \ {0} /\ n \in Nat /\ Len(s) \in Nat /\ Len(s) <= n
  BY BookingsAssumption, MatchingFinite DEF Begins
<1>2. /\ d \in Seq(Row)
      /\ Len(d) = IF Len(s) + Page <= n THEN Page ELSE n - Len(s)
      /\ \A i \in 1 .. Len(d) : Placed(b, f, day, d[i], Len(s) + i)
  BY <1>1 DEF IsPage
<1> HIDE DEF n
<1>3. /\ Len(s \o d) = Len(s) + Len(d) /\ Len(d) \in Nat
      /\ \A i \in 1 .. Len(s) + Len(d) : (s \o d)[i] = IF i <= Len(s) THEN s[i] ELSE d[i - Len(s)]
  BY <1>1, <1>2
<1>4. ASSUME NEW i \in 1 .. Len(s) + Len(d) PROVE Placed(b, f, day, (s \o d)[i], i)
  <2>1. CASE i <= Len(s)
    <3>1. i \in 1 .. Len(s) /\ (s \o d)[i] = s[i]
      BY <1>1, <1>3, <2>1
    <3> QED BY <3>1 DEF Begins
  <2>2. CASE ~(i <= Len(s))
    <3>1. i - Len(s) \in 1 .. Len(d) /\ Len(s) + (i - Len(s)) = i
      BY <1>1, <1>3, <2>2
    <3> QED BY <1>2, <1>3, <2>2, <3>1
  <2> QED BY <2>1, <2>2
<1>5. Len(s) + Len(d) <= n /\ (Len(d) # Page => Len(s) + Len(d) = n)
  BY <1>1, <1>2
<1> QED BY <1>3, <1>4, <1>5 DEF Begins, n

(* The rows of such a list are in order of time.                           *)
LEMMA PlacedInOrder ==
  ASSUME NEW b, NEW f, NEW day, NEW r \in Row, NEW s \in Row, NEW i \in Nat, NEW j \in Nat, i < j,
         Placed(b, f, day, r, i), Placed(b, f, day, s, j)
  PROVE  ~Precedes(f.scope, s.id, r.id)
<1> DEFINE M == MatchingIds(b, f, day)
           A == {x \in M : ~Precedes(f.scope, s.id, x)}
           B == {x \in M : Precedes(f.scope, x, r.id)}
<1>1. SUFFICES ASSUME Precedes(f.scope, s.id, r.id) PROVE FALSE
  OBVIOUS
<1>2. j <= Cardinality(A) /\ Cardinality(B) < i
  BY DEF Placed, InPlace
<1>3. A \in SUBSET B
  <2> SUFFICES ASSUME NEW x \in M, ~Precedes(f.scope, s.id, x) PROVE Precedes(f.scope, x, r.id)
    OBVIOUS
  <2>1. x \in Ids /\ r.id \in Ids /\ s.id \in Ids
    BY MatchingFinite DEF Row
  <2>2. ScheduledAt[x] \in Nat /\ ScheduledAt[r.id] \in Nat /\ ScheduledAt[s.id] \in Nat
    BY <2>1, BookingsAssumption
  <2> QED BY <1>1, <2>2 DEF Precedes
<1>4. IsFiniteSet(M) /\ B \in SUBSET M
  BY MatchingFinite
<1> HIDE DEF M, A, B
<1>5. IsFiniteSet(B) /\ IsFiniteSet(A) /\ Cardinality(A) <= Cardinality(B)
  BY <1>3, <1>4, FS_Subset
<1>6. Cardinality(A) \in Nat /\ Cardinality(B) \in Nat
  BY <1>5, FS_CardinalityType
<1> QED BY <1>2, <1>5, <1>6

(* A change of the status of an appointment with no filter on status: the  *)
(* same appointments.                                                      *)
Restatus(list, row) == [i \in DOMAIN list |-> IF list[i].id = row.id THEN row ELSE list[i]]

LEMMA MatchingRestatus ==
  ASSUME NEW b \in Tables, NEW f, f.status = None, NEW day, NEW row \in Row, b[row.id] # None
  PROVE  MatchingIds([b EXCEPT ![row.id] = row.status], f, day) = MatchingIds(b, f, day)
<1> DEFINE c == [b EXCEPT ![row.id] = row.status]
<1>1. row.id \in Ids /\ row.status # None
  BY BookingsAssumption DEF Row
<1>2. \A id \in Ids : c[id] = IF id = row.id THEN row.status ELSE b[id]
  BY <1>1 DEF Tables
<1> QED BY <1>1, <1>2 DEF MatchingIds, MatchesIn

-----------------------------------------------------------------------------
(* The page's state and requests.                                          *)

ViewType ==
  [scope : Scopes, status : Statuses \cup {None}, search : {None, Word}, debounced : {None, Word},
   typing : BOOLEAN, loaded : BOOLEAN, list : Seq(Row), more : BOOLEAN, loadingMore : BOOLEAN,
   updating : BOOLEAN, toast : BOOLEAN, selected : Row \cup {NoRow}, of : Stamp \cup {None},
   blank : BOOLEAN]

ListRequest(ats) ==
  [at : ats, f : Filters \cup {None}, skip : Nat, data : Seq(Row), of : Stamp \cup {None}]

PatchType == [at : {"none", "sent", "ok", "error"}, row : Row \cup {NoRow}, of : Nat \cup {None}]

BookingsTypes ==
  /\ book \in Tables /\ changed \in Nat
  /\ view \in ViewType
  /\ load \in ListRequest({"closed", "none", "sent", "ok", "error"})
  /\ more \in ListRequest({"none", "sent", "ok", "error"})
  /\ patch \in PatchType
  /\ load.at = "sent" => load.f \in Filters
  /\ more.at = "sent" => more.f \in Filters
  /\ view.loadingMore <=> more.at # "none"
  /\ view.updating <=> patch.at # "none"
  /\ patch.at # "none" => patch.row \in Row
  /\ patch.at = "ok" => patch.of \in Nat

LEMMA FilterType ==
  ASSUME NEW v \in ViewType
  PROVE  Filter(v) \in Filters
BY DEF ViewType, Filter, Filters

(* An answer to a list request.                                            *)
LEMMA AnsweredPage ==
  ASSUME BookingsTypes, now \in Nat, NEW ats, NEW q \in ListRequest(ats), q.f \in Filters,
         NEW r \in Answers(q)
  PROVE  /\ r \in ListRequest({"none", "sent", "ok", "error"})
         /\ r.at = "ok" /\ r.f = q.f /\ r.skip = q.skip
         /\ r.of \in Stamp /\ r.of.table = changed /\ r.of.day = UtcDay(now)
         /\ IsPage(book, q.f, UtcDay(now), q.skip, r.data)
<1>1. PICK ids \in Orders(Matching(q.f), q.f.scope) :
        r = [q EXCEPT !.at = "ok", !.data = Rows(PageOf(ids, q.skip)), !.of = Present]
  BY DEF Answers
<1> DEFINE d == Rows(PageOf(ids, q.skip))
<1>2. IsPage(book, q.f, UtcDay(now), q.skip, d)
  <2>1. q.skip \in Nat /\ book \in Tables
    BY DEF ListRequest, BookingsTypes
  <2> QED BY <2>1, ServedPage
<1>3. d \in Seq(Row)
  BY <1>2 DEF IsPage
<1>4. UtcDay(now) \in Nat
  BY DEF UtcDay
<1>5. Present \in Stamp /\ Present.table = changed /\ Present.day = UtcDay(now)
  <2> HIDE DEF d
  <2> QED BY <1>4 DEF Present, Stamp, BookingsTypes
<1>6. r = [q EXCEPT !.at = "ok", !.data = d, !.of = Present]
  BY <1>1
<1> HIDE DEF d
<1>7. /\ r \in ListRequest({"none", "sent", "ok", "error"})
      /\ r.at = "ok" /\ r.f = q.f /\ r.skip = q.skip /\ r.of = Present /\ r.data = d
  BY <1>3, <1>5, <1>6 DEF ListRequest
<1> QED BY <1>2, <1>5, <1>7

LEMMA ClockType ==
  ASSUME now \in Nat, [Next]_vars
  PROVE  now' \in Nat
<1>1. UNCHANGED now \/ now' = now + 1
  <2>1. CASE OnReports
    BY <2>1 DEF OnReports, Log, Tick, ServeCalls, StartSummary, ServeQuery, ReportFails, HearCalls, HearSummary,
       RetryCalls, SelectCall, CloseCall, RetryCharts, SelectRange
  <2>2. CASE OnBookings \/ ServeSaves
    BY <2>2 DEF OnBookings, ServeSaves, Reports
  <2>3. ASSUME NEW t \in Tabs, Navigate(t) \/ SignOut(t) \/ OnSettings(t) PROVE UNCHANGED now
    BY <2>3 DEF Navigate, SignOut, OnSettings, Reports, Open
  <2>4. CASE UNCHANGED vars
    BY <2>4 DEF vars
  <2> QED BY <2>1, <2>2, <2>3, <2>4 DEF Next
<1> QED BY <1>1

LEMMA OpenedTypes ==
  /\ Opened \in ViewType
  /\ Request0 \in ListRequest({"none", "sent", "ok", "error"})
  /\ NoPatch \in PatchType
  /\ \A page : FirstLoad(page) \in ListRequest({"closed", "none", "sent", "ok", "error"})
  /\ \A page : FirstLoad(page).at = "sent" => FirstLoad(page).f = Filter(Opened)
  /\ \A page : FirstLoad(page).skip = 0 /\ FirstLoad(page).at \in {"closed", "sent"}
<1>1. Opened \in ViewType
  BY DEF Opened, ViewType, Scopes
<1>2. <<>> \in Seq(Row)
  OBVIOUS
<1>3. Request0 \in ListRequest({"none", "sent", "ok", "error"})
  BY <1>2 DEF Request0, ListRequest
<1>4. NoPatch \in PatchType
  BY DEF NoPatch, PatchType
<1>5. Filter(Opened) \in Filters
  BY <1>1, FilterType
<1>6. ASSUME NEW page
      PROVE  /\ FirstLoad(page) \in ListRequest({"closed", "none", "sent", "ok", "error"})
             /\ FirstLoad(page).at = "sent" => FirstLoad(page).f = Filter(Opened)
             /\ FirstLoad(page).skip = 0 /\ FirstLoad(page).at \in {"closed", "sent"}
  BY <1>2, <1>5 DEF FirstLoad, Asked, Closed, Request0, ListRequest
<1> QED BY <1>1, <1>3, <1>4, <1>6

LEMMA TypesOpen ==
  ASSUME NEW page, view' = Opened, load' = FirstLoad(page), more' = Request0, patch' = NoPatch,
         book' \in Tables, changed' \in Nat
  PROVE  BookingsTypes'
<1>1. Filter(Opened) \in Filters
  BY OpenedTypes, FilterType
<1>2. /\ Opened.loadingMore = FALSE /\ Opened.updating = FALSE
      /\ Request0.at = "none" /\ NoPatch.at = "none"
  BY DEF Opened, Request0, NoPatch
<1> QED BY <1>1, <1>2, OpenedTypes DEF BookingsTypes

LEMMA TypesReload ==
  ASSUME BookingsTypes, NEW v \in ViewType, Reload(v), UNCHANGED <<Table, more, patch>>,
         v.loadingMore = view.loadingMore, v.updating = view.updating
  PROVE  BookingsTypes'
<1>1. Filter(v) \in Filters
  BY FilterType
<1>2. <<>> \in Seq(Row)
  OBVIOUS
<1>3. load' \in ListRequest({"closed", "none", "sent", "ok", "error"}) /\ load'.f \in Filters
  BY <1>1, <1>2 DEF Reload, Asked, Request0, ListRequest
<1>4. view' \in ViewType /\ view'.loadingMore = view.loadingMore /\ view'.updating = view.updating
  BY <1>2 DEF Reload, ViewType
<1> QED BY <1>3, <1>4 DEF BookingsTypes, Table

(* A row of the list, or of the dialog.                                    *)
LEMMA ShownRows ==
  ASSUME BookingsTypes, NEW row \in Shown
  PROVE  row \in Row
BY DEF BookingsTypes, ViewType, Shown, Range

LEMMA PatchedRows ==
  ASSUME patch.row \in Row
  PROVE  /\ \A list \in Seq(Row) : PatchedList(list) \in Seq(Row) /\ Len(PatchedList(list)) = Len(list)
         /\ \A row \in Row \cup {NoRow} : Patched(row) \in Row \cup {NoRow}
<1>1. \A row \in Row : Patched(row) \in Row
  BY DEF Patched
<1>2. Patched(NoRow) \in Row \cup {NoRow}
  BY DEF Patched
<1>3. ASSUME NEW list \in Seq(Row)
      PROVE  PatchedList(list) \in Seq(Row) /\ Len(PatchedList(list)) = Len(list)
  <2>1. DOMAIN list = 1 .. Len(list) /\ Len(list) \in Nat
    OBVIOUS
  <2>2. PatchedList(list) \in [1 .. Len(list) -> Row]
    BY <1>1, <2>1 DEF PatchedList
  <2> QED BY <2>1, <2>2
<1> QED BY <1>1, <1>2, <1>3

LEMMA BookingsTypesStep ==
  ASSUME BookingsTypes, now \in Nat, [Next]_vars
  PROVE  BookingsTypes'
<1>1. ASSUME UNCHANGED Bookings PROVE BookingsTypes'
  BY <1>1 DEF Bookings, BookingsTypes
<1>2. ASSUME NEW page, NEW t, Open(page, t) PROVE BookingsTypes'
  BY <1>2, TypesOpen DEF Open, BookingsTypes
<1>3. CASE ChooseScope
  <2>1. PICK scope \in Scopes : Reload([view EXCEPT !.scope = scope])
    BY <1>3 DEF ChooseScope, Scopes
  <2>2. [view EXCEPT !.scope = scope] \in ViewType
    BY DEF BookingsTypes, ViewType
  <2>3. /\ [view EXCEPT !.scope = scope].loadingMore = view.loadingMore
        /\ [view EXCEPT !.scope = scope].updating = view.updating
    BY DEF BookingsTypes, ViewType
  <2> QED BY <1>3, <2>1, <2>2, <2>3, TypesReload DEF ChooseScope
<1>4. CASE ChooseStatus
  <2>1. PICK status \in Statuses \cup {None} : Reload([view EXCEPT !.status = status])
    BY <1>4 DEF ChooseStatus
  <2>2. [view EXCEPT !.status = status] \in ViewType
    BY DEF BookingsTypes, ViewType
  <2>3. /\ [view EXCEPT !.status = status].loadingMore = view.loadingMore
        /\ [view EXCEPT !.status = status].updating = view.updating
    BY DEF BookingsTypes, ViewType
  <2> QED BY <1>4, <2>1, <2>2, <2>3, TypesReload DEF ChooseStatus
<1>5. CASE Type
  BY <1>5 DEF Type, Table, BookingsTypes, ViewType
<1>6. CASE Debounce
  <2> DEFINE v == [view EXCEPT !.typing = FALSE, !.debounced = view.search]
  <2>1. v \in ViewType /\ v.loadingMore = view.loadingMore /\ v.updating = view.updating
    BY DEF BookingsTypes, ViewType
  <2>2. CASE view.debounced # view.search
    <3>1. Reload(v) /\ UNCHANGED <<Table, more, patch>>
      BY <1>6, <2>2 DEF Debounce
    <3> HIDE DEF v
    <3> QED BY <2>1, <3>1, TypesReload
  <2>3. CASE view.debounced = view.search
    <3>1. /\ view' = [v EXCEPT !.loaded = FALSE, !.list = <<>>, !.of = None, !.blank = (load.at = "none")]
          /\ UNCHANGED <<Table, load, more, patch>>
      BY <1>6, <2>3 DEF Debounce
    <3>2. <<>> \in Seq(Row)
      OBVIOUS
    <3> DEFINE blank == (load.at = "none")
    <3>3. blank \in BOOLEAN /\ view' = [v EXCEPT !.loaded = FALSE, !.list = <<>>, !.of = None, !.blank = blank]
      BY <3>1
    <3> HIDE DEF v, blank
    <3>4. view' \in ViewType /\ view'.loadingMore = v.loadingMore /\ view'.updating = v.updating
      BY <2>1, <3>2, <3>3 DEF ViewType
    <3> QED BY <2>1, <3>1, <3>4 DEF BookingsTypes, Table
  <2> QED BY <2>2, <2>3
<1>7. CASE Retry
  <2>1. [view EXCEPT !.toast = FALSE] \in ViewType
    BY DEF BookingsTypes, ViewType
  <2>2. /\ [view EXCEPT !.toast = FALSE].loadingMore = view.loadingMore
        /\ [view EXCEPT !.toast = FALSE].updating = view.updating
    BY DEF BookingsTypes, ViewType
  <2> QED BY <1>7, <2>1, <2>2, TypesReload DEF Retry
<1>8. CASE ToastExpires
  BY <1>8 DEF ToastExpires, Table, BookingsTypes, ViewType
<1>9. CASE ServeLists
  <2>1. \A q \in ListRequest({"none", "sent", "ok", "error"}) :
          q \in ListRequest({"closed", "none", "sent", "ok", "error"})
    BY DEF ListRequest
  <2>2. UNCHANGED <<book, changed, view, patch>>
    BY <1>9 DEF ServeLists, Table
  <2>3. CASE load.at = "sent" /\ load' \in Answers(load) /\ UNCHANGED more
    <3>1. load' \in ListRequest({"none", "sent", "ok", "error"}) /\ load'.at = "ok"
      BY <2>3, AnsweredPage DEF BookingsTypes
    <3> QED BY <2>1, <2>2, <2>3, <3>1 DEF BookingsTypes
  <2>4. CASE more.at = "sent" /\ more' \in Answers(more) /\ UNCHANGED load
    <3>1. more' \in ListRequest({"none", "sent", "ok", "error"}) /\ more'.at = "ok"
      BY <2>4, AnsweredPage DEF BookingsTypes
    <3> QED BY <2>2, <2>4, <3>1 DEF BookingsTypes
  <2>5. CASE load.at = "sent" /\ load' = [load EXCEPT !.at = "error"] /\ UNCHANGED more
    BY <2>2, <2>5 DEF BookingsTypes, ListRequest
  <2>6. CASE more.at = "sent" /\ more' = [more EXCEPT !.at = "error"] /\ UNCHANGED load
    BY <2>2, <2>6 DEF BookingsTypes, ListRequest
  <2> QED BY <1>9, <2>3, <2>4, <2>5, <2>6 DEF ServeLists
<1>10. CASE HearLoad
  <2>1. <<>> \in Seq(Row) /\ Request0 \in ListRequest({"closed", "none", "sent", "ok", "error"})
        /\ Request0.at = "none" /\ load.data \in Seq(Row) /\ load.of \in Stamp \cup {None}
    BY OpenedTypes DEF ListRequest, Request0, BookingsTypes
  <2>2. view' \in ViewType /\ view'.loadingMore = view.loadingMore /\ view'.updating = view.updating
    BY <1>10, <2>1 DEF HearLoad, BookingsTypes, ViewType, MayBeMore
  <2>3. load' = Request0 /\ UNCHANGED <<book, changed, more, patch>>
    BY <1>10 DEF HearLoad, Table
  <2> QED BY <2>1, <2>2, <2>3 DEF BookingsTypes
<1>11. CASE LoadMore
  <2>1. Filter(view) \in Filters /\ Len(view.list) \in Nat /\ <<>> \in Seq(Row)
    BY FilterType DEF BookingsTypes, ViewType
  <2>2. more' = Asked(Filter(view), Len(view.list)) /\ UNCHANGED <<book, changed, load, patch>>
    BY <1>11 DEF LoadMore, Table
  <2>3. more' \in ListRequest({"none", "sent", "ok", "error"}) /\ more'.at = "sent" /\ more'.f \in Filters
    BY <2>1, <2>2 DEF Asked, Request0, ListRequest
  <2>4. view' \in ViewType /\ view'.loadingMore = TRUE /\ view'.updating = view.updating
    BY <1>11 DEF LoadMore, BookingsTypes, ViewType
  <2> QED BY <2>2, <2>3, <2>4 DEF BookingsTypes
<1>12. CASE HearMore
  <2>1. /\ Request0 \in ListRequest({"none", "sent", "ok", "error"}) /\ Request0.at = "none"
        /\ more.data \in Seq(Row) /\ view.list \in Seq(Row)
    BY OpenedTypes DEF ListRequest, Request0, BookingsTypes, ViewType
  <2>2. view.list \o more.data \in Seq(Row)
    BY <2>1
  <2>3. view' \in ViewType /\ view'.loadingMore = FALSE /\ view'.updating = view.updating
    <3> DEFINE list == view.list \o more.data
               m == MayBeMore(more.data)
               of == IF view.loaded /\ view.of = more.of /\ more.f = Filter(view)
                        /\ more.skip = Len(view.list)
                     THEN view.of ELSE None
    <3>1. list \in Seq(Row) /\ m \in BOOLEAN /\ of \in Stamp \cup {None} /\ view \in ViewType
      BY <2>2 DEF BookingsTypes, ViewType, MayBeMore
    <3>2. \/ view' = [view EXCEPT !.loaded = TRUE, !.list = list, !.more = m, !.loadingMore = FALSE,
                                  !.blank = FALSE, !.of = of]
          \/ view' = [view EXCEPT !.loadingMore = FALSE, !.toast = TRUE]
      BY <1>12 DEF HearMore
    <3> HIDE DEF list, m, of
    <3> QED BY <3>1, <3>2 DEF ViewType
  <2>4. more' = Request0 /\ UNCHANGED <<book, changed, load, patch>>
    BY <1>12 DEF HearMore, Table
  <2> QED BY <2>1, <2>3, <2>4 DEF BookingsTypes
<1>13. CASE Select
  <2>1. PICK i \in DOMAIN view.list : view' = [view EXCEPT !.selected = view.list[i]]
    BY <1>13 DEF Select
  <2>2. view.list[i] \in Row
    BY DEF BookingsTypes, ViewType
  <2> QED BY <1>13, <2>1, <2>2 DEF Select, Table, BookingsTypes, ViewType
<1>14. CASE CloseDialog
  BY <1>14 DEF CloseDialog, Table, BookingsTypes, ViewType
<1>15. CASE ChangeStatus
  <2>1. PICK row \in Shown, status \in Statuses :
          patch' = [at |-> "sent", row |-> [row EXCEPT !.status = status], of |-> None]
    BY <1>15 DEF ChangeStatus
  <2>2. [row EXCEPT !.status = status] \in Row
    BY ShownRows DEF Row
  <2>3. patch' \in PatchType /\ patch'.row \in Row /\ patch'.at = "sent"
    BY <2>1, <2>2 DEF PatchType
  <2>4. view' \in ViewType /\ view'.loadingMore = view.loadingMore /\ view'.updating = TRUE
    BY <1>15 DEF ChangeStatus, BookingsTypes, ViewType
  <2> QED BY <1>15, <2>3, <2>4 DEF ChangeStatus, Table, BookingsTypes
<1>16. CASE ServePatch
  <2>1. patch.row \in Row /\ patch.row.id \in Ids /\ patch.row.status \in Statuses
    BY <1>16 DEF ServePatch, BookingsTypes, Row
  <2>2. book' \in Tables /\ changed' \in Nat
    BY <1>16, <2>1 DEF ServePatch, Table, BookingsTypes, Tables
  <2>3. /\ patch' \in PatchType /\ patch'.row = patch.row /\ patch'.at \in {"ok", "error"}
        /\ patch'.at = "ok" => patch'.of \in Nat
    <3>1. changed + 1 \in Nat /\ patch \in PatchType
      BY DEF BookingsTypes
    <3> QED BY <1>16, <3>1 DEF ServePatch, PatchType
  <2> QED BY <1>16, <2>1, <2>2, <2>3 DEF ServePatch, BookingsTypes
<1>17. CASE HearPatch
  <2>1. patch.row \in Row /\ NoPatch \in PatchType /\ NoPatch.at = "none"
    BY <1>17, OpenedTypes DEF HearPatch, BookingsTypes, NoPatch
  <2>2. PatchedList(view.list) \in Seq(Row) /\ Patched(view.selected) \in Row \cup {NoRow}
    BY <2>1, PatchedRows DEF BookingsTypes, ViewType
  <2>3. view' \in ViewType /\ view'.loadingMore = view.loadingMore /\ view'.updating = FALSE
    <3> DEFINE list == PatchedList(view.list)
               row == Patched(view.selected)
               next == [view.of EXCEPT !.table = patch.of]
               of == IF view.of = None THEN None
                     ELSE IF view.of.table = patch.of \/ \A i \in DOMAIN view.list : view.list[i].id # patch.row.id
                     THEN view.of
                     ELSE IF view.of.table = patch.of - 1 /\ view.status = None THEN next ELSE None
    <3>0. ASSUME view.of # None, patch.of \in Nat PROVE view.of \in Stamp /\ next \in Stamp
      BY <3>0 DEF BookingsTypes, ViewType, Stamp
    <3>1. /\ list \in Seq(Row) /\ row \in Row \cup {NoRow}
          /\ patch.of \in Nat => of \in Stamp \cup {None}
          /\ view \in ViewType
      <4> HIDE DEF list, row, next
      <4>1. view \in ViewType /\ list \in Seq(Row) /\ row \in Row \cup {NoRow}
        BY <2>2 DEF BookingsTypes, list, row
      <4> QED BY <3>0, <4>1
    <3>2. \/ /\ view' = [view EXCEPT !.updating = FALSE, !.list = list, !.selected = row, !.of = of]
             /\ patch.of \in Nat
          \/ view' = [view EXCEPT !.updating = FALSE, !.toast = TRUE]
      BY <1>17 DEF HearPatch, BookingsTypes
    <3> HIDE DEF list, row, of
    <3> QED BY <3>1, <3>2 DEF ViewType
  <2>4. patch' = NoPatch /\ UNCHANGED <<book, changed, load, more>>
    BY <1>17 DEF HearPatch, Table
  <2> QED BY <2>1, <2>3, <2>4 DEF BookingsTypes
<1>18. CASE OthersChange
  <2>1. "CONFIRMED" \in Statuses
    BY BookingsAssumption
  <2>2. book' \in Tables /\ changed' \in Nat
    BY <1>18, <2>1 DEF OthersChange, BookingsTypes, Tables
  <2> QED BY <1>18, <2>2 DEF OthersChange, BookingsTypes
<1>19. CASE OnBookings
  BY <1>19, <1>3, <1>4, <1>5, <1>6, <1>7, <1>8, <1>9, <1>10, <1>11, <1>12, <1>13, <1>14, <1>15,
     <1>16, <1>17, <1>18
     DEF OnBookings, BookingsNext
<1>20. ASSUME NEW t \in Tabs, Navigate(t) \/ SignOut(t) PROVE BookingsTypes'
  BY <1>20, <1>2 DEF Navigate, SignOut
<1>21. ASSUME NEW t \in Tabs, OnSettings(t) PROVE BookingsTypes'
  BY <1>21, <1>1 DEF OnSettings
<1>22. CASE OnReports \/ ServeSaves
  BY <1>22, <1>1 DEF OnReports, ServeSaves
<1>23. CASE UNCHANGED vars
  BY <1>23, <1>1 DEF vars, Bookings
<1> QED BY <1>19, <1>20, <1>21, <1>22, <1>23 DEF Next

-----------------------------------------------------------------------------
(* The states the table has had: H[n] is the one after n changes.  What a  *)
(* list or an answer is of, is a query of one of them.                     *)

History(H) == H \in [Nat -> Tables] /\ H[changed] = book

(* The list is the beginning of what the chosen filter gave.               *)
ViewOf(H) ==
  view.of # None =>
    /\ view.of.table <= changed
    /\ Begins(view.list, H[view.of.table], Filter(view), view.of.day)
    /\ ~view.more =>
         Len(view.list) = Cardinality(MatchingIds(H[view.of.table], Filter(view), view.of.day))

(* The load under way is for the chosen filter.                            *)
LoadOf(H) ==
  /\ load.at \in {"sent", "ok", "error"} => load.f = Filter(view) /\ load.skip = 0
  /\ load.at = "ok" =>
       /\ load.of \in Stamp /\ load.of.table <= changed
       /\ IsPage(H[load.of.table], load.f, load.of.day, 0, load.data)

MoreOf(H) ==
  more.at = "ok" =>
    /\ more.of \in Stamp /\ more.of.table <= changed
    /\ IsPage(H[more.of.table], more.f, more.of.day, more.skip, more.data)

(* An answered change of status made one state from the one before.        *)
PatchOf(H) ==
  patch.at = "ok" =>
    /\ patch.of \in 1 .. changed
    /\ H[patch.of] = [H[patch.of - 1] EXCEPT ![patch.row.id] = patch.row.status]

Tells(H) == History(H) /\ ViewOf(H) /\ LoadOf(H) /\ MoreOf(H) /\ PatchOf(H)

ListInv == BookingsTypes /\ now \in Nat /\ \E H : Tells(H)

(* A step of the page's own leaves the table: the same states tell of it.  *)
LEMMA ViewOfSame ==
  ASSUME NEW H, ViewOf(H), changed' = changed, Filter(view)' = Filter(view),
         view'.of = view.of, view'.list = view.list, view'.more = view.more
  PROVE  ViewOf(H)'
BY DEF ViewOf

LEMMA LoadOfSame ==
  ASSUME NEW H, LoadOf(H), changed' = changed, Filter(view)' = Filter(view), load' = load
  PROVE  LoadOf(H)'
BY DEF LoadOf

LEMMA RestOfSame ==
  ASSUME NEW H, Tells(H), UNCHANGED <<book, changed>>
  PROVE  /\ History(H)'
         /\ more' = more => MoreOf(H)'
         /\ patch' = patch => PatchOf(H)'
BY DEF Tells, History, MoreOf, PatchOf

LEMMA TellsReload ==
  ASSUME NEW H, Tells(H), NEW v \in ViewType, Reload(v), UNCHANGED <<Table, more, patch>>
  PROVE  Tells(H)'
<1>1. view'.of = None /\ Filter(view)' = Filter(v)
  BY DEF Reload, ViewType, Filter
<1>2. ViewOf(H)'
  BY <1>1 DEF ViewOf
<1>3. load'.at = "sent" /\ load'.f = Filter(v) /\ load'.skip = 0
  BY DEF Reload, Asked, Request0
<1>4. LoadOf(H)'
  BY <1>1, <1>3 DEF LoadOf
<1> QED BY <1>2, <1>4, RestOfSame DEF Tells, Table

LEMMA TellsOpen ==
  ASSUME NEW H, NEW page, H \in [Nat -> Tables], H[changed'] = book',
         view' = Opened, load' = FirstLoad(page), more' = Request0, patch' = NoPatch
  PROVE  Tells(H)'
<1>1. view'.of = None /\ more'.at = "none" /\ patch'.at = "none"
  BY DEF Opened, Request0, NoPatch
<1>2. ViewOf(H)' /\ MoreOf(H)' /\ PatchOf(H)'
  BY <1>1 DEF ViewOf, MoreOf, PatchOf
<1>3. load'.at \in {"closed", "sent"} /\ (load'.at = "sent" => load'.f = Filter(view)' /\ load'.skip = 0)
  BY OpenedTypes DEF Filter
<1>4. LoadOf(H)'
  BY <1>3 DEF LoadOf
<1> QED BY <1>2, <1>4 DEF Tells, History

(* A change of the table adds a state, and what is of earlier ones still   *)
(* is.                                                                     *)
LEMMA TellsChange ==
  ASSUME BookingsTypes, NEW H, Tells(H), changed' = changed + 1, book' \in Tables,
         UNCHANGED <<view, load, more>>
  PROVE  \E G : /\ G \in [Nat -> Tables] /\ G[changed + 1] = book' /\ G[changed] = book
                /\ History(G)' /\ ViewOf(G)' /\ LoadOf(G)' /\ MoreOf(G)'
                /\ patch' = patch => PatchOf(G)'
<1>1. H \in [Nat -> Tables] /\ H[changed] = book /\ changed \in Nat
  BY DEF Tells, History, BookingsTypes
<1>2. PICK G \in [Nat -> Tables] :
        G[changed + 1] = book' /\ \A n \in Nat : n <= changed => G[n] = H[n]
  <2> DEFINE F == [H EXCEPT ![changed + 1] = book']
  <2>1. F \in [Nat -> Tables] /\ F[changed + 1] = book'
    BY <1>1
  <2>2. \A n \in Nat : n <= changed => F[n] = H[n]
    BY <1>1
  <2> HIDE DEF F
  <2> QED BY <2>1, <2>2
<1>3. History(G)'
  BY <1>1, <1>2 DEF History
<1>4. ViewOf(G)'
  <2>1. view.of # None => view.of.table \in Nat
    BY DEF BookingsTypes, ViewType, Stamp
  <2> QED BY <1>1, <1>2, <2>1 DEF Tells, ViewOf, Filter
<1>5. LoadOf(G)'
  <2>1. load.at = "ok" => load.of.table \in Nat
    BY DEF Tells, LoadOf, Stamp
  <2> QED BY <1>1, <1>2, <2>1 DEF Tells, LoadOf, Filter
<1>6. MoreOf(G)'
  <2>1. more.at = "ok" => more.of.table \in Nat
    BY DEF Tells, MoreOf, Stamp
  <2> QED BY <1>1, <1>2, <2>1 DEF Tells, MoreOf
<1>7. ASSUME patch' = patch PROVE PatchOf(G)'
  <2>1. patch.at = "ok" => patch.of \in 1 .. changed /\ patch.of \in Nat /\ patch.of - 1 \in Nat
    BY <1>1 DEF Tells, PatchOf
  <2> QED BY <1>1, <1>2, <1>7, <2>1 DEF Tells, PatchOf
<1> QED BY <1>1, <1>2, <1>3, <1>4, <1>5, <1>6, <1>7

(* A change of status, heard: the list it patches is, if it was of the     *)
(* state before or of the one after, of the one after.                     *)
FollowsPatch(b, c, row, f, day, s, t) ==
  /\ (\A i \in DOMAIN s : s[i].id # row.id) => t = s
  /\ Begins(s, c, f, day) => t = s
  /\ Begins(s, b, f, day) /\ f.status = None /\ (\E i \in DOMAIN s : s[i].id = row.id) =>
       /\ Begins(t, c, f, day) /\ Len(t) = Len(s)
       /\ MatchingIds(c, f, day) = MatchingIds(b, f, day)

LEMMA PatchedIsNext ==
  ASSUME NEW b \in Tables, NEW row \in Row, NEW f, NEW day, NEW s \in Seq(Row)
  PROVE  FollowsPatch(b, [b EXCEPT ![row.id] = row.status], row, f, day, s, Restatus(s, row))
<1> DEFINE c == [b EXCEPT ![row.id] = row.status]
           t == Restatus(s, row)
<1>1. t = [i \in DOMAIN s |-> IF s[i].id = row.id THEN row ELSE s[i]] /\ s = [i \in DOMAIN s |-> s[i]]
      /\ DOMAIN s = 1 .. Len(s) /\ Len(s) \in Nat
  BY DEF Restatus
<1>2. (\A i \in DOMAIN s : s[i].id # row.id) => t = s
  BY <1>1
<1>3. c \in Tables /\ \A id \in Ids : c[id] = IF id = row.id THEN row.status ELSE b[id]
  BY DEF Tables, Row
<1>4. ASSUME Begins(s, c, f, day) PROVE t = s
  <2>1. ASSUME NEW i \in DOMAIN s, s[i].id = row.id PROVE s[i] = row
    <3> HIDE DEF c, t
    <3>1. s[i].status = c[row.id] /\ s[i] \in Row /\ row.id \in Ids
      <4>1. Placed(c, f, day, s[i], i)
        BY <1>1, <1>4, <2>1 DEF Begins
      <4> QED BY <2>1, <4>1, ListedRow DEF Placed
    <3>2. \A x \in Row : x = [id |-> x.id, status |-> x.status]
      BY DEF Row
    <3>3. s[i] = [id |-> s[i].id, status |-> s[i].status] /\ row = [id |-> row.id, status |-> row.status]
      BY <3>1, <3>2
    <3> QED BY <1>3, <2>1, <3>1, <3>3
  <2> QED BY <1>1, <2>1
<1>5. ASSUME Begins(s, b, f, day), f.status = None, NEW k \in DOMAIN s, s[k].id = row.id
      PROVE  /\ Begins(t, c, f, day) /\ Len(t) = Len(s)
             /\ MatchingIds(c, f, day) = MatchingIds(b, f, day)
  <2>1. b[row.id] # None
    BY <1>1, <1>5 DEF Begins, Placed, MatchesIn
  <2>2. MatchingIds(c, f, day) = MatchingIds(b, f, day)
    BY <1>5, <2>1, MatchingRestatus
  <2>3. Len(t) = Len(s)
    BY <1>1
  <2>4. ASSUME NEW i \in 1 .. Len(s) PROVE Placed(c, f, day, t[i], i)
    <3>1. Placed(b, f, day, s[i], i) /\ s[i] \in Row /\ i \in DOMAIN s
      BY <1>1, <1>5 DEF Begins
    <3>2. t[i].id = s[i].id /\ s[i].id \in Ids
      BY <1>1, <3>1 DEF Row
    <3>3. t[i].status = c[s[i].id]
      BY <1>1, <1>3, <3>1, <3>2 DEF Placed
    <3>4. MatchesIn(c, s[i].id, f, day)
      <4>1. s[i].id \in MatchingIds(b, f, day)
        BY <3>1, <3>2 DEF Placed, MatchingIds
      <4>2. s[i].id \in MatchingIds(c, f, day)
        <5> HIDE DEF c
        <5> QED BY <2>2, <4>1
      <4> QED BY <4>2 DEF MatchingIds
    <3> HIDE DEF c, t
    <3> QED BY <2>2, <3>1, <3>2, <3>3, <3>4 DEF Placed
  <2> HIDE DEF c, t
  <2> QED BY <1>5, <2>2, <2>3, <2>4 DEF Begins
<1> QED BY <1>2, <1>4, <1>5 DEF FollowsPatch

LEMMA StampNotNone ==
  ASSUME NEW x \in Stamp
  PROVE  x # None
BY BookingsAssumption DEF Stamp

LEMMA FilterKept ==
  ASSUME view'.scope = view.scope, view'.status = view.status, view'.debounced = view.debounced
  PROVE  Filter(view)' = Filter(view)
BY DEF Filter

LEMMA TellsHearLoad ==
  ASSUME BookingsTypes, NEW H, Tells(H), HearLoad
  PROVE  Tells(H)'
<1>1. view \in ViewType /\ <<>> \in Seq(Row)
  BY DEF BookingsTypes
<1>2. Filter(view)' = Filter(view)
  <2>1. view'.scope = view.scope /\ view'.status = view.status /\ view'.debounced = view.debounced
    BY <1>1 DEF HearLoad, ViewType
  <2> QED BY <2>1, FilterKept
<1>3. load'.at = "none" /\ UNCHANGED <<book, changed, more, patch>>
  BY DEF HearLoad, Request0, Table
<1>4. CASE load.at = "ok"
  <2> DEFINE d == load.data
             b == H[load.of.table]
             day == load.of.day
  <2>1. /\ load.of \in Stamp /\ load.of.table <= changed
        /\ IsPage(b, Filter(view), day, 0, d)
    BY <1>4 DEF Tells, LoadOf
  <2>2. view'.list = d /\ view'.of = load.of /\ view'.more = MayBeMore(d)
    BY <1>1, <1>4 DEF HearLoad, ViewType
  <2>3. /\ Begins(d, b, Filter(view), day)
        /\ ~MayBeMore(d) => Len(d) = Cardinality(MatchingIds(b, Filter(view), day))
    <3> HIDE DEF b, d, day
    <3> QED BY <2>1, FirstPage DEF MayBeMore
  <2>4. ViewOf(H)'
    BY <1>2, <1>3, <2>1, <2>2, <2>3 DEF ViewOf
  <2> QED BY <1>3, <2>4, RestOfSame DEF Tells, LoadOf
<1>5. CASE load.at = "error"
  <2>1. view'.of = None
    BY <1>1, <1>5 DEF HearLoad, ViewType
  <2>2. ViewOf(H)'
    BY <2>1 DEF ViewOf
  <2> QED BY <1>3, <2>2, RestOfSame DEF Tells, LoadOf
<1> QED BY <1>4, <1>5 DEF HearLoad

LEMMA TellsHearMore ==
  ASSUME BookingsTypes, NEW H, Tells(H), HearMore
  PROVE  Tells(H)'
<1>1. view \in ViewType /\ more.data \in Seq(Row) /\ view.list \in Seq(Row)
  BY DEF BookingsTypes, ViewType, ListRequest
<1>2. Filter(view)' = Filter(view)
  <2>1. view'.scope = view.scope /\ view'.status = view.status /\ view'.debounced = view.debounced
    BY <1>1 DEF HearMore, ViewType
  <2> QED BY <2>1, FilterKept
<1>3. more'.at = "none" /\ UNCHANGED <<book, changed, load, patch>>
  BY DEF HearMore, Request0, Table
<1>4. History(H)' /\ LoadOf(H)' /\ MoreOf(H)' /\ PatchOf(H)'
  BY <1>2, <1>3, RestOfSame, LoadOfSame DEF Tells, MoreOf
<1>5. CASE more.at = "ok"
  <2> DEFINE d == more.data
             list == view.list \o d
             f == Filter(view)
             kept == view.loaded /\ view.of = more.of /\ more.f = f /\ more.skip = Len(view.list)
  <2>1. view'.list = list /\ view'.of = (IF kept THEN view.of ELSE None) /\ view'.more = MayBeMore(d)
    BY <1>1, <1>5 DEF HearMore, ViewType
  <2>2. CASE ~kept
    BY <2>1, <2>2, <1>4 DEF Tells, ViewOf
  <2>3. CASE kept
    <3> DEFINE b == H[view.of.table]
               day == view.of.day
    <3>1. view.of \in Stamp /\ view.of.table <= changed /\ view.of # None
      BY <1>5, <2>3, StampNotNone DEF Tells, MoreOf
    <3>2. IsPage(b, f, day, Len(view.list), d)
      BY <1>5, <2>3 DEF Tells, MoreOf
    <3>3. Begins(view.list, b, f, day)
      BY <3>1 DEF Tells, ViewOf
    <3>4. /\ Begins(list, b, f, day)
          /\ ~MayBeMore(d) => Len(list) = Cardinality(MatchingIds(b, f, day))
      <4> HIDE DEF b, d, f, day
      <4> QED BY <1>1, <3>2, <3>3, NextPage DEF MayBeMore
    <3>6. ViewOf(H)'
      <4> HIDE DEF list, d, kept
      <4> QED BY <1>2, <1>3, <2>1, <2>3, <3>1, <3>4 DEF ViewOf
    <3> QED BY <1>4, <3>6 DEF Tells
  <2> QED BY <2>2, <2>3
<1>6. CASE more.at = "error"
  <2>1. view'.of = view.of /\ view'.list = view.list /\ view'.more = view.more
    BY <1>1, <1>6 DEF HearMore, ViewType
  <2> QED BY <1>2, <1>3, <1>4, <2>1, ViewOfSame DEF Tells
<1> QED BY <1>5, <1>6 DEF HearMore

LEMMA TellsHearPatch ==
  ASSUME BookingsTypes, NEW H, Tells(H), HearPatch
  PROVE  Tells(H)'
<1> DEFINE row == patch.row
           f == Filter(view)
           t == PatchedList(view.list)
           s == view.list
<1>1. view \in ViewType /\ row \in Row /\ s \in Seq(Row) /\ changed \in Nat
  BY DEF BookingsTypes, ViewType, HearPatch
<1>2. Filter(view)' = f
  <2>1. view'.scope = view.scope /\ view'.status = view.status /\ view'.debounced = view.debounced
    BY <1>1 DEF HearPatch, ViewType
  <2> QED BY <2>1, FilterKept
<1>3. patch'.at = "none" /\ UNCHANGED <<book, changed, load, more>>
  BY DEF HearPatch, NoPatch, Table
<1>4. History(H)' /\ LoadOf(H)' /\ MoreOf(H)' /\ PatchOf(H)'
  BY <1>2, <1>3, RestOfSame, LoadOfSame DEF Tells, PatchOf
<1>5. CASE patch.at = "ok"
  <2> DEFINE b == H[patch.of - 1]
             c == H[patch.of]
             absent == \A i \in DOMAIN s : s[i].id # row.id
  <2>1. patch.of \in 1 .. changed /\ c = [b EXCEPT ![row.id] = row.status]
    BY <1>5 DEF Tells, PatchOf
  <2>2. b \in Tables /\ c \in Tables
    BY <1>1, <2>1 DEF Tells, History
  <2>3. t = Restatus(s, row)
    BY DEF PatchedList, Patched, Restatus
  <2>4. /\ view'.list = t /\ view'.more = view.more
        /\ view'.of = IF view.of = None THEN None
                      ELSE IF view.of.table = patch.of \/ absent THEN view.of
                      ELSE IF view.of.table = patch.of - 1 /\ view.status = None
                           THEN [view.of EXCEPT !.table = patch.of] ELSE None
    BY <1>1, <1>5 DEF HearPatch, ViewType
  <2>5. ASSUME NEW day
        PROVE  /\ absent => t = s
               /\ Begins(s, c, f, day) => t = s
               /\ Begins(s, b, f, day) /\ f.status = None /\ ~absent =>
                    /\ Begins(t, c, f, day) /\ Len(t) = Len(s)
                    /\ MatchingIds(c, f, day) = MatchingIds(b, f, day)
    <3> HIDE DEF f, s, row, t, b, c
    <3>1. FollowsPatch(b, [b EXCEPT ![row.id] = row.status], row, f, day, s, Restatus(s, row))
      BY <1>1, <2>2, PatchedIsNext
    <3>2. FollowsPatch(b, c, row, f, day, s, t)
      BY <2>1, <2>3, <3>1
    <3> QED BY <3>2 DEF FollowsPatch
  <2> DEFINE day == view.of.day
  <2>6. CASE view'.of = None
    BY <1>4, <2>6 DEF Tells, ViewOf
  <2>7. CASE view.of # None /\ (view.of.table = patch.of \/ absent)
    <3>1. view'.of = view.of
      BY <2>4, <2>7
    <3>2. t = s
      <4>1. view.of.table = patch.of => Begins(s, c, f, day)
        BY <2>7 DEF Tells, ViewOf
      <4> QED BY <2>5, <2>7, <4>1
    <3>3. ViewOf(H)'
      <4>1. view'.list = view.list
        BY <2>4, <3>2
      <4> QED BY <1>2, <1>3, <2>4, <3>1, <4>1, ViewOfSame DEF Tells
    <3> QED BY <1>4, <3>3 DEF Tells
  <2>8. CASE view.of # None /\ view'.of # None /\ ~(view.of.table = patch.of \/ absent)
    <3>1. view.of.table = patch.of - 1 /\ view.status = None /\ view'.of = [view.of EXCEPT !.table = patch.of]
      BY <2>4, <2>8
    <3>2. view'.of.table = patch.of /\ view'.of.day = day
      BY <2>8, <3>1 DEF Stamp, ViewType, BookingsTypes
    <3>3. f.status = None
      BY <3>1 DEF Filter
    <3>4. /\ Begins(s, b, f, day)
          /\ ~view.more => Len(s) = Cardinality(MatchingIds(b, f, day))
      BY <2>8, <3>1 DEF Tells, ViewOf
    <3>5. /\ Begins(t, c, f, day)
          /\ ~view.more => Len(t) = Cardinality(MatchingIds(c, f, day))
      <4>1. /\ Begins(t, c, f, day) /\ Len(t) = Len(s)
            /\ MatchingIds(c, f, day) = MatchingIds(b, f, day)
        BY <2>5, <2>8, <3>3, <3>4
      <4> HIDE DEF t, s, b, c, f, day
      <4> QED BY <3>4, <4>1
    <3>6. ViewOf(H)'
      <4> HIDE DEF t, s, f, absent, day
      <4> QED BY <1>2, <1>3, <2>1, <2>4, <3>2, <3>5 DEF ViewOf
    <3> QED BY <1>4, <3>6 DEF Tells
  <2>9. view'.of # None => view.of # None
    BY <2>4
  <2> QED BY <2>6, <2>7, <2>8, <2>9
<1>6. CASE patch.at = "error"
  <2>1. view'.of = view.of /\ view'.list = view.list /\ view'.more = view.more
    BY <1>1, <1>6 DEF HearPatch, ViewType
  <2> QED BY <1>2, <1>3, <1>4, <2>1, ViewOfSame DEF Tells
<1> QED BY <1>5, <1>6 DEF HearPatch

LEMMA TellsServe ==
  ASSUME BookingsTypes, now \in Nat, NEW H, Tells(H), ServeLists
  PROVE  Tells(H)'
<1>1. UNCHANGED <<book, changed, view, patch>> /\ Filter(view)' = Filter(view)
  BY DEF ServeLists, Table, Filter
<1>2. History(H)' /\ ViewOf(H)' /\ PatchOf(H)'
  BY <1>1, ViewOfSame, RestOfSame DEF Tells
<1>3. changed \in Nat /\ H[changed] = book
  BY DEF BookingsTypes, Tells, History
<1>4. ASSUME NEW ats, NEW q \in ListRequest(ats), q.f \in Filters, NEW r \in Answers(q)
      PROVE  /\ r.at = "ok" /\ r.f = q.f /\ r.skip = q.skip
             /\ r.of \in Stamp /\ r.of.table = changed
             /\ IsPage(H[r.of.table], r.f, r.of.day, r.skip, r.data)
  <2>1. /\ r.at = "ok" /\ r.f = q.f /\ r.skip = q.skip
        /\ r.of \in Stamp /\ r.of.table = changed /\ r.of.day = UtcDay(now)
        /\ IsPage(book, q.f, UtcDay(now), q.skip, r.data)
    BY <1>4, AnsweredPage
  <2> QED BY <1>3, <2>1
<1>5. CASE load.at = "sent" /\ load' \in Answers(load) /\ UNCHANGED more
  <2>1. /\ load'.at = "ok" /\ load'.f = load.f /\ load'.skip = load.skip
        /\ load'.of \in Stamp /\ load'.of.table = changed
        /\ IsPage(H[load'.of.table], load'.f, load'.of.day, load'.skip, load'.data)
    BY <1>4, <1>5 DEF BookingsTypes
  <2>2. load'.f = Filter(view) /\ load'.skip = 0
    BY <1>5, <2>1 DEF Tells, LoadOf
  <2>3. LoadOf(H)'
    BY <1>1, <1>3, <2>1, <2>2 DEF LoadOf
  <2> QED BY <1>1, <1>2, <1>5, <2>3, RestOfSame DEF Tells
<1>6. CASE more.at = "sent" /\ more' \in Answers(more) /\ UNCHANGED load
  <2>1. LoadOf(H)'
    BY <1>1, <1>6, LoadOfSame DEF Tells
  <2>2. /\ more'.of \in Stamp /\ more'.of.table = changed
        /\ IsPage(H[more'.of.table], more'.f, more'.of.day, more'.skip, more'.data)
    BY <1>4, <1>6 DEF BookingsTypes
  <2>3. MoreOf(H)'
    BY <1>1, <1>3, <2>2 DEF MoreOf
  <2> QED BY <1>2, <2>1, <2>3 DEF Tells
<1>7. CASE load.at = "sent" /\ load' = [load EXCEPT !.at = "error"] /\ UNCHANGED more
  <2>1. load'.at = "error" /\ load'.f = load.f /\ load'.skip = load.skip
    BY <1>7 DEF BookingsTypes, ListRequest
  <2>2. LoadOf(H)'
    BY <1>1, <1>7, <2>1 DEF Tells, LoadOf
  <2> QED BY <1>1, <1>2, <1>7, <2>2, RestOfSame DEF Tells
<1>8. CASE more.at = "sent" /\ more' = [more EXCEPT !.at = "error"] /\ UNCHANGED load
  <2>1. more'.at = "error"
    BY <1>8 DEF BookingsTypes, ListRequest
  <2> QED BY <1>1, <1>2, <1>8, <2>1, LoadOfSame DEF Tells, MoreOf
<1> QED BY <1>5, <1>6, <1>7, <1>8 DEF ServeLists

LEMMA TellsStep ==
  ASSUME BookingsTypes, now \in Nat, NEW H, Tells(H), [Next]_vars
  PROVE  \E G : Tells(G)'
<1>0. BookingsTypes' /\ view \in ViewType /\ H \in [Nat -> Tables] /\ H[changed] = book
  BY BookingsTypesStep DEF BookingsTypes, Tells, History
<1>1. ASSUME UNCHANGED Bookings PROVE Tells(H)'
  BY <1>1 DEF Bookings, Tells, History, ViewOf, LoadOf, MoreOf, PatchOf, Filter
<1>2. ASSUME NEW page, NEW t, Open(page, t) PROVE Tells(H)'
  BY <1>0, <1>2, TellsOpen DEF Open
<1>3. ASSUME NEW v \in ViewType, Reload(v), UNCHANGED <<Table, more, patch>> PROVE Tells(H)'
  BY <1>3, TellsReload
<1>4. ASSUME UNCHANGED <<book, changed, load, more, patch>>,
             view'.scope = view.scope, view'.status = view.status, view'.debounced = view.debounced,
             \/ view'.of = view.of /\ view'.list = view.list /\ view'.more = view.more
             \/ view'.of = None
      PROVE  Tells(H)'
  <2>1. Filter(view)' = Filter(view)
    BY <1>4, FilterKept
  <2>2. ViewOf(H)'
    BY <1>4, <2>1, ViewOfSame DEF Tells, ViewOf
  <2> QED BY <1>4, <2>1, <2>2, LoadOfSame, RestOfSame DEF Tells
<1>5. CASE ChooseScope
  <2>1. PICK scope \in Scopes : Reload([view EXCEPT !.scope = scope])
    BY <1>5 DEF ChooseScope, Scopes
  <2>2. [view EXCEPT !.scope = scope] \in ViewType
    BY <1>0 DEF ViewType
  <2> QED BY <1>3, <1>5, <2>1, <2>2 DEF ChooseScope
<1>6. CASE ChooseStatus
  <2>1. PICK status \in Statuses \cup {None} : Reload([view EXCEPT !.status = status])
    BY <1>6 DEF ChooseStatus
  <2>2. [view EXCEPT !.status = status] \in ViewType
    BY <1>0 DEF ViewType
  <2> QED BY <1>3, <1>6, <2>1, <2>2 DEF ChooseStatus
<1>7. CASE Type
  BY <1>0, <1>4, <1>7 DEF Type, Table, ViewType
<1>8. CASE Debounce
  <2> DEFINE v == [view EXCEPT !.typing = FALSE, !.debounced = view.search]
             blank == (load.at = "none")
  <2>1. v \in ViewType /\ (view.debounced = view.search => v.debounced = view.debounced)
        /\ v.scope = view.scope /\ v.status = view.status
    BY <1>0 DEF ViewType
  <2>2. CASE view.debounced # view.search
    <3>1. Reload(v) /\ UNCHANGED <<Table, more, patch>>
      BY <1>8, <2>2 DEF Debounce
    <3> HIDE DEF v
    <3> QED BY <1>3, <2>1, <3>1
  <2>3. CASE view.debounced = view.search
    <3>1. /\ view' = [v EXCEPT !.loaded = FALSE, !.list = <<>>, !.of = None, !.blank = blank]
          /\ UNCHANGED <<Table, load, more, patch>>
      BY <1>8, <2>3 DEF Debounce
    <3> HIDE DEF v, blank
    <3>2. view'.scope = v.scope /\ view'.status = v.status /\ view'.debounced = v.debounced /\ view'.of = None
      BY <2>1, <3>1 DEF ViewType
    <3> QED BY <1>4, <2>1, <2>3, <3>1, <3>2 DEF Table
  <2> QED BY <2>2, <2>3
<1>9. CASE Retry
  <2>1. [view EXCEPT !.toast = FALSE] \in ViewType
    BY <1>0 DEF ViewType
  <2> QED BY <1>3, <1>9, <2>1 DEF Retry
<1>10. CASE ToastExpires
  BY <1>0, <1>4, <1>10 DEF ToastExpires, Table, ViewType
<1>11. CASE ServeLists
  BY <1>11, TellsServe
<1>12. CASE HearLoad
  BY <1>12, TellsHearLoad
<1>13. CASE LoadMore
  <2>1. more'.at = "sent" /\ UNCHANGED <<book, changed, load, patch>>
    BY <1>13 DEF LoadMore, Table, Asked, Request0
  <2>2. /\ view'.of = view.of /\ view'.list = view.list /\ view'.more = view.more
        /\ view'.scope = view.scope /\ view'.status = view.status /\ view'.debounced = view.debounced
    BY <1>0, <1>13 DEF LoadMore, ViewType
  <2>3. Filter(view)' = Filter(view)
    BY <2>2, FilterKept
  <2>4. MoreOf(H)'
    BY <2>1 DEF MoreOf
  <2> QED BY <2>1, <2>2, <2>3, <2>4, ViewOfSame, LoadOfSame, RestOfSame DEF Tells
<1>14. CASE HearMore
  BY <1>14, TellsHearMore
<1>15. CASE Select
  BY <1>0, <1>4, <1>15 DEF Select, Table, ViewType
<1>16. CASE CloseDialog
  BY <1>0, <1>4, <1>16 DEF CloseDialog, Table, ViewType
<1>17. CASE ChangeStatus
  <2>1. patch'.at = "sent" /\ UNCHANGED <<book, changed, load, more>>
    BY <1>17 DEF ChangeStatus, Table
  <2>2. /\ view'.of = view.of /\ view'.list = view.list /\ view'.more = view.more
        /\ view'.scope = view.scope /\ view'.status = view.status /\ view'.debounced = view.debounced
    BY <1>0, <1>17 DEF ChangeStatus, ViewType
  <2>3. Filter(view)' = Filter(view)
    BY <2>2, FilterKept
  <2>4. PatchOf(H)'
    BY <2>1 DEF PatchOf
  <2> QED BY <2>1, <2>2, <2>3, <2>4, ViewOfSame, LoadOfSame, RestOfSame DEF Tells
<1>18. CASE ServePatch
  <2>1. CASE changed' = changed + 1 /\ book' = [book EXCEPT ![patch.row.id] = patch.row.status]
    <3>1. book' \in Tables /\ changed \in Nat
      BY <1>0 DEF BookingsTypes
    <3>2. UNCHANGED <<view, load, more>>
      BY <1>18 DEF ServePatch
    <3>3. PICK G : /\ G \in [Nat -> Tables] /\ G[changed + 1] = book' /\ G[changed] = book
                   /\ History(G)' /\ ViewOf(G)' /\ LoadOf(G)' /\ MoreOf(G)'
      BY <2>1, <3>1, <3>2, TellsChange
    <3>4. \/ patch'.at = "ok" /\ patch'.of = changed + 1 /\ patch'.row = patch.row
          \/ patch'.at = "error"
      BY <1>18, <2>1, <3>1 DEF ServePatch, Table, BookingsTypes, PatchType
    <3>5. PatchOf(G)'
      <4>1. CASE patch'.at = "error"
        BY <4>1 DEF PatchOf
      <4>2. CASE patch'.at = "ok" /\ patch'.of = changed + 1 /\ patch'.row = patch.row
        <5>1. (changed + 1) - 1 = changed /\ changed + 1 \in 1 .. changed + 1
          BY <3>1
        <5> QED BY <2>1, <3>3, <4>2, <5>1 DEF PatchOf
      <4> QED BY <3>4, <4>1, <4>2
    <3> QED BY <3>3, <3>5 DEF Tells
  <2>2. CASE UNCHANGED Table /\ patch' = [patch EXCEPT !.at = "error"]
    <3>1. UNCHANGED <<book, changed, view, load, more>> /\ patch'.at = "error"
      BY <1>18, <2>2 DEF ServePatch, Table, BookingsTypes, PatchType
    <3>2. Filter(view)' = Filter(view) /\ PatchOf(H)'
      BY <3>1 DEF Filter, PatchOf
    <3> QED BY <3>1, <3>2, ViewOfSame, LoadOfSame, RestOfSame DEF Tells
  <2> QED BY <1>18, <2>1, <2>2 DEF ServePatch
<1>19. CASE HearPatch
  BY <1>19, TellsHearPatch
<1>20. CASE OthersChange
  <2>1. book' \in Tables /\ changed' = changed + 1 /\ UNCHANGED <<view, load, more, patch>>
    BY <1>0, <1>20 DEF OthersChange, BookingsTypes
  <2>2. PICK G : History(G)' /\ ViewOf(G)' /\ LoadOf(G)' /\ MoreOf(G)' /\ PatchOf(G)'
    BY <2>1, TellsChange
  <2> QED BY <2>2 DEF Tells
<1>21. CASE OnBookings
  BY <1>21, <1>5, <1>6, <1>7, <1>8, <1>9, <1>10, <1>11, <1>12, <1>13, <1>14, <1>15, <1>16, <1>17,
     <1>18, <1>19, <1>20
     DEF OnBookings, BookingsNext
<1>22. ASSUME NEW t \in Tabs, Navigate(t) \/ SignOut(t) PROVE Tells(H)'
  BY <1>22, <1>2 DEF Navigate, SignOut
<1>23. ASSUME NEW t \in Tabs, OnSettings(t) PROVE Tells(H)'
  BY <1>23, <1>1 DEF OnSettings
<1>24. CASE OnReports \/ ServeSaves
  BY <1>24, <1>1 DEF OnReports, ServeSaves
<1>25. CASE UNCHANGED vars
  BY <1>25, <1>1 DEF vars, Bookings
<1> QED BY <1>21, <1>22, <1>23, <1>24, <1>25 DEF Next

LEMMA ListInit == Init => ListInv
<1> SUFFICES ASSUME Init PROVE ListInv
  OBVIOUS
<1>1. book \in Tables /\ changed \in Nat
  BY StartAssumption DEF Init, Tables, Ids
<1>2. Filter(Opened) \in Filters
  BY OpenedTypes, FilterType
<1>3. BookingsTypes
  <2>1. /\ Opened.loadingMore = FALSE /\ Opened.updating = FALSE
        /\ Request0.at = "none" /\ NoPatch.at = "none"
    BY DEF Opened, Request0, NoPatch
  <2> QED BY <1>1, <1>2, <2>1, OpenedTypes DEF Init, BookingsTypes
<1> DEFINE H == [n \in Nat |-> book]
<1>4. History(H)
  BY <1>1 DEF History
<1> HIDE DEF H
<1>5. view = Opened /\ load = FirstLoad(open) /\ more = Request0 /\ patch = NoPatch
  BY DEF Init
<1>6. view.of = None /\ more.at = "none" /\ patch.at = "none"
  BY <1>5 DEF Opened, Request0, NoPatch
<1>7. load.at \in {"closed", "sent"} /\ (load.at = "sent" => load.f = Filter(view) /\ load.skip = 0)
  BY <1>5, OpenedTypes
<1>8. ViewOf(H) /\ LoadOf(H) /\ MoreOf(H) /\ PatchOf(H)
  BY <1>6, <1>7 DEF ViewOf, LoadOf, MoreOf, PatchOf
<1>9. now \in Nat
  <2>1. open \in FirstPages /\ now = FirstTime[open]
    BY DEF Init
  <2>2. \A page \in FirstPages : FirstTime[page] \in 1 .. LastTime
    BY StartAssumption
  <2> QED BY <2>1, <2>2, ReportsAssumption
<1> QED BY <1>3, <1>4, <1>8, <1>9 DEF ListInv, Tells

LEMMA ListStep ==
  ASSUME ListInv, [Next]_vars
  PROVE  ListInv'
<1>1. BookingsTypes' /\ now' \in Nat
  BY BookingsTypesStep, ClockType DEF ListInv
<1>2. PICK H : Tells(H)
  BY DEF ListInv
<1>3. \E G : Tells(G)'
  BY <1>2, TellsStep DEF ListInv
<1> QED BY <1>1, <1>3 DEF ListInv

(* What a list of one state of the table is.                               *)
LEMMA RowsOfList ==
  ASSUME ListInv, view.of # None
  PROVE  /\ view.list \in Seq(Row)
         /\ \E b \in Tables :
              /\ view.of.table = changed => b = book
              /\ Begins(view.list, b, Filter(view), view.of.day)
              /\ ~view.more =>
                   Len(view.list) = Cardinality(MatchingIds(b, Filter(view), view.of.day))
<1>1. PICK H : Tells(H)
  BY DEF ListInv
<1>2. view.of.table \in Nat /\ view.list \in Seq(Row)
  BY DEF ListInv, BookingsTypes, ViewType, Stamp
<1>3. H[view.of.table] \in Tables /\ H[changed] = book
  BY <1>1, <1>2 DEF Tells, History
<1> QED BY <1>1, <1>2, <1>3 DEF Tells, ViewOf

(* The list, while it is of the table and the day as they stand, has the   *)
(* rows of what the chosen filter gives only, each where its time belongs  *)
(* and as stored, and as many as there are without Load more               *)
(* (ListIsCurrent).                                                        *)
THEOREM ListCorrect == Spec => []ListIsCurrent
<1>1. ASSUME ListInv, view.of = Present
      PROVE  /\ \A i \in DOMAIN view.list :
                  /\ view.list[i].id \in Matching(Filter(view))
                  /\ view.list[i].status = book[view.list[i].id]
                  /\ InPlace(view.list[i].id, i, Matching(Filter(view)), view.scope)
             /\ ~view.more => Len(view.list) = Cardinality(Matching(Filter(view)))
  <2>1. Present \in Stamp /\ Present.table = changed /\ Present.day = UtcDay(now)
    <3>1. UtcDay(now) \in Nat
      BY <1>1 DEF UtcDay, ListInv
    <3> QED BY <1>1, <3>1 DEF Present, Stamp, ListInv, BookingsTypes
  <2>2. view.of # None
    BY <1>1, <2>1, StampNotNone
  <2> DEFINE M == MatchingIds(book, Filter(view), UtcDay(now))
  <2>3. /\ view.list \in Seq(Row)
        /\ Begins(view.list, book, Filter(view), UtcDay(now))
        /\ ~view.more => Len(view.list) = Cardinality(M)
    BY <1>1, <2>1, <2>2, RowsOfList
  <2>4. Matching(Filter(view)) = M /\ Filter(view).scope = view.scope
    BY MatchingNow DEF Filter
  <2>5. ASSUME NEW i \in DOMAIN view.list
        PROVE  /\ view.list[i].id \in M /\ view.list[i].status = book[view.list[i].id]
               /\ InPlace(view.list[i].id, i, M, view.scope)
    <3>1. Placed(book, Filter(view), UtcDay(now), view.list[i], i)
      BY <2>3 DEF Begins
    <3>2. view.list[i].id \in Ids
      BY <2>3, ListedRow
    <3>3. view.list[i].id \in M
      BY <3>1, <3>2 DEF Placed, MatchingIds
    <3> HIDE DEF M
    <3> QED BY <2>4, <3>1, <3>3 DEF Placed, M
  <2> HIDE DEF M
  <2> QED BY <2>3, <2>4, <2>5
<1>2. ListInv => ListIsCurrent
  BY <1>1 DEF ListIsCurrent
<1> QED BY <1>2, ListInit, ListStep, PTL DEF Spec

(* However old the state of the table and the day that a list is of, its   *)
(* rows are of the chosen scope, status and search (RowsMatchFilter).      *)
THEOREM RowsCorrect == Spec => []RowsMatchFilter
<1>1. ASSUME ListInv, view.of # None, NEW i \in DOMAIN view.list
      PROVE  /\ InScope(view.list[i].id, view.scope, view.of.day)
             /\ view.status = None \/ view.list[i].status = view.status
             /\ view.debounced = None \/ view.list[i].id \in Found
  <2>1. PICK b \in Tables : Begins(view.list, b, Filter(view), view.of.day)
    BY <1>1, RowsOfList
  <2>2. view.list \in Seq(Row)
    BY <1>1, RowsOfList
  <2>3. Placed(b, Filter(view), view.of.day, view.list[i], i)
    BY <2>1, <2>2 DEF Begins
  <2> QED BY <2>3 DEF Placed, MatchesIn, Filter
<1>2. ListInv => RowsMatchFilter
  BY <1>1 DEF RowsMatchFilter
<1> QED BY <1>2, ListInit, ListStep, PTL DEF Spec

-----------------------------------------------------------------------------
(* The sections: one more row at a time.                                   *)

NextSections(sections, row) ==
  IF SameSection(sections, row)
  THEN [sections EXCEPT ![Len(sections)] = Append(@, row)]
  ELSE Append(sections, <<row>>)

LEMMA NextSectionsType ==
  ASSUME NEW x \in Seq(Seq(Row)), NEW row \in Row
  PROVE  NextSections(x, row) \in Seq(Seq(Row))
<1>1. CASE SameSection(x, row)
  <2>1. Len(x) \in DOMAIN x
    BY <1>1 DEF SameSection
  <2>2. Append(x[Len(x)], row) \in Seq(Row)
    BY <2>1
  <2>3. [x EXCEPT ![Len(x)] = Append(x[Len(x)], row)] \in Seq(Seq(Row))
    <3> DEFINE v == Append(x[Len(x)], row)
               y == [x EXCEPT ![Len(x)] = v]
               S == Seq(Row)
    <3>1. y = [x EXCEPT ![Len(x)] = v] /\ v \in S /\ x \in Seq(S)
      BY <2>2
    <3> HIDE DEF v, y, S
    <3>2. y \in Seq(S)
      BY <2>1, <3>1, ReplacedItem
    <3> QED BY <3>2 DEF v, y, S
  <2> QED BY <1>1, <2>3 DEF NextSections
<1>2. CASE ~SameSection(x, row)
  <2>1. <<row>> \in Seq(Row)
    OBVIOUS
  <2> QED BY <1>2, <2>1 DEF NextSections
<1> QED BY <1>1, <1>2

LEMMA SectionsLoop ==
  ASSUME NEW list \in Seq(Row)
  PROVE  \E g : /\ g \in [0 .. Len(list) -> Seq(Seq(Row))]
                /\ g[0] = <<>> /\ g[Len(list)] = Sections(list)
                /\ \A k \in 0 .. Len(list) : k < Len(list) => g[k + 1] = NextSections(g[k], list[k + 1])
<1> DEFINE n == Len(list)
           X == Seq(Seq(Row))
           step == [p \in X \X (1 .. n) |-> NextSections(p[1], list[p[2]])]
           Is(f) == f = [s \in SUBSET DOMAIN list |->
                           IF s = {} THEN <<>>
                           ELSE NextSections(f[s \ {Max(s)}], list[Max(s)])]
           F == CHOOSE f : Is(f)
<1>1. n \in Nat /\ DOMAIN list = 1 .. n /\ <<>> \in X
  OBVIOUS
<1>2. step \in [X \X (1 .. n) -> X]
  <2>1. ASSUME NEW p \in X \X (1 .. n) PROVE NextSections(p[1], list[p[2]]) \in X
    BY <1>1, <2>1, NextSectionsType
  <2> HIDE DEF X, n
  <2> QED BY <2>1
<1>3. PICK h : h \in [SUBSET (1 .. n) -> X] /\ LoopBy(h, n, X, <<>>, step)
  <2> HIDE DEF X, n, step
  <2> QED BY <1>1, <1>2, SomeLoop
<1>4. Is(h)
  <2>1. ASSUME NEW s \in SUBSET (1 .. n)
        PROVE  h[s] = IF s = {} THEN <<>> ELSE NextSections(h[s \ {Max(s)}], list[Max(s)])
    <3>1. CASE s = {}
      <4> HIDE DEF X, n, step
      <4> QED BY <1>3, <3>1 DEF LoopBy
    <3>2. CASE s # {}
      <4> DEFINE p == <<h[s \ {Max(s)}], Max(s)>>
      <4>1. Max(s) \in 1 .. n /\ h[s \ {Max(s)}] \in X /\ h[s] = step[p]
        <5> HIDE DEF X, n, step
        <5> QED BY <1>3, <3>2 DEF LoopBy
      <4>2. step[p] = NextSections(p[1], list[p[2]])
        <5>1. p \in X \X (1 .. n)
          BY <4>1
        <5> HIDE DEF X, n, p
        <5> QED BY <5>1
      <4> QED BY <3>2, <4>1, <4>2
    <3> QED BY <3>1, <3>2
  <2> HIDE DEF X, step, n
  <2> QED BY <1>1, <1>3, <2>1
<1>5. Is(F)
  <2> HIDE DEF Is
  <2> QED BY <1>4
<1>6. Sections(list) = F[DOMAIN list]
  BY DEF Sections, FoldLeft, MapThenFoldSet, NextSections
<1> DEFINE g == [k \in 0 .. n |-> F[1 .. k]]
<1>7. ASSUME NEW s \in SUBSET (1 .. n)
      PROVE  F[s] = IF s = {} THEN <<>> ELSE NextSections(F[s \ {Max(s)}], list[Max(s)])
  <2> HIDE DEF F, n
  <2> QED BY <1>1, <1>5
<1> HIDE DEF F
<1>8. g[0] = <<>>
  <2>1. 0 \in 0 .. n
    BY <1>1
  <2> HIDE DEF n
  <2>2. g[0] = F[1 .. 0]
    BY <2>1
  <2>3. 1 .. 0 = {} /\ 1 .. 0 \in SUBSET (1 .. n)
    OBVIOUS
  <2>4. F[1 .. 0] = <<>>
    BY <1>7, <2>3
  <2> QED BY <2>2, <2>4
<1>9. ASSUME NEW k \in 0 .. n, k < n
      PROVE  g[k + 1] = NextSections(g[k], list[k + 1])
  <2>1. /\ k + 1 \in 0 .. n /\ 1 .. k + 1 \in SUBSET (1 .. n) /\ k + 1 \in Nat /\ k + 1 # 0
        /\ (k + 1) - 1 = k
    BY <1>1, <1>9
  <2>2. Max(1 .. k + 1) = k + 1 /\ (1 .. k + 1) \ {k + 1} = 1 .. k /\ 1 .. k + 1 # {}
    BY <2>1, LastOfInterval
  <2> HIDE DEF n
  <2> QED BY <1>7, <2>1, <2>2
<1>10. ASSUME NEW k \in 0 .. n PROVE g[k] \in X
  <2> DEFINE P == {j \in 0 .. n : g[j] \in X}
  <2>1. 0 \in P
    <3>1. 0 \in 0 .. n
      BY <1>1
    <3> HIDE DEF g, n, X
    <3> QED BY <1>1, <1>8, <3>1
  <2>2. ASSUME NEW j \in 0 .. n, j < n, j \in P PROVE j + 1 \in P
    <3>1. list[j + 1] \in Row /\ j + 1 \in 0 .. n
      BY <1>1, <2>2
    <3> HIDE DEF n, g
    <3> QED BY <1>9, <2>2, <3>1, NextSectionsType
  <2> HIDE DEF P, g, X
  <2>3. \A j \in 0 .. n : j \in P
    BY <1>1, <2>1, <2>2, Throughout
  <2> QED BY <2>3 DEF P
<1>11. g \in [0 .. n -> X] /\ g[n] = Sections(list)
  <2>1. g[n] = F[1 .. n] /\ g = [k \in 0 .. n |-> g[k]]
    BY <1>1
  <2> HIDE DEF g, n, X
  <2> QED BY <1>1, <1>6, <1>10, <2>1
<1> HIDE DEF g, n, X
<1> QED BY <1>8, <1>9, <1>11 DEF n, X

(* The day of a row, counted the way its scope is ordered.                 *)
DayOf(row) == LocalDay(ScheduledAt[row.id])
DayIn(scope, row) == IF scope = "past" THEN -DayOf(row) ELSE DayOf(row)

LEMMA DaysInOrder ==
  ASSUME NEW scope, NEW r \in Row, NEW s \in Row
  PROVE  /\ DayIn(scope, r) \in Int
         /\ DayIn(scope, r) = DayIn(scope, s) <=> DayOf(r) = DayOf(s)
         /\ ~Precedes(scope, s.id, r.id) => DayIn(scope, r) <= DayIn(scope, s)
<1>1. ScheduledAt[r.id] \in Nat /\ ScheduledAt[s.id] \in Nat
  BY BookingsAssumption DEF Row
<1>2. \A x, y \in Nat : (x + 1) \div 2 \in Nat /\ (~(y < x) => (x + 1) \div 2 <= (y + 1) \div 2)
  OBVIOUS
<1>3. \A x \in Nat : LocalDay(x) = (x + 1) \div 2
  BY DEF LocalDay
<1> QED BY <1>1, <1>2, <1>3 DEF DayIn, DayOf, Precedes

(* The sections of the rows up to one: their days are in order, and none   *)
(* is after that of the row.                                               *)
SectionsUpTo(x, row, scope) ==
  /\ x \in Seq(Seq(Row)) /\ Len(x) > 0
  /\ \A j \in DOMAIN x : Len(x[j]) > 0 /\ DayIn(scope, x[j][1]) <= DayIn(scope, row)
  /\ \A i, j \in DOMAIN x : i < j => DayIn(scope, x[i][1]) < DayIn(scope, x[j][1])

LEMMA SectionsStart ==
  ASSUME NEW scope, NEW row \in Row
  PROVE  SectionsUpTo(NextSections(<<>>, row), row, scope)
<1>1. NextSections(<<>>, row) = << <<row>> >>
  BY DEF NextSections, SameSection
<1>2. <<row>> \in Seq(Row)
  OBVIOUS
<1>3. DayIn(scope, row) \in Int
  BY DaysInOrder
<1> DEFINE y == << <<row>> >>
<1>4. /\ y \in Seq(Seq(Row)) /\ Len(y) = 1 /\ DOMAIN y = {1}
      /\ Len(y[1]) = 1 /\ y[1][1] = row
  BY <1>2
<1> HIDE DEF y
<1>5. /\ \A j \in DOMAIN y : Len(y[j]) > 0 /\ DayIn(scope, y[j][1]) <= DayIn(scope, row)
      /\ \A i, j \in DOMAIN y : ~(i < j)
  BY <1>3, <1>4
<1>6. SectionsUpTo(y, row, scope)
  BY <1>4, <1>5 DEF SectionsUpTo
<1> QED BY <1>1, <1>6 DEF y

LEMMA SectionsGrow ==
  ASSUME NEW scope, NEW x, NEW row \in Row, NEW next \in Row, SectionsUpTo(x, row, scope),
         DayIn(scope, row) <= DayIn(scope, next)
  PROVE  SectionsUpTo(NextSections(x, next), next, scope)
<1> DEFINE y == NextSections(x, next)
           m == Len(x)
<1>1. /\ x \in Seq(Seq(Row)) /\ m \in Nat /\ m > 0 /\ DOMAIN x = 1 .. m
      /\ DayIn(scope, row) \in Int /\ DayIn(scope, next) \in Int
  BY DaysInOrder DEF SectionsUpTo
<1>2. y \in Seq(Seq(Row))
  BY <1>1, NextSectionsType
<1>3. \A j \in 1 .. m : /\ x[j] \in Seq(Row) /\ Len(x[j]) > 0 /\ x[j][1] \in Row
                        /\ DayIn(scope, x[j][1]) \in Int
                        /\ DayIn(scope, x[j][1]) <= DayIn(scope, row)
  <2> TAKE j \in 1 .. m
  <2>1. x[j] \in Seq(Row) /\ Len(x[j]) > 0 /\ DayIn(scope, x[j][1]) <= DayIn(scope, row)
    BY <1>1 DEF SectionsUpTo
  <2>2. x[j][1] \in Row
    BY <2>1
  <2> QED BY <2>1, <2>2, DaysInOrder
<1> DEFINE d == [j \in 1 .. m |-> DayIn(scope, x[j][1])]
<1>4. /\ \A i, j \in 1 .. m : i < j => d[i] < d[j]
      /\ \A j \in 1 .. m : d[j] = DayIn(scope, x[j][1]) /\ d[j] \in Int
  <2>1. \A i, j \in 1 .. m : i < j => DayIn(scope, x[i][1]) < DayIn(scope, x[j][1])
    BY <1>1 DEF SectionsUpTo
  <2>2. \A j \in 1 .. m : d[j] = DayIn(scope, x[j][1])
    OBVIOUS
  <2> HIDE DEF d, m
  <2> QED BY <1>3, <2>1, <2>2
<1> HIDE DEF d
<1>5. CASE SameSection(x, next)
  <2> DEFINE v == Append(x[m], next)
             S == Seq(Row)
  <2>1. y = [x EXCEPT ![m] = v]
    BY <1>5 DEF NextSections
  <2>2. v \in S /\ Len(v) > 0 /\ v[1] = x[m][1] /\ x \in Seq(S) /\ m \in DOMAIN x
    <3>1. x[m] \in Seq(Row) /\ Len(x[m]) > 0 /\ Len(x[m]) \in Nat
      BY <1>1, <1>3
    <3> QED BY <1>1, <3>1
  <2> HIDE DEF y, v, S
  <2>3. Len(y) = m /\ y[m] = v /\ \A j \in 1 .. m : j # m => y[j] = x[j]
    BY <1>1, <2>1, <2>2, ReplacedItem
  <2>4. \A j \in 1 .. m : Len(y[j]) > 0 /\ y[j][1] = x[j][1]
    BY <1>3, <2>2, <2>3
  <2>5. DOMAIN y = 1 .. m
    BY <1>1, <2>1
  <2>6. \A j \in DOMAIN y : Len(y[j]) > 0 /\ DayIn(scope, y[j][1]) <= DayIn(scope, next)
    BY <1>1, <1>3, <2>4, <2>5
  <2>7. \A i, j \in DOMAIN y : i < j => DayIn(scope, y[i][1]) < DayIn(scope, y[j][1])
    <3>1. \A j \in 1 .. m : DayIn(scope, y[j][1]) = d[j]
      BY <1>4, <2>4
    <3> QED BY <1>4, <2>5, <3>1
  <2> QED BY <1>1, <1>2, <2>3, <2>6, <2>7 DEF SectionsUpTo, y
<1>6. CASE ~SameSection(x, next)
  <2>1. y = Append(x, <<next>>)
    BY <1>6 DEF NextSections
  <2>2. DayIn(scope, x[m][1]) # DayIn(scope, next)
    <3>1. x # <<>> /\ Last(x) = x[m]
      BY <1>1 DEF Last
    <3>2. DayOf(x[m][1]) # DayOf(next)
      BY <1>6, <3>1 DEF SameSection, DayOf
    <3>3. x[m][1] \in Row
      BY <1>1, <1>3
    <3> QED BY <3>2, <3>3, DaysInOrder
  <2> HIDE DEF y
  <2>3. /\ Len(y) = m + 1 /\ DOMAIN y = 1 .. m + 1 /\ y[m + 1] = <<next>>
        /\ \A j \in 1 .. m : y[j] = x[j]
    BY <1>1, <2>1
  <2>4. Len(y[m + 1]) > 0 /\ y[m + 1][1] = next
    BY <2>3
  <2>5. \A i \in 1 .. m : DayIn(scope, x[i][1]) < DayIn(scope, next)
    <3> TAKE i \in 1 .. m
    <3>1. m \in 1 .. m
      BY <1>1
    <3>2. DayIn(scope, x[m][1]) < DayIn(scope, next)
      BY <1>1, <1>3, <2>2, <3>1
    <3>3. CASE i = m
      BY <3>2, <3>3
    <3>4. CASE i # m
      <4>1. d[i] < d[m]
        BY <1>1, <1>4, <3>1, <3>4
      <4>2. /\ d[i] = DayIn(scope, x[i][1]) /\ d[m] = DayIn(scope, x[m][1])
            /\ d[i] \in Int /\ d[m] \in Int
        BY <1>4, <3>1
      <4> QED BY <1>1, <3>2, <4>1, <4>2
    <3> QED BY <3>3, <3>4
  <2>6. ASSUME NEW j \in DOMAIN y PROVE Len(y[j]) > 0 /\ DayIn(scope, y[j][1]) <= DayIn(scope, next)
    <3>1. CASE j = m + 1
      BY <1>1, <2>4, <3>1
    <3>2. CASE j # m + 1
      <4>1. j \in 1 .. m
        BY <1>1, <2>3, <3>2
      <4> QED BY <1>1, <1>3, <2>3, <4>1
    <3> QED BY <3>1, <3>2
  <2>7. ASSUME NEW i \in DOMAIN y, NEW j \in DOMAIN y, i < j
        PROVE  DayIn(scope, y[i][1]) < DayIn(scope, y[j][1])
    <3>1. i \in 1 .. m
      BY <1>1, <2>3, <2>7
    <3>2. CASE j = m + 1
      BY <2>3, <2>4, <2>5, <3>1, <3>2
    <3>3. CASE j # m + 1
      <4>1. j \in 1 .. m
        BY <1>1, <2>3, <3>3
      <4> QED BY <1>4, <2>3, <2>7, <3>1, <4>1
    <3> QED BY <3>2, <3>3
  <2> QED BY <1>1, <1>2, <2>3, <2>6, <2>7 DEF SectionsUpTo, y
<1> QED BY <1>5, <1>6

LEMMA SectionsOfList ==
  ASSUME NEW list \in Seq(Row), NEW scope, list # <<>>,
         \A i, j \in DOMAIN list : i < j => ~Precedes(scope, list[j].id, list[i].id)
  PROVE  SectionsUpTo(Sections(list), list[Len(list)], scope)
<1> DEFINE n == Len(list)
<1>1. n \in Nat /\ n > 0 /\ DOMAIN list = 1 .. n /\ \A k \in 1 .. n : list[k] \in Row
  OBVIOUS
<1>2. PICK g : /\ g \in [0 .. n -> Seq(Seq(Row))]
               /\ g[0] = <<>> /\ g[n] = Sections(list)
               /\ \A k \in 0 .. n : k < n => g[k + 1] = NextSections(g[k], list[k + 1])
  BY SectionsLoop
<1> DEFINE P == {k \in 0 .. n : k > 0 => SectionsUpTo(g[k], list[k], scope)}
<1> HIDE DEF n
<1>3. 0 \in P
  BY <1>1
<1>4. ASSUME NEW k \in 0 .. n, k < n, k \in P PROVE k + 1 \in P
  <2>1. k + 1 \in 1 .. n /\ g[k + 1] = NextSections(g[k], list[k + 1]) /\ list[k + 1] \in Row
    BY <1>1, <1>2, <1>4
  <2>2. CASE k = 0
    <3>1. g[k] = <<>>
      BY <1>2, <2>2
    <3>2. SectionsUpTo(g[k + 1], list[k + 1], scope)
      BY <2>1, <3>1, SectionsStart
    <3> QED BY <1>1, <2>1, <3>2
  <2>3. CASE k # 0
    <3>1. k \in 1 .. n /\ list[k] \in Row /\ SectionsUpTo(g[k], list[k], scope)
      BY <1>1, <1>4, <2>3
    <3>2. ~Precedes(scope, list[k + 1].id, list[k].id)
      BY <1>1, <2>1, <3>1
    <3>3. DayIn(scope, list[k]) <= DayIn(scope, list[k + 1])
      BY <2>1, <3>1, <3>2, DaysInOrder
    <3>4. SectionsUpTo(g[k + 1], list[k + 1], scope)
      BY <2>1, <3>1, <3>3, SectionsGrow
    <3> QED BY <1>1, <2>1, <3>4
  <2> QED BY <2>2, <2>3
<1>5. n \in P
  <2> HIDE DEF P
  <2>1. n \in Nat /\ \A k \in 0 .. n : k < n /\ k \in P => k + 1 \in P
    BY <1>1, <1>4
  <2>2. \A k \in 0 .. n : k \in P
    BY <1>3, <2>1, Throughout
  <2> QED BY <1>1, <2>2
<1> QED BY <1>1, <1>2, <1>5 DEF n

(* Such a list has one heading for each of its days (OneSectionPerDay).    *)
THEOREM SectionsCorrect == Spec => []OneSectionPerDay
<1>1. ASSUME ListInv, view.of # None,
             NEW i \in DOMAIN Sections(view.list), NEW j \in DOMAIN Sections(view.list), i # j
      PROVE  DayOf(Sections(view.list)[i][1]) # DayOf(Sections(view.list)[j][1])
  <2> DEFINE x == Sections(view.list)
             scope == view.scope
             s == view.list
  <2>1. PICK b \in Tables : Begins(s, b, Filter(view), view.of.day)
    BY <1>1, RowsOfList
  <2>2. s \in Seq(Row)
    BY <1>1, RowsOfList
  <2>3. ASSUME NEW k \in DOMAIN s, NEW l \in DOMAIN s, k < l
        PROVE  ~Precedes(scope, s[l].id, s[k].id)
    <3>1. Filter(view).scope = scope
      BY DEF Filter
    <3>2. /\ Placed(b, Filter(view), view.of.day, s[k], k) /\ s[k] \in Row /\ k \in Nat
          /\ Placed(b, Filter(view), view.of.day, s[l], l) /\ s[l] \in Row /\ l \in Nat
      BY <2>1, <2>2 DEF Begins
    <3> HIDE DEF s, scope
    <3> QED BY <2>3, <3>1, <3>2, PlacedInOrder
  <2>4. s # <<>>
    <3>1. SUFFICES ASSUME s = <<>> PROVE FALSE
      OBVIOUS
    <3>2. PICK g : g[0] = <<>> /\ g[Len(<<>>)] = Sections(<<>>)
      <4>1. <<>> \in Seq(Row)
        OBVIOUS
      <4> QED BY <4>1, SectionsLoop
    <3> QED BY <1>1, <3>1, <3>2
  <2>5. SectionsUpTo(x, s[Len(s)], scope)
    <3> HIDE DEF s, scope
    <3> QED BY <2>2, <2>3, <2>4, SectionsOfList DEF s
  <2> HIDE DEF x, scope, s
  <2>6. /\ \A k \in DOMAIN x : x[k][1] \in Row /\ DayIn(scope, x[k][1]) \in Int
        /\ DOMAIN x \in SUBSET Nat
    <3>1. x \in Seq(Seq(Row)) /\ \A k \in DOMAIN x : x[k] \in Seq(Row) /\ Len(x[k]) > 0
      BY <2>5 DEF SectionsUpTo
    <3>2. \A k \in DOMAIN x : x[k][1] \in Row
      BY <3>1
    <3> QED BY <3>1, <3>2, DaysInOrder
  <2>7. DayIn(scope, x[i][1]) # DayIn(scope, x[j][1])
    <3>1. i \in DOMAIN x /\ j \in DOMAIN x
      BY <1>1 DEF x
    <3>2. i < j => DayIn(scope, x[i][1]) < DayIn(scope, x[j][1])
      BY <2>5, <3>1 DEF SectionsUpTo
    <3>3. j < i => DayIn(scope, x[j][1]) < DayIn(scope, x[i][1])
      BY <2>5, <3>1 DEF SectionsUpTo
    <3> QED BY <1>1, <2>6, <3>1, <3>2, <3>3
  <2> QED BY <1>1, <2>6, <2>7, DaysInOrder DEF x
<1>2. ListInv => OneSectionPerDay
  BY <1>1 DEF OneSectionPerDay, DayOf
<1> QED BY <1>2, ListInit, ListStep, PTL DEF Spec
=============================================================================
