----------------------------- MODULE NumberProofs -----------------------------
(***************************************************************************)
(* An organization's phone number, for any number of organizations, tabs,  *)
(* requests, calls and failures, with staff and scripts beside them: who   *)
(* may add or take back a number, and what verified means.                 *)
(***************************************************************************)
EXTENDS Onboarding, TLAPS

-----------------------------------------------------------------------------
(* Requests.                                                               *)

RequestFields ==
  {"kind", "from", "org", "arg", "numbers", "hours", "at", "row", "asked", "seen", "todo", "answer"}

RequestsOK == DOMAIN req = Slots /\ \A r \in Slots : RequestFields \subseteq DOMAIN req[r]

(* A request that has read the organization's number and will use it.      *)
Working(q) ==
  /\ q.answer = "none"
  /\ \/ q.kind = "provision" /\ q.at = "write"
     \/ q.kind = "verify" /\ q.at \in {"profile", "write", "search", "mark"}

(* u works only if q did, with what q has read.                            *)
Same(q, u) ==
  Working(u) =>
    Working(q) /\ u.kind = q.kind /\ u.at = q.at /\ u.org = q.org /\ u.row = q.row /\ u.asked = q.asked

RequestsSame ==
  /\ DOMAIN req' = Slots
  /\ \A r \in Slots : RequestFields \subseteq DOMAIN req'[r] /\ Same(req[r], req'[r])

LEMMA FreeOK == RequestFields \subseteq DOMAIN Free /\ ~Working(Free)
BY DEF Free, RequestFields, Working

LEMMA SettledSame ==
  ASSUME NEW q, NEW u, RequestFields \subseteq DOMAIN u, Same(q, u)
  PROVE  RequestFields \subseteq DOMAIN Settled(u) /\ Same(q, Settled(u))
BY FreeOK DEF Settled, Same

LEMMA OneSame ==
  ASSUME RequestsOK, NEW r \in Slots, NEW u, req' = [req EXCEPT ![r] = u],
         RequestFields \subseteq DOMAIN u, Same(req[r], u)
  PROVE  RequestsSame
BY DEF RequestsOK, RequestsSame, Same

LEMMA UnchangedSame ==
  ASSUME RequestsOK, UNCHANGED req
  PROVE  RequestsSame
BY DEF RequestsOK, RequestsSame, Same

LEMMA UnheardSlots ==
  ASSUME RequestsOK, NEW t, NEW x \in Slots
  PROVE  RequestFields \subseteq DOMAIN Unheard(t)[x] /\ Same(req[x], Unheard(t)[x])
<1> DEFINE u == [req[x] EXCEPT !.from = None]
<1>1. RequestFields \subseteq DOMAIN u /\ Same(req[x], u)
  BY DEF RequestsOK, Same, Working, RequestFields
<1> HIDE DEF u
<1>2. CASE req[x].from = t
  <2>1. Unheard(t)[x] = Settled(u)
    BY <1>2 DEF Unheard, u
  <2> QED BY <1>1, <2>1, SettledSame
<1>3. CASE req[x].from # t
  <2>1. Unheard(t)[x] = req[x]
    BY <1>3 DEF Unheard
  <2> QED BY <2>1 DEF RequestsOK, Same
<1> QED BY <1>2, <1>3

LEMMA UnheardSame ==
  ASSUME RequestsOK, NEW t, req' = Unheard(t)
  PROVE  RequestsSame
<1>1. DOMAIN Unheard(t) = Slots
  BY DEF Unheard
<1> QED BY <1>1, UnheardSlots DEF RequestsSame

(* What is sent has read nothing yet.                                      *)
Unread(q) == RequestFields \subseteq DOMAIN q /\ (q.kind \in {"provision", "verify"} => q.at = "find")

LEMMA AskUnread ==
  ASSUME NEW kind, NEW at, kind \in {"provision", "verify"} => at = "find"
  PROVE  /\ Unread(Ask(kind, at)) /\ Ask(kind, at).kind = kind /\ Ask(kind, at).at = at
         /\ RequestFields \subseteq DOMAIN Ask(kind, at)
BY DEF Ask, Free, Unread, RequestFields

LEMMA AskEnd ==
  ASSUME NEW kind
  PROVE  RequestFields \subseteq DOMAIN Ask(kind, "end") /\ Ask(kind, "end").at = "end"
BY DEF Ask, Free, RequestFields

LEMMA PostSame ==
  ASSUME RequestsOK, NEW s, NEW t, NEW q, NEW admitted, Unread(q), Post(s, t, q, admitted)
  PROVE  RequestsSame
<1> DEFINE answer == IF Guard(s) = "none" /\ ~admitted THEN "invalid" ELSE Guard(s)
           sent == IF answer = "none" THEN q ELSE Ask(q.kind, "end")
           u == [sent EXCEPT !.from = t, !.org = s.active, !.answer = answer]
<1>1. PICK r \in Slots : req' = [Unheard(t) EXCEPT ![r] = u]
  BY DEF Post
<1>2. RequestFields \subseteq DOMAIN sent /\ (sent.kind \in {"provision", "verify"} => sent.at = "find" \/ sent.at = "end")
  BY AskEnd DEF Unread
<1> HIDE DEF sent, answer
<1>3. RequestFields \subseteq DOMAIN u /\ ~Working(u)
  BY <1>2 DEF RequestFields, Working
<1> HIDE DEF u
<1>4. DOMAIN Unheard(t) = Slots
  BY DEF Unheard
<1>5. /\ DOMAIN req' = Slots /\ req'[r] = u
      /\ \A x \in Slots \ {r} : req'[x] = Unheard(t)[x]
  BY <1>1, <1>4
<1> QED BY <1>3, <1>5, UnheardSlots DEF RequestsSame, Same

LEMMA PostStatusSame ==
  ASSUME RequestsOK, NEW s, NEW t, PostStatus(s, t)
  PROVE  RequestsSame
<1> DEFINE q == [Ask("status", "read") EXCEPT !.todo = StatusReads]
<1>1. Unread(q)
  BY AskUnread DEF Unread, RequestFields
<1>2. Post(s, t, q, TRUE)
  BY DEF PostStatus
<1> HIDE DEF q
<1> QED BY <1>1, <1>2, PostSame

LEMMA PostSaveSame ==
  ASSUME RequestsOK, NEW s, NEW t, NEW form, NEW admitted, PostSave(s, t, form, admitted)
  PROVE  RequestsSame
<1> DEFINE q == [Ask("save", "find") EXCEPT !.arg = form.details, !.numbers = form.numbers,
                                            !.hours = form.hours]
<1>1. Unread(q)
  BY AskUnread DEF Unread, RequestFields
<1>2. Post(s, t, q, admitted)
  BY DEF PostSave
<1> HIDE DEF q
<1> QED BY <1>1, <1>2, PostSame

LEMMA EnterSame ==
  ASSUME RequestsOK, NEW s, NEW t, Visit(s, t) \/ Enter(s, t)
  PROVE  RequestsSame
BY PostStatusSame, UnheardSame DEF Visit, Enter

LEMMA PagesSame ==
  ASSUME RequestsOK, NEW t \in Tabs, Pages(t)
  PROVE  RequestsSame
<1>1. CASE Open(t)
  BY <1>1, EnterSame, UnheardSame DEF Open
<1>2. CASE HearEnter(t)
  BY <1>2, EnterSame, UnheardSame DEF HearEnter
<1>3. CASE SignOut(t)
  BY <1>3, UnheardSame DEF SignOut
<1>4. CASE SignUp(t)
  BY <1>4, EnterSame DEF SignUp
<1>5. CASE SignIn(t) \/ SignStuck(t)
  BY <1>5, UnchangedSame DEF SignIn, SignStuck
<1>6. CASE SignInList(t)
  BY <1>6, EnterSame, UnchangedSame DEF SignInList
<1>7. CASE SignInChoose(t)
  BY <1>7, EnterSame DEF SignInChoose
<1> QED BY <1>1, <1>2, <1>3, <1>4, <1>5, <1>6, <1>7 DEF Pages

LEMMA StepsSame ==
  ASSUME RequestsOK, NEW t \in Tabs, Steps(t)
  PROVE  RequestsSame
<1>1. ASSUME NEW v, ToPhoneNumber(t, v) PROVE RequestsSame
  BY <1>1, AskUnread, PostSame DEF ToPhoneNumber
<1>2. ASSUME NEW s, NEW form, Save(s, t, form) PROVE RequestsSame
  BY <1>2, PostSaveSame DEF Save
<1>3. CASE HearStatus(t)
  BY <1>3, <1>1, EnterSame, UnheardSame DEF HearStatus
<1>4. CASE SubmitDetails(t)
  BY <1>4, <1>2, UnchangedSame DEF SubmitDetails
<1>5. CASE CreateOrg(t) \/ ContinueForm(t) \/ Pay(t) \/ Paid(t) \/ Back(t)
  BY <1>5, UnchangedSame DEF CreateOrg, ContinueForm, Pay, Paid, Back
<1>6. CASE ActivateOrg(t)
  BY <1>6, <1>2, UnchangedSame DEF ActivateOrg
<1>7. CASE HearSave(t) \/ HearLoad(t) \/ HearProvision(t) \/ HearVerify(t) \/ HearError(t)
  BY <1>7, UnheardSame DEF HearSave, HearLoad, HearProvision, HearVerify, HearError
<1>8. CASE SubmitPlan(t)
  <2>1. PICK p \in Plans : Post(session, t, [Ask("plan", "write") EXCEPT !.arg = p], TRUE)
    BY <1>8 DEF SubmitPlan
  <2> DEFINE q == [Ask("plan", "write") EXCEPT !.arg = p]
  <2>2. Unread(q)
    BY AskUnread DEF Unread, RequestFields
  <2> HIDE DEF q
  <2> QED BY <2>1, <2>2, PostSame DEF q
<1>9. CASE HearPlan(t)
  BY <1>9, <1>1 DEF HearPlan
<1>10. CASE ConfirmRequest(t) \/ AskVerify(t)
  BY <1>10, AskUnread, PostSame, ZenonT(30) DEF ConfirmRequest, AskVerify
<1>11. CASE GoToDashboard(t)
  BY <1>11, EnterSame DEF GoToDashboard
<1> QED BY <1>3, <1>4, <1>5, <1>6, <1>7, <1>8, <1>9, <1>10, <1>11 DEF Steps

LEMMA UserSame ==
  ASSUME RequestsOK, UserMoves
  PROVE  RequestsSame
BY PagesSame, StepsSame DEF UserMoves

LEMMA AnsweredSame ==
  ASSUME RequestsOK, NEW r \in Slots, NEW answer, answer # "none"
  PROVE  /\ RequestFields \subseteq DOMAIN Answered(r, answer)
         /\ ~Working(Answered(r, answer))
<1> DEFINE u == [req[r] EXCEPT !.answer = answer, !.at = "end"]
<1>1. RequestFields \subseteq DOMAIN u /\ ~Working(u)
  BY DEF RequestsOK, RequestFields, Working
<1> HIDE DEF u
<1>2. Answered(r, answer) = Settled(u)
  BY DEF Answered, u
<1> QED BY <1>1, <1>2, FreeOK DEF Settled

LEMMA ReplySame ==
  ASSUME RequestsOK, NEW r \in Slots, NEW answer, answer # "none", Reply(r, answer)
  PROVE  RequestsSame /\ ~Working(req'[r])
<1>1. RequestsSame
  BY AnsweredSame, OneSame DEF Reply, Same
<1>2. req'[r] = Answered(r, answer)
  BY DEF Reply, RequestsOK
<1> QED BY <1>1, <1>2, AnsweredSame

(* A step of a request other than those two.                               *)
LEMMA OtherSame ==
  ASSUME RequestsOK, NEW r \in Slots, NEW u, RequestFields \subseteq DOMAIN u,
         u.kind \in {"save", "me", "plan", "status"} \/ u.answer # "none",
         req' = [req EXCEPT ![r] = Settled(u)] \/ req' = [req EXCEPT ![r] = u]
  PROVE  RequestsSame
<1>1. ~Working(u)
  BY DEF Working
<1> QED BY <1>1, SettledSame, OneSame DEF Same

LEMMA ProfileSame ==
  ASSUME RequestsOK, NEW r \in Slots, ServeProfile(r) \/ SaveDayFails(r)
  PROVE  RequestsSame
<1> DEFINE q == req[r]
<1>1. RequestFields \subseteq DOMAIN q
  BY DEF RequestsOK
<1>2. CASE SaveFind(r)
  <2> DEFINE u == [q EXCEPT !.at = "write", !.row = IF profile[q.org].name = None THEN 0 ELSE 1]
  <2>1. req' = [req EXCEPT ![r] = u]
    BY <1>2 DEF SaveFind, RequestsOK
  <2>2. RequestFields \subseteq DOMAIN u /\ u.kind = "save"
    BY <1>1, <1>2 DEF SaveFind, Serving, RequestFields
  <2> HIDE DEF u
  <2> QED BY <2>1, <2>2, OtherSame
<1>3. CASE SaveWrite(r)
  <2> DEFINE u == [q EXCEPT !.at = IF HourDays(q.hours) = {} THEN "numbers" ELSE "days",
                            !.todo = HourDays(q.hours)]
  <2>1. Reply(r, "error") \/ req' = [req EXCEPT ![r] = u]
    BY <1>3 DEF SaveWrite, RequestsOK
  <2>2. RequestFields \subseteq DOMAIN u /\ u.kind = "save"
    BY <1>1, <1>3 DEF SaveWrite, Serving, RequestFields
  <2> HIDE DEF u
  <2> QED BY <2>1, <2>2, OtherSame, ReplySame
<1>4. CASE SaveDay(r)
  <2>1. PICK d \in q.todo :
          req' = [req EXCEPT ![r] =
                   Settled([@ EXCEPT !.todo = q.todo \ {d},
                                     !.at = IF q.at = "days" /\ q.todo = {d} THEN "numbers" ELSE q.at])]
    BY <1>4 DEF SaveDay
  <2> DEFINE u == [q EXCEPT !.todo = q.todo \ {d},
                            !.at = IF q.at = "days" /\ q.todo = {d} THEN "numbers" ELSE q.at]
  <2>2. req' = [req EXCEPT ![r] = Settled(u)]
    BY <2>1 DEF RequestsOK
  <2>3. RequestFields \subseteq DOMAIN u /\ u.kind = "save"
    BY <1>1, <1>4 DEF SaveDay, RequestFields
  <2> HIDE DEF u
  <2> QED BY <2>2, <2>3, OtherSame
<1>5. CASE SaveNumbers(r)
  <2> DEFINE u == [q EXCEPT !.at = "read"]
  <2>1. req' = [req EXCEPT ![r] = u]
    BY <1>5 DEF SaveNumbers, RequestsOK
  <2>2. RequestFields \subseteq DOMAIN u /\ u.kind = "save"
    BY <1>1, <1>5 DEF SaveNumbers, Serving, RequestFields
  <2> HIDE DEF u
  <2> QED BY <2>1, <2>2, OtherSame
<1>6. CASE SaveAnswers(r)
  BY <1>6, ReplySame DEF SaveAnswers
<1>7. CASE SaveDayFails(r)
  <2>1. PICK d \in q.todo :
          req' = [req EXCEPT ![r] = Settled([@ EXCEPT !.todo = q.todo \ {d}, !.at = "end", !.answer = "error"])]
    BY <1>7 DEF SaveDayFails
  <2> DEFINE u == [q EXCEPT !.todo = q.todo \ {d}, !.at = "end", !.answer = "error"]
  <2>2. req' = [req EXCEPT ![r] = Settled(u)]
    BY <2>1 DEF RequestsOK
  <2>3. RequestFields \subseteq DOMAIN u /\ u.answer = "error"
    BY <1>1 DEF RequestFields
  <2> HIDE DEF u
  <2> QED BY <2>2, <2>3, OtherSame
<1> QED BY <1>2, <1>3, <1>4, <1>5, <1>6, <1>7 DEF ServeProfile

LEMMA FailSame ==
  ASSUME RequestsOK, NEW r \in Slots, CallFails(r)
  PROVE  RequestsSame
<1> DEFINE u == [req[r] EXCEPT !.answer = "error", !.at = "end", !.todo = {}]
<1>1. req' = [req EXCEPT ![r] = Settled(u)]
  BY DEF CallFails, RequestsOK
<1>2. RequestFields \subseteq DOMAIN u /\ u.answer = "error"
  BY DEF RequestsOK, RequestFields
<1> HIDE DEF u
<1> QED BY <1>1, <1>2, OtherSame

LEMMA OrganizationSame ==
  ASSUME RequestsOK, NEW r \in Slots, Me(r) \/ SetPlan(r) \/ StatusRead(r)
  PROVE  RequestsSame
<1> DEFINE q == req[r]
<1>1. RequestFields \subseteq DOMAIN q
  BY DEF RequestsOK
<1>2. CASE Me(r)
  <2>1. PICK shown : \/ Reply(r, "missing")
                     \/ req' = [req EXCEPT ![r] = Settled([@ EXCEPT !.answer = "ok", !.at = "end", !.arg = shown])]
    BY <1>2 DEF Me
  <2> DEFINE u == [q EXCEPT !.answer = "ok", !.at = "end", !.arg = shown]
  <2>2. Reply(r, "missing") \/ req' = [req EXCEPT ![r] = Settled(u)]
    BY <2>1 DEF RequestsOK
  <2>3. RequestFields \subseteq DOMAIN u /\ u.answer = "ok"
    BY <1>1 DEF RequestFields
  <2> HIDE DEF u
  <2> QED BY <2>2, <2>3, OtherSame, ReplySame
<1>3. CASE SetPlan(r)
  BY <1>3, ReplySame DEF SetPlan
<1>4. CASE StatusRead(r)
  <2> DEFINE u(seen, tier, part) ==
               [q EXCEPT !.seen = seen, !.arg = tier, !.todo = q.todo \ {part},
                         !.at = IF q.todo = {part} THEN "end" ELSE "read",
                         !.answer = IF q.todo = {part} THEN "ok" ELSE "none"]
             Step(seen, tier, part) == req' = [req EXCEPT ![r] = Settled(u(seen, tier, part))]
             With(part) == q.seen \cup {part}
  <2>1. \/ Step(q.seen, q.arg, "profile") \/ Step(With("profile"), q.arg, "profile")
        \/ Step(q.seen, plan[q.org], "plan") \/ Step(With("plan"), plan[q.org], "plan")
        \/ Step(q.seen, q.arg, "number") \/ Step(With("number"), q.arg, "number")
    BY <1>4 DEF StatusRead, RequestsOK
  <2>2. ASSUME NEW seen, NEW tier, NEW part, Step(seen, tier, part) PROVE RequestsSame
    <3>1. RequestFields \subseteq DOMAIN u(seen, tier, part) /\ u(seen, tier, part).kind = "status"
      BY <1>1, <1>4 DEF StatusRead, Serving, RequestFields
    <3> QED BY <2>2, <3>1, OtherSame
  <2> HIDE DEF Step
  <2> QED BY <2>1, <2>2
<1> QED BY <1>2, <1>3, <1>4

-----------------------------------------------------------------------------
(* Rows.                                                                   *)

NumbersOK ==
  /\ number \in [Names -> Seq(NumberRow)] /\ calls \in [Names -> Nat]
  /\ staff \in [org : Org, row : Nat]

(* Row i of organization o is set, or appended; all else stays.            *)
SetsRow(o, i, row) ==
  /\ number' \in [Names -> Seq(NumberRow)]
  /\ number'[o][i] = row
  /\ DOMAIN number'[o] = DOMAIN number[o] \cup {i}
  /\ \A j \in DOMAIN number[o] \ {i} : number'[o][j] = number[o][j]
  /\ \A x \in Names \ {o} : number'[x] = number[x]

LEMMA RowUpdated ==
  ASSUME NumbersOK, NEW o \in Names, NEW i \in DOMAIN number[o], NEW row \in NumberRow,
         number' = [number EXCEPT ![o] = [@ EXCEPT ![i] = row]]
  PROVE  SetsRow(o, i, row)
<1>1. number[o] \in Seq(NumberRow)
  BY DEF NumbersOK
<1> DEFINE rows == [number[o] EXCEPT ![i] = row]
<1>2. rows \in Seq(NumberRow) /\ DOMAIN rows = DOMAIN number[o] /\ rows[i] = row
      /\ \A j \in DOMAIN number[o] \ {i} : rows[j] = number[o][j]
  BY <1>1
<1>3. number' = [number EXCEPT ![o] = rows]
  OBVIOUS
<1> HIDE DEF rows
<1> QED BY <1>2, <1>3 DEF NumbersOK, SetsRow

LEMMA RowAppended ==
  ASSUME NumbersOK, NEW o \in Names, NEW row \in NumberRow,
         number' = [number EXCEPT ![o] = Append(@, row)]
  PROVE  Len(number[o]) + 1 \notin DOMAIN number[o] /\ SetsRow(o, Len(number[o]) + 1, row)
<1>1. number[o] \in Seq(NumberRow)
  BY DEF NumbersOK
<1> DEFINE rows == Append(number[o], row)
           n == Len(number[o]) + 1
<1>2. rows \in Seq(NumberRow) /\ DOMAIN rows = DOMAIN number[o] \cup {n} /\ rows[n] = row
      /\ n \notin DOMAIN number[o] /\ \A j \in DOMAIN number[o] \ {n} : rows[j] = number[o][j]
  BY <1>1
<1>3. number' = [number EXCEPT ![o] = rows]
  OBVIOUS
<1> HIDE DEF rows, n
<1>4. SetsRow(o, n, row)
  BY <1>2, <1>3 DEF NumbersOK, SetsRow
<1> QED BY <1>2, <1>4 DEF n

LEMMA Elsewhere ==
  ASSUME NumbersOK, NEW o, o \notin Names, NEW rows, number' = [number EXCEPT ![o] = rows]
  PROVE  number' = number
BY DEF NumbersOK

LEMMA RowOK ==
  ASSUME NumbersOK, NEW o \in Names, NEW i \in DOMAIN number[o]
  PROVE  number[o][i] \in NumberRow /\ i \in Nat /\ i # 0
<1>1. number[o] \in Seq(NumberRow)
  BY DEF NumbersOK
<1> QED BY <1>1

LEMMA NewRowOK ==
  ASSUME NEW status \in Status
  PROVE  NewRow(status) \in NumberRow
BY DEF NewRow, NumberRow, Status

-----------------------------------------------------------------------------
(* Invariants.                                                             *)

(* Of a row: the stamps come before the mark.  n: calls there are.         *)
StampsOK(row, n) ==
  /\ row.first # None => row.first <= n
  /\ row.asked # None => row.first # None /\ row.first <= row.asked
  /\ row.verified => row.first # None /\ row.first < n

(* Of a verification: what it has read of the row.                         *)
ReadOK(q, row, n) ==
  /\ q.at \in {"profile", "search"} /\ q.asked # None =>
       q.asked \in Nat /\ row.first # None /\ row.first <= q.asked
  /\ q.at = "write" => q.asked \in Nat /\ q.asked <= n
  /\ q.at = "search" => q.asked # None
  /\ q.at = "mark" => row.first # None /\ row.first < n

Stamps ==
  /\ \A o \in Names : \A i \in DOMAIN number[o] : StampsOK(number[o][i], calls[o])
  /\ \A r \in Slots :
       Working(req[r]) /\ req[r].kind = "verify" /\ req[r].org \in Names =>
         ReadOK(req[r], number[req[r].org][req[r].row], calls[req[r].org])

(* The rows that are held by a request, by the script or by staff.         *)
Found ==
  /\ \A r \in Slots :
       Working(req[r]) /\ req[r].org \in Names =>
         \/ req[r].row \in DOMAIN number[req[r].org]
         \/ req[r].kind = "provision" /\ req[r].row = 0
  /\ hand \in {0, None} \cup DOMAIN number[Demo]
  /\ setup = "write" => hand # None
  /\ staff.row # 0 => staff.org \in Names /\ staff.row \in DOMAIN number[staff.org]

(* Where no two writers overlapped: there is one, of the only row, which   *)
(* is a failed one or is not there yet, and staff are not at it.           *)
Writes(q, o) == Working(q) /\ q.kind = "provision" /\ q.org = o
Alone(o) ==
  /\ \A i \in DOMAIN number[o] : i = 1
  /\ \A r1, r2 \in Slots : Writes(req[r1], o) /\ Writes(req[r2], o) => r1 = r2
  /\ \A r \in Slots :
       Writes(req[r], o) =>
         /\ o # Demo \/ hand = None
         /\ IF req[r].row = 0 THEN DOMAIN number[o] = {} ELSE number[o][req[r].row].status = "FAILED"
  /\ o = Demo /\ hand = 0 => DOMAIN number[o] = {}
  /\ staff.row # 0 /\ staff.org = o => number[o][staff.row].status \in {"AWAITING_APPROVAL", "PURCHASED"}

NumberInv ==
  /\ RequestsOK /\ NumbersOK /\ Found /\ Stamps
  /\ \A o \in Names \ overlapped : Alone(o)

(* Of a step: it keeps the invariant, and purchased numbers.               *)
Kept == NumberInv' /\ PurchasedKept

-----------------------------------------------------------------------------
(* Rows are never removed, and the earliest stamp gets no later.           *)
StampStays(old, new) == old.first # None => new.first # None /\ new.first <= old.first
RowsStay ==
  \A o \in Names : \A i \in DOMAIN number[o] :
    i \in DOMAIN number'[o] /\ StampStays(number[o][i], number'[o][i])

LEMMA ReadsKept ==
  ASSUME NumberInv, NumbersOK', RequestsSame, RowsStay, \A o \in Names : calls[o] <= calls'[o]
  PROVE  \A r \in Slots :
           Working(req'[r]) /\ req'[r].org \in Names =>
             /\ req'[r].row \in DOMAIN number'[req'[r].org] \/ (req'[r].kind = "provision" /\ req'[r].row = 0)
             /\ req'[r].kind = "verify" =>
                  ReadOK(req'[r], number'[req'[r].org][req'[r].row], calls'[req'[r].org])
<1> SUFFICES ASSUME NEW r \in Slots, Working(req'[r]), req'[r].org \in Names
             PROVE  /\ req'[r].row \in DOMAIN number'[req'[r].org] \/ (req'[r].kind = "provision" /\ req'[r].row = 0)
                    /\ req'[r].kind = "verify" =>
                         ReadOK(req'[r], number'[req'[r].org][req'[r].row], calls'[req'[r].org])
  OBVIOUS
<1> DEFINE q == req[r]
           o == q.org
           i == q.row
<1>1. /\ Working(q) /\ req'[r].kind = q.kind /\ req'[r].at = q.at /\ req'[r].org = o
      /\ req'[r].row = i /\ req'[r].asked = q.asked
  BY DEF RequestsSame, Same
<1>2. o \in Names
  BY <1>1
<1>3. i \in DOMAIN number[o] \/ (q.kind = "provision" /\ i = 0)
  BY <1>1, <1>2 DEF NumberInv, Found
<1>4. i \in DOMAIN number'[o] \/ (q.kind = "provision" /\ i = 0)
  BY <1>2, <1>3 DEF RowsStay
<1>5. ASSUME q.kind = "verify" PROVE ReadOK(q, number'[o][i], calls'[o])
  <2>1. i \in DOMAIN number[o] /\ ReadOK(q, number[o][i], calls[o])
    BY <1>1, <1>2, <1>3, <1>5 DEF NumberInv, Stamps
  <2>2. /\ number[o][i].first # None =>
              number'[o][i].first # None /\ number'[o][i].first <= number[o][i].first
        /\ i \in DOMAIN number'[o]
        /\ calls[o] <= calls'[o] /\ calls[o] \in Nat /\ calls'[o] \in Nat
    BY <1>2, <2>1 DEF RowsStay, StampStays, NumberInv, NumbersOK
  <2>3. number[o][i].first \in Nat \cup {None} /\ number'[o][i].first \in Nat \cup {None}
    <3>1. number'[o] \in Seq(NumberRow) /\ number[o] \in Seq(NumberRow)
      BY <1>2 DEF NumberInv, NumbersOK
    <3>2. number[o][i] \in NumberRow /\ number'[o][i] \in NumberRow
      BY <2>1, <2>2, <3>1
    <3> QED BY <3>2 DEF NumberRow
  <2> QED BY <2>1, <2>2, <2>3, NoneAssumption DEF ReadOK
<1> QED BY <1>1, <1>4, <1>5 DEF ReadOK

(* A step that reads and writes no number.                                 *)
LEMMA Frame ==
  ASSUME NumberInv, RequestsSame, UNCHANGED <<number, calls, staff, overlapped>>,
         hand' \in {hand, None}, setup' = "write" => setup = "write" /\ hand' = hand
  PROVE  Kept
<1>1. RowsStay /\ NumbersOK' /\ \A o \in Names : calls[o] <= calls'[o]
  <2>1. \A o \in Names : \A i \in DOMAIN number[o] : StampStays(number[o][i], number[o][i])
    <3>1. \A o \in Names : \A i \in DOMAIN number[o] : number[o][i] \in NumberRow
      BY RowOK DEF NumberInv
    <3> QED BY <3>1, NoneAssumption DEF StampStays, NumberRow
  <2> QED BY <2>1 DEF NumberInv, NumbersOK, RowsStay
<1>2. RequestsOK'
  BY DEF RequestsSame, RequestsOK
<1>3. Found'
  BY <1>1, ReadsKept DEF NumberInv, Found
<1>4. Stamps'
  BY <1>1, ReadsKept DEF NumberInv, Stamps
<1>6. ASSUME NEW o \in Names \ overlapped PROVE Alone(o)'
  <2>1. Alone(o)
    BY DEF NumberInv
  <2>2. \A r \in Slots : Writes(req'[r], o) => Writes(req[r], o) /\ req'[r].row = req[r].row
    BY DEF RequestsSame, Same, Writes
  <2> QED BY <2>1, <2>2, NoneAssumption DEF Alone
<1>7. PurchasedKept
  BY DEF PurchasedKept
<1> QED BY <1>1, <1>2, <1>3, <1>4, <1>6, <1>7 DEF NumberInv, Kept

(* A step that sets one row, or appends one, to what a row may be then.    *)
RowFits(o, i, row) ==
  /\ row \in NumberRow /\ SetsRow(o, i, row)
  /\ i \in DOMAIN number[o] => StampStays(number[o][i], row)
  /\ StampsOK(row, calls[o])

AsideKept ==
  /\ UNCHANGED <<calls, overlapped>> /\ staff' \in {staff, StaffIdle}
  /\ hand' \in {hand, None} /\ (setup' = "write" => setup = "write" /\ hand' = hand)

Purchased(o, i, row) ==
  i \in DOMAIN number[o] /\ number[o][i].status = "PURCHASED" => row.status = "PURCHASED"

LEMMA RowStep ==
  ASSUME NumberInv, NEW o \in Names, NEW i, NEW row, RowFits(o, i, row), AsideKept,
         RequestsSame, o \notin overlapped => Alone(o)' /\ Purchased(o, i, row)
  PROVE  Kept
<1>1. /\ number' \in [Names -> Seq(NumberRow)]
      /\ number'[o][i] = row
      /\ DOMAIN number'[o] = DOMAIN number[o] \cup {i}
      /\ \A j \in DOMAIN number[o] \ {i} : number'[o][j] = number[o][j]
      /\ \A x \in Names \ {o} : number'[x] = number[x]
  BY DEF SetsRow, RowFits
<1> USE DEF RowFits, AsideKept
<1>2. StaffIdle \in [org : Org, row : Nat] /\ StaffIdle.row = 0
  BY DEF StaffIdle, Org
<1>3. NumbersOK'
  BY <1>1, <1>2 DEF NumberInv, NumbersOK
<1>4. RowsStay
  <2>1. \A x \in Names : \A j \in DOMAIN number[x] : StampStays(number[x][j], number[x][j])
    <3>1. \A x \in Names : \A j \in DOMAIN number[x] : number[x][j] \in NumberRow
      BY RowOK DEF NumberInv
    <3> QED BY <3>1, NoneAssumption DEF StampStays, NumberRow
  <2> QED BY <1>1, <2>1 DEF RowsStay
<1>5. \A x \in Names : calls[x] <= calls'[x]
  BY DEF NumberInv, NumbersOK
<1>6. RequestsOK'
  BY DEF RequestsSame, RequestsOK
<1>7. Found'
  <2>1. DOMAIN number[Demo] \subseteq DOMAIN number'[Demo]
    BY <1>1, DemoAssumption
  <2>2. staff'.row # 0 => staff'.org \in Names /\ staff'.row \in DOMAIN number'[staff'.org]
    BY <1>1, <1>2 DEF NumberInv, Found
  <2> QED BY <1>3, <1>4, <1>5, <2>1, <2>2, ReadsKept DEF NumberInv, Found
<1>8. Stamps'
  <2>1. ASSUME NEW x \in Names, NEW j \in DOMAIN number'[x] PROVE StampsOK(number'[x][j], calls'[x])
    BY <1>1, <2>1 DEF NumberInv, Stamps
  <2> QED BY <1>3, <1>4, <1>5, <2>1, ReadsKept DEF Stamps
<1>10. ASSUME NEW x \in Names \ overlapped, x # o PROVE Alone(x)'
  <2>1. Alone(x) /\ number'[x] = number[x]
    BY <1>1, <1>10 DEF NumberInv
  <2>2. \A r \in Slots : Writes(req'[r], x) => Writes(req[r], x) /\ req'[r].row = req[r].row
    BY DEF RequestsSame, Same, Writes
  <2> QED BY <1>2, <2>1, <2>2, NoneAssumption DEF Alone
<1>11. PurchasedKept
  BY <1>1 DEF PurchasedKept, Purchased
<1> QED BY <1>3, <1>6, <1>7, <1>8, <1>10, <1>11 DEF NumberInv, Kept

(* A step in which a request reads a number that it will use.              *)
LEMMA ReadStep ==
  ASSUME NumberInv, NEW r \in Slots, NEW u, req' = [req EXCEPT ![r] = u],
         RequestFields \subseteq DOMAIN u, Working(u),
         UNCHANGED <<number, calls, staff, hand, setup>>, overlapped \subseteq overlapped',
         u.org \in Names =>
           /\ u.row \in DOMAIN number[u.org] \/ (u.kind = "provision" /\ u.row = 0)
           /\ u.kind = "verify" => ReadOK(u, number[u.org][u.row], calls[u.org]),
         u.kind = "provision" /\ u.org \in Names \ overlapped' =>
           /\ \A x \in Slots : ~Writes(req[x], u.org)
           /\ u.org # Demo \/ hand = None
           /\ IF u.row = 0 THEN DOMAIN number[u.org] = {} ELSE number[u.org][u.row].status = "FAILED"
  PROVE  Kept
<1>1. /\ DOMAIN req' = Slots /\ req'[r] = u
      /\ \A x \in Slots \ {r} : req'[x] = req[x]
  BY DEF NumberInv, RequestsOK
<1>2. RequestsOK' /\ NumbersOK'
  BY <1>1 DEF NumberInv, RequestsOK, NumbersOK
<1>3. Found'
  BY <1>1 DEF NumberInv, Found
<1>4. Stamps'
  BY <1>1 DEF NumberInv, Stamps
<1>6. ASSUME NEW o \in Names \ overlapped' PROVE Alone(o)'
  <2>1. Alone(o)
    BY DEF NumberInv
  <2>2. CASE Writes(u, o)
    BY <1>1, <2>1, <2>2 DEF Alone, Writes
  <2>3. CASE ~Writes(u, o)
    BY <1>1, <2>1, <2>3 DEF Alone
  <2> QED BY <2>2, <2>3
<1>7. PurchasedKept
  BY DEF PurchasedKept
<1> QED BY <1>2, <1>3, <1>4, <1>6, <1>7 DEF NumberInv, Kept

-----------------------------------------------------------------------------
(* The steps of an organization's number.                                  *)

NumberRest == UNCHANGED <<calls, staff, hand, setup>>

LEMMA ReplyStep ==
  ASSUME NumberInv, NEW r \in Slots, NEW answer, answer # "none", Reply(r, answer),
         UNCHANGED <<number, overlapped>>, NumberRest
  PROVE  Kept
BY ReplySame, Frame DEF NumberInv, NumberRest

LEMMA ProvisionFindStep ==
  ASSUME NumberInv, NEW r \in Slots, ProvisionFind(r), NumberRest
  PROVE  Kept
<1> DEFINE q == req[r]
           o == q.org
<1>1. CASE Reply(r, "conflict") /\ UNCHANGED overlapped
  BY <1>1, ReplyStep DEF ProvisionFind
<1>2. CASE ~(Reply(r, "conflict") /\ UNCHANGED overlapped)
  <2>1. PICK i \in FindFirst(o) \cup {0} :
          /\ IF i = 0 THEN FindFirst(o) = {} ELSE ~Conflicts(number[o][i])
          /\ req' = [req EXCEPT ![r].at = "write", ![r].row = i]
          /\ overlapped' = Overlap(o)
    BY <1>2 DEF ProvisionFind
  <2> DEFINE u == [q EXCEPT !.at = "write", !.row = i]
  <2>2. /\ RequestFields \subseteq DOMAIN q /\ DOMAIN req = Slots
        /\ q.kind = "provision" /\ q.at = "find" /\ q.answer = "none"
    BY DEF NumberInv, RequestsOK, ProvisionFind, Serving
  <2>3. req' = [req EXCEPT ![r] = u]
    BY <2>1, <2>2
  <2>4. /\ RequestFields \subseteq DOMAIN u /\ Working(u) /\ u.org = o /\ u.row = i
        /\ u.kind = "provision"
    BY <2>2 DEF RequestFields, Working
  <2> HIDE DEF u
  <2>5. overlapped \subseteq overlapped'
    BY <2>1 DEF Overlap
  <2>6. o \in Names => i \in DOMAIN number[o] \/ i = 0
    BY <2>1 DEF FindFirst
  <2>7. ASSUME o \in Names \ overlapped'
        PROVE  /\ \A x \in Slots : ~Writes(req[x], o)
               /\ o # Demo \/ hand = None
               /\ IF i = 0 THEN DOMAIN number[o] = {} ELSE number[o][i].status = "FAILED"
    <3>1. Provisioning(o) = {} /\ (o # Demo \/ hand = None)
      BY <2>1, <2>7 DEF Overlap
    <3>2. \A x \in Slots : ~Writes(req[x], o)
      BY <3>1 DEF Provisioning, Serving, Writes, Working
    <3>3. ASSUME i # 0 PROVE number[o][i].status = "FAILED"
      <4>1. number[o][i] \in NumberRow
        BY <2>6, <2>7, <3>3, RowOK DEF NumberInv
      <4> QED BY <2>1, <3>3, <4>1 DEF Conflicts, NumberRow, Status
    <3> QED BY <2>1, <3>1, <3>2, <3>3 DEF FindFirst
  <2> QED BY <2>3, <2>4, <2>5, <2>6, <2>7, ReadStep DEF ProvisionFind, NumberRest
<1> QED BY <1>1, <1>2

(* A row of which only the status changes.                                 *)
WithStatus(o, i, status) == [number[o][i] EXCEPT !.status = status]

LEMMA StatusRow ==
  ASSUME NumberInv, NEW o \in Names, NEW i \in DOMAIN number[o], NEW status \in Status,
         number' = [number EXCEPT ![o] = [@ EXCEPT ![i].status = status]]
  PROVE  WithStatus(o, i, status).status = status /\ RowFits(o, i, WithStatus(o, i, status))
<1> DEFINE row == WithStatus(o, i, status)
<1>1. number[o][i] \in NumberRow /\ StampsOK(number[o][i], calls[o])
  BY RowOK DEF NumberInv, Stamps
<1>2. /\ row \in NumberRow /\ row.status = status /\ StampStays(number[o][i], row)
      /\ StampsOK(row, calls[o])
  BY <1>1, NoneAssumption DEF NumberRow, StampsOK, StampStays, WithStatus
<1>3. number' = [number EXCEPT ![o] = [@ EXCEPT ![i] = row]]
  BY DEF WithStatus
<1> HIDE DEF row
<1>4. SetsRow(o, i, row)
  BY <1>2, <1>3, RowUpdated DEF NumberInv
<1> QED BY <1>1, <1>2, <1>4 DEF row, RowFits

(* A row appended with what the column defaults and a status make it.      *)
LEMMA AppendedRow ==
  ASSUME NumberInv, NEW o \in Names, NEW status \in Status,
         number' = [number EXCEPT ![o] = Append(@, NewRow(status))]
  PROVE  /\ RowFits(o, Len(number[o]) + 1, NewRow(status))
         /\ Len(number[o]) + 1 \notin DOMAIN number[o]
         /\ DOMAIN number[o] = {} => Len(number[o]) + 1 = 1
<1> DEFINE i == Len(number[o]) + 1
<1>1. NewRow(status) \in NumberRow
  BY NewRowOK
<1>2. StampsOK(NewRow(status), calls[o])
  BY DEF StampsOK, NewRow
<1>3. DOMAIN number[o] = {} => i = 1
  <2>1. number[o] \in Seq(NumberRow)
    BY DEF NumberInv, NumbersOK
  <2>2. Len(number[o]) \in Nat /\ DOMAIN number[o] = 1 .. Len(number[o])
    BY <2>1
  <2>3. DOMAIN number[o] = {} => 1 \notin 1 .. Len(number[o])
    BY <2>2
  <2> QED BY <2>2, <2>3
<1>4. i \notin DOMAIN number[o] /\ SetsRow(o, i, NewRow(status))
  <2>1. \A row \in NumberRow : number' = [number EXCEPT ![o] = Append(@, row)] =>
          i \notin DOMAIN number[o] /\ SetsRow(o, i, row)
    BY RowAppended DEF NumberInv
  <2> QED BY <1>1, <2>1
<1> HIDE DEF i
<1>5. RowFits(o, i, NewRow(status))
  BY <1>1, <1>2, <1>4 DEF RowFits
<1> QED BY <1>3, <1>4, <1>5 DEF i

LEMMA RequestedSame ==
  ASSUME RequestsOK, NEW r \in Slots, Requested(r)
  PROVE  RequestsSame /\ ~Working(req'[r])
<1> DEFINE u == [req[r] EXCEPT !.answer = "ok", !.at = "end", !.arg = "AWAITING_APPROVAL"]
<1>1. req' = [req EXCEPT ![r] = Settled(u)]
  BY DEF Requested, RequestsOK
<1>2. RequestFields \subseteq DOMAIN u /\ u.answer = "ok" /\ ~Working(u)
  BY DEF RequestsOK, RequestFields, Working
<1> HIDE DEF u
<1>3. RequestsSame
  BY <1>1, <1>2, OtherSame
<1>4. req'[r] = Settled(u)
  BY <1>1 DEF RequestsOK
<1> QED BY <1>2, <1>3, <1>4, FreeOK DEF Settled

LEMMA ProvisionWriteStep ==
  ASSUME NumberInv, NEW r \in Slots, ProvisionWrite(r), NumberRest
  PROVE  Kept
<1> DEFINE q == req[r]
<1>1. /\ q.kind = "provision" /\ Working(q) /\ UNCHANGED overlapped
      /\ number' = [number EXCEPT ![q.org] = IF q.row = 0 THEN Append(@, NewRow("AWAITING_APPROVAL"))
                                             ELSE [@ EXCEPT ![q.row].status = "AWAITING_APPROVAL"]]
  BY DEF ProvisionWrite, Serving, Working
<1>2. RequestsSame /\ ~Working(req'[r])
  BY RequestedSame DEF NumberInv, ProvisionWrite
<1>3. CASE q.org \notin Names
  BY <1>1, <1>2, <1>3, Elsewhere, Frame DEF NumberInv, NumberRest
<1>4. ASSUME NEW o \in Names, NEW row0, o = q.org, row0 = q.row PROVE Kept
  <2>1. row0 = 0 \/ row0 \in DOMAIN number[o]
    BY <1>1, <1>4 DEF NumberInv, Found
  <2>2. "AWAITING_APPROVAL" \in Status
    BY DEF Status
  <2>3. ASSUME o \notin overlapped, NEW i, NEW row \in NumberRow, SetsRow(o, i, row), i = 1,
               row0 # 0 => row0 = i
        PROVE  Alone(o)'
    <3>1. Alone(o)
      BY <1>4, <2>3 DEF NumberInv
    <3>2. Writes(q, o)
      BY <1>1, <1>4 DEF Writes
    <3>3. \A x \in Slots : ~Writes(req'[x], o)
      <4>1. \A x \in Slots : Writes(req'[x], o) => Writes(req[x], o)
        BY <1>2 DEF RequestsSame, Same, Writes
      <4> QED BY <1>2, <3>1, <3>2, <4>1 DEF Alone, Writes
    <3>4. o # Demo \/ hand = None
      BY <3>1, <3>2 DEF Alone
    <3>5. ~(staff.row # 0 /\ staff.org = o)
      <4> SUFFICES ASSUME staff.row # 0, staff.org = o PROVE FALSE
        OBVIOUS
      <4>1. staff.row \in DOMAIN number[o] /\ staff.row = 1
        BY <3>1 DEF NumberInv, Found, Alone
      <4>2. number[o][1].status \in {"AWAITING_APPROVAL", "PURCHASED"}
        BY <3>1, <4>1 DEF Alone
      <4>3. row0 # 0 => number[o][row0].status = "FAILED"
        BY <1>4, <3>1, <3>2 DEF Alone
      <4>4. row0 = 0 => DOMAIN number[o] = {}
        BY <1>4, <3>1, <3>2 DEF Alone
      <4> QED BY <2>1, <2>3, <3>1, <4>1, <4>2, <4>3, <4>4 DEF Alone
    <3>6. \A j \in DOMAIN number'[o] : j = 1
      BY <2>3, <3>1 DEF SetsRow, Alone
    <3>7. hand' = hand /\ staff' = staff /\ None # 0
      BY NoneAssumption DEF NumberRest
    <3>8. /\ \A r1, r2 \in Slots : Writes(req'[r1], o) /\ Writes(req'[r2], o) => r1 = r2
          /\ ~(o = Demo /\ hand' = 0)
          /\ ~(staff'.row # 0 /\ staff'.org = o)
      BY <3>3, <3>4, <3>5, <3>7
    <3> QED BY <3>3, <3>6, <3>8 DEF Alone
  <2>4. AsideKept
    BY <1>1 DEF NumberRest, AsideKept
  <2>5. CASE row0 = 0
    <3> DEFINE i == Len(number[o]) + 1
               row == NewRow("AWAITING_APPROVAL")
    <3>1. number' = [number EXCEPT ![o] = Append(@, NewRow("AWAITING_APPROVAL"))]
      BY <1>1, <1>4, <2>5
    <3>2. RowFits(o, i, row) /\ i \notin DOMAIN number[o] /\ (DOMAIN number[o] = {} => i = 1)
      BY <1>4, <2>2, <3>1, AppendedRow
    <3>3. o \notin overlapped => DOMAIN number[o] = {}
      BY <1>1, <1>4, <2>5, ZenonT(30) DEF NumberInv, Alone, Writes
    <3> HIDE DEF i, row
    <3>4. o \notin overlapped => Alone(o)' /\ Purchased(o, i, row)
      BY <2>3, <2>5, <3>2, <3>3 DEF RowFits, Purchased
    <3> QED BY <1>2, <1>4, <2>4, <3>2, <3>4, RowStep
  <2>6. CASE row0 # 0
    <3> DEFINE i == row0
               row == WithStatus(o, i, "AWAITING_APPROVAL")
    <3>1. i \in DOMAIN number[o] /\ number' = [number EXCEPT ![o] = [@ EXCEPT ![i].status = "AWAITING_APPROVAL"]]
      BY <1>1, <1>4, <2>1, <2>6
    <3>2. RowFits(o, i, row)
      BY <1>4, <2>2, <3>1, StatusRow
    <3>3. o \notin overlapped => i = 1 /\ number[o][i].status = "FAILED"
      BY <1>1, <1>4, <2>6, <3>1 DEF NumberInv, Alone, Writes
    <3> HIDE DEF row
    <3>4. o \notin overlapped => Alone(o)' /\ Purchased(o, i, row)
      BY <2>3, <3>2, <3>3 DEF RowFits, Purchased
    <3> QED BY <1>2, <1>4, <2>4, <3>2, <3>4, RowStep
  <2> QED BY <2>5, <2>6
<1> QED BY <1>3, <1>4

(* A row set at staff's or the script's or a verification's hand: a writer *)
(* that is alone keeps its row, if that was not the one set.               *)
LEMMA AloneKept ==
  ASSUME NumberInv, NEW o \in Names, Alone(o), NEW i, NEW row, SetsRow(o, i, row), RequestsSame,
         \A j \in DOMAIN number'[o] : j = 1,
         \A r \in Slots : Writes(req[r], o) =>
           i \in DOMAIN number[o] /\ (row.status = number[o][i].status \/ number[o][i].status # "FAILED"),
         hand' \in {hand, None}, o = Demo /\ hand' = 0 => i \in DOMAIN number[o],
         staff' \in {staff, StaffIdle},
         staff'.row # 0 /\ staff'.org = o =>
           /\ staff.row \in DOMAIN number[o]
           /\ staff.row = i => row.status \in {"AWAITING_APPROVAL", "PURCHASED"}
  PROVE  Alone(o)'
<1>1. /\ number'[o][i] = row
      /\ DOMAIN number'[o] = DOMAIN number[o] \cup {i}
      /\ \A j \in DOMAIN number[o] \ {i} : number'[o][j] = number[o][j]
  BY DEF SetsRow
<1>2. \A r \in Slots : Writes(req'[r], o) => Writes(req[r], o) /\ req'[r].row = req[r].row
  BY DEF RequestsSame, Same, Writes
<1>3. \A r1, r2 \in Slots : Writes(req'[r1], o) /\ Writes(req'[r2], o) => r1 = r2
  BY <1>2 DEF Alone
<1>4. ASSUME NEW r \in Slots, Writes(req'[r], o)
      PROVE  /\ o # Demo \/ hand' = None
             /\ IF req'[r].row = 0 THEN DOMAIN number'[o] = {} ELSE number'[o][req'[r].row].status = "FAILED"
  <2>1. Writes(req[r], o) /\ req'[r].row = req[r].row
    BY <1>2, <1>4
  <2>2. i \in DOMAIN number[o] /\ (row.status = number[o][i].status \/ number[o][i].status # "FAILED")
    BY <2>1
  <2>3. /\ o # Demo \/ hand = None
        /\ IF req[r].row = 0 THEN DOMAIN number[o] = {} ELSE number[o][req[r].row].status = "FAILED"
    BY <2>1 DEF Alone
  <2>4. req[r].row = 0 \/ req[r].row \in DOMAIN number[o]
    BY <2>1 DEF NumberInv, Found, Writes
  <2> QED BY <1>1, <2>1, <2>2, <2>3, <2>4
<1>5. o = Demo /\ hand' = 0 => DOMAIN number'[o] = {}
  BY <1>1, NoneAssumption DEF Alone
<1>6. staff'.row # 0 /\ staff'.org = o =>
        number'[o][staff'.row].status \in {"AWAITING_APPROVAL", "PURCHASED"}
  BY <1>1 DEF Alone, StaffIdle
<1> QED BY <1>3, <1>4, <1>5, <1>6 DEF Alone

(* Where only a row's status changes.                                      *)
LEMMA StatusStep ==
  ASSUME NumberInv, NEW o \in Names, NEW i \in DOMAIN number[o], NEW status \in Status,
         number' = [number EXCEPT ![o] = [@ EXCEPT ![i].status = status]],
         RequestsSame, AsideKept,
         o \notin overlapped =>
           /\ \A r \in Slots : Writes(req[r], o) => number[o][i].status # "FAILED"
           /\ staff'.row # 0 /\ staff'.org = o /\ staff.row = i => status # "FAILED"
           /\ number[o][i].status = "PURCHASED" => status = "PURCHASED"
  PROVE  Kept
<1> DEFINE row == WithStatus(o, i, status)
<1>1. row.status = status /\ RowFits(o, i, row)
  BY StatusRow
<1> HIDE DEF row
<1>2. ASSUME o \notin overlapped PROVE Alone(o)'
  <2>1. Alone(o)
    BY <1>2 DEF NumberInv
  <2>2. \A j \in DOMAIN number'[o] : j = 1
    BY <1>1, <2>1 DEF RowFits, SetsRow, Alone
  <2>3. staff'.row # 0 /\ staff'.org = o =>
          /\ staff.row \in DOMAIN number[o]
          /\ staff.row = i => row.status \in {"AWAITING_APPROVAL", "PURCHASED"}
    BY <1>1, <1>2 DEF NumberInv, Found, AsideKept, StaffIdle, Status
  <2>4. hand' \in {hand, None} /\ staff' \in {staff, StaffIdle}
    BY DEF AsideKept
  <2> QED BY <1>1, <1>2, <2>1, <2>2, <2>3, <2>4, AloneKept DEF RowFits
<1>3. o \notin overlapped => Purchased(o, i, row)
  BY <1>1 DEF Purchased
<1> QED BY <1>1, <1>2, <1>3, RowStep

(* Where nobody writes: staff's and the script's rows.                     *)
LEMMA PurchaseFailsStep ==
  ASSUME NumberInv, NEW o \in Names, NEW i \in DOMAIN number[o],
         staff.row = 0, number[o][i].status = "AWAITING_APPROVAL",
         number' = [number EXCEPT ![o][i].status = "FAILED"],
         UNCHANGED <<req, calls, staff, overlapped, hand, setup>>
  PROVE  Kept
<1>1. RequestsSame
  BY UnchangedSame DEF NumberInv
<1>2. number' = [number EXCEPT ![o] = [@ EXCEPT ![i].status = "FAILED"]] /\ "FAILED" \in Status
  BY DEF Status
<1>3. AsideKept
  BY DEF AsideKept
<1> QED BY <1>1, <1>2, <1>3, StatusStep

LEMMA StaffMarkStep ==
  ASSUME NumberInv, StaffMark, UNCHANGED <<req, calls, overlapped, hand, setup>>
  PROVE  Kept
<1>0. PICK o \in Names : staff.org = o
  BY DEF StaffMark, NumberInv, Found
<1>1. PICK i \in DOMAIN number[o] : staff.org = o /\ staff.row = i
  BY <1>0 DEF StaffMark, NumberInv, Found
<1> DEFINE row == WithStatus(o, i, "PURCHASED")
<1>2. number' = [number EXCEPT ![o] = [@ EXCEPT ![i].status = "PURCHASED"]] /\ "PURCHASED" \in Status
  BY <1>1 DEF StaffMark, Status
<1>4. row.status = "PURCHASED" /\ RowFits(o, i, row)
  BY <1>2, StatusRow
<1> HIDE DEF row
<1>6. SetsRow(o, i, row)
  BY <1>4 DEF RowFits
<1>7. AsideKept /\ RequestsSame
  BY UnchangedSame DEF AsideKept, NumberInv, StaffMark
<1>8. ASSUME o \notin overlapped PROVE Alone(o)'
  <2>1. Alone(o)
    BY <1>8 DEF NumberInv
  <2>2. number[o][i].status # "FAILED"
    BY <1>1, <2>1 DEF Alone, StaffMark
  <2>3. \A j \in DOMAIN number'[o] : j = 1
    BY <1>6, <2>1 DEF SetsRow, Alone
  <2>4. hand' \in {hand, None} /\ staff' \in {staff, StaffIdle} /\ staff'.row = 0
    BY DEF StaffMark, StaffIdle
  <2> QED BY <1>4, <1>6, <1>7, <2>1, <2>2, <2>3, <2>4, AloneKept DEF RowFits
<1>9. Purchased(o, i, row)
  BY <1>4 DEF Purchased
<1> QED BY <1>4, <1>7, <1>8, <1>9, RowStep

LEMMA SetupWriteStep ==
  ASSUME NumberInv, SetupWrite, UNCHANGED <<req, calls, staff>>
  PROVE  Kept
<1>1. RequestsSame /\ AsideKept
  BY UnchangedSame DEF NumberInv, AsideKept, SetupWrite
<1>2. hand # None /\ hand \in {0} \cup DOMAIN number[Demo]
  BY DEF NumberInv, Found, SetupWrite
<1>3. "PURCHASED" \in Status /\ Demo \in Names
  BY DemoAssumption DEF Status
<1>4. Demo \notin overlapped => \A r \in Slots : ~Writes(req[r], Demo)
  BY <1>2, <1>3 DEF NumberInv, Alone
<1>5. CASE UNCHANGED number
  BY <1>1, <1>5, Frame DEF SetupWrite
<1>6. CASE hand = 0 /\ number' = [number EXCEPT ![Demo] = Append(@, NewRow("PURCHASED"))]
  <2> DEFINE i == Len(number[Demo]) + 1
             row == NewRow("PURCHASED")
  <2>1. RowFits(Demo, i, row) /\ i \notin DOMAIN number[Demo] /\ (DOMAIN number[Demo] = {} => i = 1)
    BY <1>3, <1>6, AppendedRow
  <2> HIDE DEF i, row
  <2>2. ASSUME Demo \notin overlapped PROVE Alone(Demo)'
    <3>1. Alone(Demo) /\ DOMAIN number[Demo] = {}
      BY <1>3, <1>6, <2>2 DEF NumberInv, Alone
    <3>2. \A j \in DOMAIN number'[Demo] : j = 1
      BY <2>1, <3>1 DEF RowFits, SetsRow
    <3>3. staff'.row # 0 /\ staff'.org = Demo => FALSE
      BY <3>1 DEF NumberInv, Found
    <3>4. hand' = None /\ None # 0 /\ staff' \in {staff, StaffIdle}
      BY NoneAssumption DEF SetupWrite
    <3> QED BY <1>1, <1>3, <1>4, <2>1, <2>2, <3>1, <3>2, <3>3, <3>4, AloneKept DEF RowFits
  <2>3. Purchased(Demo, i, row)
    BY <2>1 DEF Purchased
  <2> QED BY <1>1, <1>3, <2>1, <2>2, <2>3, RowStep
<1>7. CASE hand # 0 /\ number' = [number EXCEPT ![Demo] = [@ EXCEPT ![hand].status = "PURCHASED"]]
  <2>1. hand \in DOMAIN number[Demo]
    BY <1>2, <1>7
  <2> QED BY <1>1, <1>3, <1>4, <1>7, <2>1, StatusStep
<1> QED BY <1>5, <1>6, <1>7 DEF SetupWrite

LEMMA PurchaseStep ==
  ASSUME NumberInv, StaffPurchase, UNCHANGED <<req, calls, overlapped, hand, setup>>
  PROVE  Kept
<1>1. PICK o \in Names : \E i \in DOMAIN number[o] :
        /\ staff.row = 0 /\ number[o][i].status = "AWAITING_APPROVAL"
        /\ \/ staff' = [org |-> o, row |-> i] /\ UNCHANGED number
           \/ number' = [number EXCEPT ![o][i].status = "FAILED"] /\ UNCHANGED staff
  BY DEF StaffPurchase
<1>2. PICK i \in DOMAIN number[o] :
        /\ staff.row = 0 /\ number[o][i].status = "AWAITING_APPROVAL"
        /\ \/ staff' = [org |-> o, row |-> i] /\ UNCHANGED number
           \/ number' = [number EXCEPT ![o][i].status = "FAILED"] /\ UNCHANGED staff
  BY <1>1
<1>3. CASE number' = [number EXCEPT ![o][i].status = "FAILED"] /\ UNCHANGED staff
  BY <1>2, <1>3, PurchaseFailsStep
<1>4. CASE staff' = [org |-> o, row |-> i] /\ UNCHANGED number
  <2>1. i \in Nat
    BY RowOK DEF NumberInv
  <2>2. NumbersOK'
    BY <1>4, <2>1 DEF NumberInv, NumbersOK, Org
  <2>4. staff'.org = o /\ staff'.row = i
    BY <1>4
  <2>5. RequestsOK'
    BY DEF NumberInv, RequestsOK
  <2>6. Found'
    BY <1>4, <2>4 DEF NumberInv, Found
  <2>7. Stamps'
    BY <1>4 DEF NumberInv, Stamps
  <2>9. ASSUME NEW x \in Names \ overlapped PROVE Alone(x)'
    <3>1. Alone(x)
      BY DEF NumberInv
    <3>2. staff'.row # 0 /\ staff'.org = x => number[x][staff'.row].status \in {"AWAITING_APPROVAL", "PURCHASED"}
      BY <1>2, <2>4
    <3> QED BY <1>4, <3>1, <3>2 DEF Alone
  <2>10. PurchasedKept
    BY <1>4 DEF PurchasedKept
  <2> QED BY <2>2, <2>5, <2>6, <2>7, <2>9, <2>10 DEF NumberInv, Kept
<1> QED BY <1>2, <1>3, <1>4

LEMMA CallStep ==
  ASSUME NumberInv, Calls, UNCHANGED <<req, number, staff, overlapped, hand, setup>>
  PROVE  Kept
<1>1. /\ calls' \in [Names -> Nat] /\ \A o \in Names : calls[o] <= calls'[o]
  <2>1. calls \in [Names -> Nat]
    BY DEF NumberInv, NumbersOK
  <2>2. \/ UNCHANGED calls
        \/ \E o \in ringing : calls' = [calls EXCEPT ![o] = @ + 1]
    BY DEF Calls, CallBegins, CallEnds
  <2>3. ASSUME NEW x, calls' = [calls EXCEPT ![x] = @ + 1]
        PROVE  calls' \in [Names -> Nat] /\ \A o \in Names : calls[o] <= calls'[o]
    <3>1. calls' \in [Names -> Nat]
      <4>1. CASE x \in Names
        BY <2>1, <2>3, <4>1
      <4>2. CASE x \notin Names
        BY <2>1, <2>3, <4>2
      <4> QED BY <4>1, <4>2
    <3>2. \A o \in Names : calls[o] \in Nat /\ calls'[o] \in {calls[o], calls[o] + 1}
      BY <2>1, <2>3
    <3> QED BY <3>1, <3>2
  <2> QED BY <2>1, <2>2, <2>3
<1>2. RequestsSame /\ RequestsOK'
  BY UnchangedSame DEF NumberInv, RequestsOK
<1>3. NumbersOK' /\ RowsStay
  <2>1. \A o \in Names : \A i \in DOMAIN number[o] : number[o][i] \in NumberRow
    BY RowOK DEF NumberInv
  <2>2. \A o \in Names : \A i \in DOMAIN number[o] : StampStays(number[o][i], number[o][i])
    BY <2>1, NoneAssumption DEF StampStays, NumberRow
  <2> QED BY <1>1, <2>2 DEF NumberInv, NumbersOK, RowsStay
<1>4. Found'
  BY DEF NumberInv, Found
<1>5. Stamps'
  <2>1. ASSUME NEW o \in Names, NEW i \in DOMAIN number[o] PROVE StampsOK(number[o][i], calls'[o])
    <3>1. StampsOK(number[o][i], calls[o]) /\ number[o][i] \in NumberRow
      BY RowOK DEF NumberInv, Stamps
    <3>2. calls[o] <= calls'[o] /\ calls[o] \in Nat /\ calls'[o] \in Nat
      BY <1>1 DEF NumberInv, NumbersOK
    <3> QED BY <3>1, <3>2, NoneAssumption DEF StampsOK, NumberRow
  <2> QED BY <1>1, <1>2, <1>3, <2>1, ReadsKept DEF Stamps
<1>7. ASSUME NEW x \in Names \ overlapped PROVE Alone(x)'
  BY <1>7 DEF NumberInv, Alone
<1>8. PurchasedKept
  BY DEF PurchasedKept
<1> QED BY <1>2, <1>3, <1>4, <1>5, <1>7, <1>8 DEF NumberInv, Kept

-----------------------------------------------------------------------------
(* The steps of a verification.                                            *)

LEMMA VerifyReadStep ==
  ASSUME NumberInv, NEW r \in Slots, VerifyFind(r) \/ VerifyProfile(r) \/ VerifySearch(r),
         UNCHANGED overlapped, NumberRest
  PROVE  Kept
<1> DEFINE q == req[r]
           o == q.org
<1>1. /\ RequestFields \subseteq DOMAIN q /\ DOMAIN req = Slots
      /\ q.kind = "verify" /\ q.answer = "none"
  BY DEF NumberInv, RequestsOK, VerifyFind, VerifyProfile, VerifySearch, Serving
<1>2. /\ UNCHANGED number
      /\ UNCHANGED <<number, calls, staff, hand, setup>> /\ overlapped \subseteq overlapped'
  BY DEF VerifyFind, VerifyProfile, VerifySearch, NumberRest
<1>3. ASSUME NEW answer, answer # "none", Reply(r, answer) PROVE Kept
  BY <1>2, <1>3, ReplyStep
<1>4. ASSUME NEW u, req' = [req EXCEPT ![r] = u], RequestFields \subseteq DOMAIN u, Working(u),
             u.kind = "verify", u.org = o,
             o \in Names => u.row \in DOMAIN number[o] /\ ReadOK(u, number[o][u.row], calls[o])
      PROVE  Kept
  BY <1>2, <1>4, ReadStep
<1>5. CASE VerifyFind(r)
  <2>1. CASE Reply(r, "missing")
    BY <2>1, <1>3
  <2>2. CASE ~Reply(r, "missing")
    <3>1. PICK i \in FindFirst(o) :
            req' = [req EXCEPT ![r].at = "profile", ![r].row = i, ![r].asked = number[o][i].asked,
                               ![r].seen = IF number[o][i].verified THEN {"number"} ELSE {}]
      BY <1>5, <2>2 DEF VerifyFind
    <3> DEFINE u == [q EXCEPT !.at = "profile", !.row = i, !.asked = number[o][i].asked,
                              !.seen = IF number[o][i].verified THEN {"number"} ELSE {}]
    <3>2. req' = [req EXCEPT ![r] = u]
      BY <1>1, <3>1
    <3>3. /\ RequestFields \subseteq DOMAIN u /\ Working(u) /\ u.kind = "verify" /\ u.org = o
          /\ u.at = "profile" /\ u.row = i /\ u.asked = number[o][i].asked
      BY <1>1 DEF RequestFields, Working
    <3> HIDE DEF u
    <3>4. ASSUME o \in Names PROVE i \in DOMAIN number[o] /\ ReadOK(u, number[o][i], calls[o])
      <4>1. i \in DOMAIN number[o] /\ number[o][i] \in NumberRow /\ StampsOK(number[o][i], calls[o])
        BY <3>4, RowOK DEF FindFirst, NumberInv, Stamps
      <4> QED BY <3>3, <4>1 DEF ReadOK, StampsOK, NumberRow
    <3> QED BY <3>2, <3>3, <3>4, <1>4
  <2> QED BY <2>1, <2>2
<1>6. CASE VerifyProfile(r)
  <2>1. CASE Reply(r, "invalid") \/ Reply(r, "ok")
    BY <2>1, <1>3
  <2>2. CASE ~(Reply(r, "invalid") \/ Reply(r, "ok"))
    <3> DEFINE u == IF q.asked = None THEN [q EXCEPT !.at = "write", !.asked = calls[o]]
                                      ELSE [q EXCEPT !.at = "search"]
    <3>1. req' = [req EXCEPT ![r] = u] /\ Working(q) /\ q.at = "profile"
      BY <1>1, <1>6, <2>2 DEF VerifyProfile, Working, Serving
    <3>2. /\ RequestFields \subseteq DOMAIN u /\ Working(u) /\ u.kind = "verify" /\ u.org = o
          /\ u.row = q.row
          /\ q.asked = None => u.at = "write" /\ u.asked = calls[o]
          /\ q.asked # None => u.at = "search" /\ u.asked = q.asked
      BY <1>1 DEF RequestFields, Working
    <3> HIDE DEF u
    <3>3. ASSUME o \in Names PROVE q.row \in DOMAIN number[o] /\ ReadOK(q, number[o][q.row], calls[o])
      BY <1>1, <3>1, <3>3 DEF NumberInv, Found, Stamps
    <3>4. ASSUME o \in Names PROVE ReadOK(u, number[o][q.row], calls[o])
      <4>1. calls[o] \in Nat
        BY <3>4 DEF NumberInv, NumbersOK
      <4> QED BY <3>1, <3>2, <3>3, <3>4, <4>1, NoneAssumption DEF ReadOK
    <3> QED BY <3>1, <3>2, <3>3, <3>4, <1>4
  <2> QED BY <2>1, <2>2
<1>7. CASE VerifySearch(r)
  <2>1. CASE Reply(r, "ok")
    BY <2>1, <1>3
  <2>2. CASE ~Reply(r, "ok")
    <3> DEFINE u == [q EXCEPT !.at = "mark"]
    <3>1. req' = [req EXCEPT ![r] = u] /\ Working(q) /\ q.at = "search" /\ calls[o] > q.asked
      BY <1>1, <1>7, <2>2 DEF VerifySearch, Working, Serving
    <3>2. /\ RequestFields \subseteq DOMAIN u /\ Working(u) /\ u.kind = "verify" /\ u.org = o
          /\ u.row = q.row /\ u.at = "mark"
      BY <1>1 DEF RequestFields, Working
    <3> HIDE DEF u
    <3>3. ASSUME o \in Names PROVE q.row \in DOMAIN number[o] /\ ReadOK(u, number[o][q.row], calls[o])
      <4>1. q.row \in DOMAIN number[o] /\ ReadOK(q, number[o][q.row], calls[o])
        BY <1>1, <3>1, <3>3 DEF NumberInv, Found, Stamps
      <4>2. number[o][q.row].first \in Nat \cup {None} /\ calls[o] \in Nat
        BY <3>3, <4>1, RowOK DEF NumberInv, NumbersOK, NumberRow
      <4> QED BY <3>1, <3>2, <4>1, <4>2, NoneAssumption DEF ReadOK
    <3> QED BY <3>1, <3>2, <3>3, <1>4
  <2> QED BY <2>1, <2>2
<1> QED BY <1>5, <1>6, <1>7

(* A row of which only the stamps and the mark change.                     *)
LEMMA MarkedStep ==
  ASSUME NumberInv, NEW o \in Names, NEW i, NEW row, RowFits(o, i, row), i \in DOMAIN number[o],
         row.status = number[o][i].status, RequestsSame,
         UNCHANGED overlapped, NumberRest
  PROVE  Kept
<1>1. AsideKept
  BY DEF AsideKept, NumberRest
<1>2. ASSUME o \notin overlapped PROVE Alone(o)'
  <2>1. Alone(o)
    BY <1>2 DEF NumberInv
  <2>2. \A j \in DOMAIN number'[o] : j = 1
    BY <2>1 DEF RowFits, SetsRow, Alone
  <2>3. staff' = staff /\ hand' = hand
    BY DEF NumberRest
  <2>4. staff.row # 0 /\ staff.org = o =>
          /\ staff.row \in DOMAIN number[o]
          /\ staff.row = i => row.status \in {"AWAITING_APPROVAL", "PURCHASED"}
    BY <2>1 DEF NumberInv, Found, Alone
  <2> QED BY <2>1, <2>2, <2>3, <2>4, AloneKept DEF RowFits
<1>3. Purchased(o, i, row)
  BY DEF Purchased
<1> QED BY <1>1, <1>2, <1>3, RowStep

LEMMA VerifyStampStep ==
  ASSUME NumberInv, NEW r \in Slots, VerifyStamp(r), UNCHANGED overlapped, NumberRest
  PROVE  Kept
<1>1. RequestsSame /\ Working(req[r]) /\ req[r].kind = "verify"
  BY ReplySame DEF NumberInv, VerifyStamp, Serving, Working
<1>2. CASE req[r].org \notin Names
  <2>1. number' = number
    BY <1>2 DEF VerifyStamp, NumberInv, NumbersOK
  <2> QED BY <1>1, <2>1, Frame DEF NumberRest
<1>3. ASSUME NEW o \in Names, NEW i, o = req[r].org, i = req[r].row PROVE Kept
  <2> DEFINE n == req[r].asked
             row == Stamped(number[o][i], n)
  <2>1. i \in DOMAIN number[o]
    BY <1>1, <1>3 DEF NumberInv, Found
  <2>2. /\ number[o][i] \in NumberRow /\ StampsOK(number[o][i], calls[o]) /\ calls[o] \in Nat
    BY <2>1, RowOK DEF NumberInv, NumbersOK, Stamps
  <2>3. n \in Nat /\ n <= calls[o]
    <3>1. ReadOK(req[r], number[o][i], calls[o]) /\ req[r].at = "write"
      BY <1>1, <1>3 DEF NumberInv, Stamps, VerifyStamp, Serving
    <3> QED BY <3>1 DEF ReadOK
  <2>4. number' = [number EXCEPT ![o] = [@ EXCEPT ![i] = row]]
    BY <1>3 DEF VerifyStamp
  <2> HIDE DEF n
  <2>5. /\ Earliest(number[o][i].first, n) \in Nat /\ Earliest(number[o][i].first, n) <= n
        /\ number[o][i].first # None => Earliest(number[o][i].first, n) <= number[o][i].first
    BY <2>2, <2>3, NoneAssumption DEF Earliest, NumberRow
  <2>6. /\ row \in NumberRow /\ row.status = number[o][i].status
        /\ row.asked = n /\ row.verified = number[o][i].verified
        /\ row.first = Earliest(number[o][i].first, n)
    BY <2>2, <2>3, <2>5 DEF Stamped, NumberRow
  <2> HIDE DEF row
  <2>7. SetsRow(o, i, row)
    BY <2>1, <2>4, <2>6, RowUpdated DEF NumberInv
  <2>8. StampsOK(row, calls[o]) /\ StampStays(number[o][i], row)
    <3>1. number[o][i].first \in Nat \cup {None}
      BY <2>2 DEF NumberRow
    <3> QED BY <2>2, <2>3, <2>5, <2>6, <3>1, NoneAssumption DEF StampsOK, StampStays
  <2>9. RowFits(o, i, row)
    BY <2>6, <2>7, <2>8 DEF RowFits
  <2> QED BY <1>1, <2>1, <2>6, <2>9, MarkedStep
<1> QED BY <1>2, <1>3

LEMMA VerifyMarkStep ==
  ASSUME NumberInv, NEW r \in Slots, VerifyMark(r), UNCHANGED overlapped, NumberRest
  PROVE  Kept
<1>1. /\ RequestsSame /\ Working(req[r]) /\ req[r].kind = "verify" /\ req[r].at = "mark"
  BY ReplySame DEF NumberInv, VerifyMark, Serving, Working
<1>2. CASE req[r].org \notin Names
  <2>1. number' = number
    BY <1>2 DEF VerifyMark, NumberInv, NumbersOK
  <2> QED BY <1>1, <2>1, Frame DEF NumberRest
<1>3. ASSUME NEW o \in Names, NEW i, o = req[r].org, i = req[r].row PROVE Kept
  <2> DEFINE row == [number[o][i] EXCEPT !.verified = TRUE]
  <2>1. i \in DOMAIN number[o]
    BY <1>1, <1>3 DEF NumberInv, Found
  <2>2. /\ number[o][i] \in NumberRow /\ StampsOK(number[o][i], calls[o])
    BY <2>1, RowOK DEF NumberInv, Stamps
  <2>3. number[o][i].first # None /\ number[o][i].first < calls[o]
    BY <1>1, <1>3 DEF NumberInv, Stamps, ReadOK
  <2>4. /\ row \in NumberRow /\ row.status = number[o][i].status
        /\ row.asked = number[o][i].asked /\ row.first = number[o][i].first
    BY <2>2 DEF NumberRow
  <2>5. number' = [number EXCEPT ![o] = [@ EXCEPT ![i] = row]]
    BY <1>3 DEF VerifyMark
  <2> HIDE DEF row
  <2>6. SetsRow(o, i, row)
    BY <2>1, <2>4, <2>5, RowUpdated DEF NumberInv
  <2>7. StampsOK(row, calls[o]) /\ StampStays(number[o][i], row)
    <3>1. number[o][i].first \in Nat \cup {None}
      BY <2>2 DEF NumberRow
    <3> QED BY <2>2, <2>3, <2>4, <3>1, NoneAssumption DEF StampsOK, StampStays
  <2>8. RowFits(o, i, row)
    BY <2>2, <2>4, <2>6, <2>7 DEF RowFits
  <2> QED BY <1>1, <2>1, <2>4, <2>8, MarkedStep
<1> QED BY <1>2, <1>3

-----------------------------------------------------------------------------
(* Every step.                                                             *)

LEMMA SetupFindStep ==
  ASSUME NumberInv, SetupFind, UNCHANGED <<req, calls, staff>>
  PROVE  Kept
<1>1. PICK i \in FindFirst(Demo) \cup {0} : (i = 0 => FindFirst(Demo) = {}) /\ hand' = i
  BY DEF SetupFind
<1>2. /\ UNCHANGED <<req, number, calls, staff>> /\ hand' = i
      /\ overlapped' = IF Provisioning(Demo) # {} THEN overlapped \cup {Demo} ELSE overlapped
  BY <1>1 DEF SetupFind
<1>3. i \in {0} \cup DOMAIN number[Demo] /\ i # None /\ (i = 0 => DOMAIN number[Demo] = {})
  BY <1>1, RowOK, DemoAssumption, NoneAssumption DEF NumberInv, FindFirst
<1>4. RequestsOK' /\ NumbersOK' /\ Stamps'
  BY <1>2 DEF NumberInv, RequestsOK, NumbersOK, Stamps
<1>5. Found'
  BY <1>2, <1>3 DEF NumberInv, Found
<1>6. ASSUME NEW o \in Names \ overlapped' PROVE Alone(o)'
  <2>1. Alone(o)
    BY <1>2, <1>6 DEF NumberInv
  <2>2. o = Demo => \A r \in Slots : ~Writes(req[r], o)
    BY <1>2, <1>6 DEF Provisioning, Serving, Writes, Working
  <2>3. \A r \in Slots : Writes(req[r], o) => o # Demo
    BY <2>2
  <2>4. o = Demo /\ hand' = 0 => DOMAIN number[o] = {}
    BY <1>2, <1>3
  <2> QED BY <1>2, <2>1, <2>3, <2>4 DEF Alone
<1>7. PurchasedKept
  BY <1>2 DEF PurchasedKept
<1> QED BY <1>4, <1>5, <1>6, <1>7 DEF NumberInv, Kept

LEMMA ScriptStep ==
  ASSUME NumberInv, ScriptRuns
  PROVE  Kept
<1>1. UNCHANGED <<req, calls, staff>>
  BY DEF ScriptRuns
<1>2. RequestsSame
  BY <1>1, UnchangedSame DEF NumberInv
<1>3. CASE UNCHANGED <<number, overlapped, hand>> /\ (setup' = "write" => setup = "write")
  BY <1>1, <1>2, <1>3, Frame
<1>4. CASE Setup
  <2>1. CASE SetupPlan
    BY <1>3, <2>1 DEF SetupPlan
  <2> QED BY <1>1, <1>4, <2>1, SetupFindStep, SetupWriteStep DEF Setup
<1>5. CASE StartScript /\ UNCHANGED <<number, overlapped>>
  BY <1>3, <1>5 DEF StartScript
<1>6. CASE ScriptDies /\ UNCHANGED <<number, overlapped>>
  <2>1. hand' \in {hand, None} /\ (setup' = "write" => setup = "write" /\ hand' = hand)
    BY <1>6 DEF ScriptDies
  <2> QED BY <1>1, <1>2, <1>6, <2>1, Frame
<1> QED BY <1>3, <1>4, <1>5, <1>6 DEF ScriptRuns

LEMMA ApiStep ==
  ASSUME NumberInv, ApiServes
  PROVE  Kept
<1>1. PICK r \in Slots : ServeRest(r)
  BY DEF ApiServes
<1>2. NumberRest /\ UNCHANGED <<calls, staff, hand, setup>>
  BY DEF ApiServes, NumberRest, scripts
<1>3. CASE RequestsSame /\ UNCHANGED <<number, overlapped>>
  BY <1>2, <1>3, Frame
<1>4. CASE (ServeProfile(r) \/ SaveDayFails(r) \/ CallFails(r)) /\ UNCHANGED <<number, overlapped>>
  BY <1>3, <1>4, ProfileSame, FailSame DEF NumberInv
<1>5. CASE ProvisionFind(r) \/ ProvisionWrite(r)
  BY <1>2, <1>5, ProvisionFindStep, ProvisionWriteStep
<1>6. CASE (Me(r) \/ SetPlan(r) \/ StatusRead(r)) /\ UNCHANGED <<number, overlapped>>
  BY <1>3, <1>6, OrganizationSame DEF NumberInv
<1>7. CASE ServeVerify(r) /\ UNCHANGED overlapped
  BY <1>2, <1>7, VerifyReadStep, VerifyStampStep, VerifyMarkStep DEF ServeVerify
<1>8. Me(r) => UNCHANGED <<number, overlapped>>
  BY DEF Me
<1> QED BY <1>1, <1>4, <1>5, <1>6, <1>7, <1>8 DEF ServeRest

LEMMA NumberStep ==
  ASSUME NumberInv, [Next]_vars
  PROVE  Kept
<1>1. CASE UserMoves
  <2>1. UNCHANGED <<number, calls, staff, overlapped, hand, setup>>
    BY <1>1 DEF UserMoves, scripts
  <2> QED BY <1>1, <2>1, UserSame, Frame DEF NumberInv
<1>2. CASE ApiServes
  BY <1>2, ApiStep
<1>3. CASE Fulfilment
  <2>1. UNCHANGED <<req, overlapped, hand, setup>>
    BY <1>3 DEF Fulfilment, scripts
  <2>2. \/ StaffPurchase /\ UNCHANGED calls
        \/ StaffMark /\ UNCHANGED calls
        \/ Calls /\ UNCHANGED <<number, staff>>
    BY <1>3 DEF Fulfilment, Staff
  <2> QED BY <2>1, <2>2, PurchaseStep, StaffMarkStep, CallStep
<1>4. CASE ScriptRuns
  BY <1>4, ScriptStep
<1>5. CASE UNCHANGED vars
  <2>1. UNCHANGED <<req, number, calls, staff, overlapped, hand, setup>>
    BY <1>5 DEF vars, stored, scripts
  <2> QED BY <2>1, UnchangedSame, Frame DEF NumberInv
<1> QED BY <1>1, <1>2, <1>3, <1>4, <1>5 DEF Next

LEMMA NumberInit == Init => NumberInv
<1> SUFFICES ASSUME Init PROVE NumberInv
  OBVIOUS
<1>1. /\ req = [r \in Slots |-> Free] /\ calls = [o \in Names |-> 0]
      /\ staff = StaffIdle /\ hand = None /\ overlapped = {} /\ setup = "idle"
  BY DEF Init
<1>2. \A r \in Slots : RequestFields \subseteq DOMAIN req[r] /\ ~Working(req[r])
  BY <1>1, FreeOK
<1>3. \A status \in Status :
        /\ <<NewRow(status)>> \in Seq(NumberRow) /\ DOMAIN <<NewRow(status)>> = {1}
        /\ <<NewRow(status)>>[1] = NewRow(status)
  BY NewRowOK
<1>4. \E rows \in {<<>>} \cup {<<NewRow(status)>> : status \in Status} :
        number = [o \in Names |-> IF o = Demo THEN rows ELSE <<>>]
  BY DEF Init, Starting, Nobody, Somebody, Status
<1>5. PICK rows \in {<<>>} \cup {<<NewRow(status)>> : status \in Status} :
        number = [o \in Names |-> IF o = Demo THEN rows ELSE <<>>]
  BY <1>4
<1>6. \A o \in Names : \/ number[o] = <<>>
                       \/ \E status \in Status : number[o] = <<NewRow(status)>>
  BY <1>5
<1>7. \A o \in Names : number[o] \in Seq(NumberRow) /\ \A i \in DOMAIN number[o] :
        i = 1 /\ \E status \in Status : number[o][i] = NewRow(status)
  <2> SUFFICES ASSUME NEW o \in Names
               PROVE  number[o] \in Seq(NumberRow) /\ \A i \in DOMAIN number[o] :
                        i = 1 /\ \E status \in Status : number[o][i] = NewRow(status)
    OBVIOUS
  <2>1. CASE number[o] = <<>>
    BY <2>1
  <2>2. ASSUME NEW status \in Status, number[o] = <<NewRow(status)>>
        PROVE  number[o] \in Seq(NumberRow) /\ \A i \in DOMAIN number[o] :
                 i = 1 /\ number[o][i] = NewRow(status)
    <3>1. DOMAIN number[o] = {1} /\ number[o][1] = NewRow(status) /\ number[o] \in Seq(NumberRow)
      BY <1>3, <2>2
    <3> QED BY <3>1
  <2> QED BY <1>6, <2>1, <2>2
<1>8. \A status \in Status : StampsOK(NewRow(status), 0)
  BY DEF StampsOK, NewRow
<1>9. StaffIdle \in [org : Org, row : Nat] /\ StaffIdle.row = 0
  BY DEF StaffIdle, Org
<1>10. RequestsOK
  BY <1>1, <1>2 DEF RequestsOK
<1>11. NumbersOK
  BY <1>1, <1>5, <1>7, <1>9 DEF NumbersOK
<1>12. Found
  BY <1>1, <1>2, <1>9 DEF Found
<1>13. Stamps
  BY <1>1, <1>2, <1>7, <1>8 DEF Stamps
<1>15. \A o \in Names : Alone(o)
  BY <1>1, <1>2, <1>7, <1>9, NoneAssumption DEF Alone, Writes
<1> QED BY <1>10, <1>11, <1>12, <1>13, <1>15 DEF NumberInv

LEMMA NumberAlways == Spec => []NumberInv /\ [][PurchasedKept]_vars
<1>1. NumberInv /\ [Next]_vars => NumberInv' /\ PurchasedKept
  BY NumberStep DEF Kept
<1> QED BY NumberInit, <1>1, PTL DEF Spec

-----------------------------------------------------------------------------
(* Two rows come only of two writers that overlapped: without that, the    *)
(* one that found no row writes before anyone else looks.  (provision and  *)
(* the script, unguarded against each other and themselves.)               *)
THEOREM OneNumber == Spec => []TwoRowsOnlyOverlapping
<1>1. NumberInv => TwoRowsOnlyOverlapping
  <2> SUFFICES ASSUME NumberInv, NEW o \in Names \ overlapped PROVE Len(number[o]) <= 1
    BY DEF TwoRowsOnlyOverlapping
  <2>1. number[o] \in Seq(NumberRow) /\ \A i \in DOMAIN number[o] : i = 1
    BY DEF NumberInv, NumbersOK, Alone
  <2>2. Len(number[o]) \in Nat /\ DOMAIN number[o] = 1 .. Len(number[o])
    BY <2>1
  <2>3. ~(2 \in 1 .. Len(number[o]))
    BY <2>1, <2>2
  <2> QED BY <2>2, <2>3
<1> QED BY <1>1, NumberAlways, PTL

(* What staff have fulfilled is not undone by an owner's retry, by a late  *)
(* failure or by the script, unless two writers overlapped.                *)
THEOREM PurchasesKept == Spec => PurchasesStay
BY NumberAlways, PTL DEF PurchasesStay

(* A number is verified only with a call from after the first request to   *)
(* check it, although verify uses what it read before its other awaits.    *)
THEOREM VerifiedCorrect == Spec => []VerifiedByACall
<1>1. NumberInv => VerifiedByACall
  <2> SUFFICES ASSUME NumberInv, NEW o \in Names, NEW i \in DOMAIN number[o], number[o][i].verified
               PROVE  number[o][i].first # None /\ calls[o] > number[o][i].first
    BY DEF VerifiedByACall
  <2>1. number[o][i] \in NumberRow /\ StampsOK(number[o][i], calls[o]) /\ calls[o] \in Nat
    BY RowOK DEF NumberInv, NumbersOK, Stamps
  <2> QED BY <2>1 DEF StampsOK, NumberRow
<1> QED BY <1>1, NumberAlways, PTL
=============================================================================
