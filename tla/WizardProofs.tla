---------------------------- MODULE WizardProofs ----------------------------
(***************************************************************************)
(* The onboarding as a whole, for any number of tabs, requests, moves,     *)
(* failures and runs of the scripts: the types of its variables, what the  *)
(* wizard's later steps and the dashboard find stored, and the test        *)
(* account that the scripts complete.                                      *)
(***************************************************************************)
EXTENDS TabProofs

-----------------------------------------------------------------------------
(* What is stored, and only grows.                                         *)

HasProfile(o) == profile[o].name # None
HasNumber(o) == o \in overlapped \/ \E i \in DOMAIN number[o] : number[o][i].status = "PURCHASED"

StoredOK ==
  /\ profile \in [Names -> ProfileRow]
  /\ whole \in [Names -> {Mixed} \cup [details : Org, numbers : Org, hours : [Days -> Org]]]
  /\ plan \in [Names -> Plans \cup {None}] /\ chosen \in [Names -> SUBSET Plans]
  /\ \A o \in Names : plan[o] # None => plan[o] \in chosen[o]

(* Of a step: what is stored stays, though it may be replaced.             *)
Grows ==
  \A o \in Names :
    /\ HasProfile(o) => HasProfile(o)'
    /\ \A d \in Days : profile[o].hours[d] # None => profile'[o].hours[d] # None
    /\ plan[o] # None => plan'[o] # None
    /\ chosen[o] \subseteq chosen'[o]
    /\ HasNumber(o) => HasNumber(o)'

-----------------------------------------------------------------------------
(* Requests.                                                               *)

RequestOK(q) ==
  /\ q \in Request
  /\ q.kind # "free" /\ q.answer \in {"none", "ok"} => q.org \in Names
  /\ q.kind = "save" => q.arg \in Org /\ q.todo \subseteq HourDays(q.hours)
  /\ q.kind = "plan" /\ q.answer \in {"none", "ok"} => q.arg \in Plans
  /\ q.kind = "status" => q.arg \in Plans \cup {None}
  /\ q.kind \in {"me", "provision"} => q.arg \in Status \cup {None}

(* What a request has read or written is stored.                           *)
Knows(q) ==
  /\ q.kind = "status" /\ q.answer \in {"none", "ok"} =>
       /\ "profile" \in q.seen => HasProfile(q.org)
       /\ "plan" \in q.seen => plan[q.org] # None /\ q.arg \in chosen[q.org]
       /\ "number" \in q.seen => HasNumber(q.org)
  /\ q.kind = "save" /\ (q.answer = "ok" \/ (q.answer = "none" /\ q.at \in {"days", "numbers", "read"})) =>
       HasProfile(q.org)
  /\ q.kind = "plan" /\ q.answer = "ok" => q.arg \in chosen[q.org]

RequestsFit ==
  /\ req \in [Slots -> Request]
  /\ \A r \in Slots : RequestOK(req[r]) /\ Knows(req[r])

LEMMA FreeFits == RequestOK(Free) /\ Knows(Free) /\ Free.from = None
BY DEF Free, RequestOK, Knows, Request, Org, NoHours

LEMMA AskFits ==
  ASSUME NEW kind \in {"save", "plan", "status", "me", "provision", "verify"},
         NEW at \in {"find", "write", "read", "end"}
  PROVE  /\ Ask(kind, at) \in Request /\ Ask(kind, at).kind = kind /\ Ask(kind, at).at = at
         /\ Ask(kind, at).arg = None /\ Ask(kind, at).seen = {} /\ Ask(kind, at).answer = "none"
         /\ Ask(kind, at).todo = {}
BY DEF Ask, Free, Request, Org, NoHours

(* Knows is of what stays.                                                 *)
LEMMA KnowsStill ==
  ASSUME Grows, NEW q, RequestOK(q), Knows(q)
  PROVE  Knows(q)'
BY DEF Grows, RequestOK, Knows, Request

(* A request that only lost its tab, or is over.                           *)
LEMMA FromNobody ==
  ASSUME NEW q, RequestOK(q), Knows(q)
  PROVE  LET u == [q EXCEPT !.from = None]
         IN RequestOK(Settled(u)) /\ Knows(Settled(u)) /\ Settled(u).from = None
<1> DEFINE u == [q EXCEPT !.from = None]
<1>1. RequestOK(u) /\ Knows(u) /\ u.from = None
  BY DEF RequestOK, Knows, Request
<1> HIDE DEF u
<1>2. RequestOK(Settled(u)) /\ Knows(Settled(u)) /\ Settled(u).from = None
  BY <1>1, FreeFits DEF Settled
<1> QED BY <1>2 DEF u

-----------------------------------------------------------------------------
(* What a tab that waits listens to.                                       *)

KindOf ==
  [status |-> "status", enter |-> "status", save |-> "save", plan |-> "plan", load |-> "me",
   provision |-> "provision", verify |-> "verify"]
ListensTo(v, q, active) ==
  v.busy \in Waits =>
    /\ q.kind = KindOf[v.busy]
    /\ v.busy = "plan" /\ q.answer \in {"none", "ok"} => q.arg = v.form
    /\ ~v.moved => q.org = active

Listens == \A t \in Tabs, r \in Slots : req[r].from = t => ListensTo(tab[t], req[r], session.active)

(* The request q becomes u.                                                *)
Becoming(q, u) ==
  /\ RequestOK(u) /\ Knows(u)'
  /\ u.from = q.from /\ u.kind = q.kind /\ u.org = q.org
  /\ q.kind = "plan" => u.arg = q.arg
  /\ u.answer \in {"none", "ok"} => q.answer \in {"none", "ok"}

LEMMA Served ==
  ASSUME RequestsFit, Grows, Listens, UNCHANGED <<tab, session>>, NEW r \in Slots,
         NEW u, Becoming(req[r], u),
         req' = [req EXCEPT ![r] = u] \/ req' = [req EXCEPT ![r] = Settled(u)]
  PROVE  RequestsFit' /\ Listens'
<1>1. PICK w \in {u, Settled(u)} : req' = [req EXCEPT ![r] = w]
  OBVIOUS
<1>2. DOMAIN req' = Slots /\ req'[r] = w /\ (\A x \in Slots \ {r} : req'[x] = req[x])
  BY <1>1 DEF RequestsFit
<1>3. Knows(Free)' /\ RequestOK(Free) /\ Free.from = None
  BY FreeFits, KnowsStill
<1>4. RequestOK(w) /\ Knows(w)' /\ (w = u \/ w.from = None)
  BY <1>1, <1>3 DEF Becoming, Settled
<1>5. \A q : RequestOK(q) /\ Knows(q) => Knows(q)'
  BY KnowsStill
<1>6. ASSUME NEW x \in Slots PROVE RequestOK(req'[x]) /\ Knows(req[x])'
  <2>1. CASE x = r
    BY <1>2, <1>4, <2>1
  <2>2. CASE x # r
    BY <1>2, <1>5, <2>2 DEF RequestsFit
  <2> QED BY <2>1, <2>2
<1>7. req' \in [Slots -> Request]
  BY <1>1, <1>4 DEF RequestsFit, RequestOK
<1>8. ASSUME NEW t \in Tabs, NEW x \in Slots, req'[x].from = t
      PROVE  ListensTo(tab'[t], req'[x], session'.active)
  <2>1. CASE x # r
    BY <1>2, <1>8, <2>1 DEF Listens
  <2>2. CASE x = r
    <3>1. w = u /\ req[r].from = t
      BY <1>2, <1>4, <1>8, <2>2, NoneAssumption DEF Becoming
    <3>2. ListensTo(tab[t], req[r], session.active)
      BY <3>1 DEF Listens
    <3>3. "plan" = KindOf["plan"] /\ tab'[t] = tab[t]
      BY DEF KindOf
    <3> QED BY <1>2, <2>2, <3>1, <3>2, <3>3 DEF ListensTo, Becoming
  <2> QED BY <2>1, <2>2
<1> QED BY <1>6, <1>7, <1>8 DEF RequestsFit, Listens

(* An answer other than a good one.                                        *)
LEMMA Refused ==
  ASSUME RequestsFit, Grows, Listens, UNCHANGED <<tab, session>>, NEW r \in Slots,
         req[r].answer = "none",
         NEW answer \in {"error", "invalid", "conflict", "missing"}, Reply(r, answer)
  PROVE  RequestsFit' /\ Listens'
<1>1. PICK u : u = [req[r] EXCEPT !.answer = answer, !.at = "end"]
  OBVIOUS
<1>2. RequestOK(req[r]) /\ Knows(req[r]) /\ req[r] \in Request
  BY DEF RequestsFit, RequestOK
<1>3. Becoming(req[r], u)
  BY <1>1, <1>2 DEF Becoming, RequestOK, Knows, Request
<1> QED BY <1>1, <1>3, Served DEF Reply, Answered

(* What a step of the API is taken in.                                     *)
Ready == RequestsFit /\ Grows /\ Listens /\ UNCHANGED <<tab, session>>

LEMMA SavesFit ==
  ASSUME Ready, SaveInv, StoredOK, NEW r \in Slots, ServeProfile(r) \/ SaveDayFails(r)
  PROVE  RequestsFit' /\ Listens'
<1>1. PICK q : q = req[r]
  OBVIOUS
<1>2. /\ RequestOK(q) /\ Knows(q) /\ q \in Request /\ DOMAIN req = Slots /\ q.kind = "save"
      /\ Running(q) => q.arg # None /\ (q.answer = "none" /\ q.at # "days" => q.todo = {})
  BY <1>1 DEF Ready, RequestsFit, RequestOK, SaveInv, SaveOK, ServeProfile, SaveFind, SaveWrite, SaveDay,
         SaveNumbers, SaveAnswers, SaveDayFails, Serving
<1>3. ASSUME NEW u, Becoming(q, u), req' = [req EXCEPT ![r] = u] \/ req' = [req EXCEPT ![r] = Settled(u)]
      PROVE  RequestsFit' /\ Listens'
  BY <1>1, <1>3, Served DEF Ready
<1>4. q.org \in Names /\ HasProfile(q.org) => HasProfile(q.org)'
  BY DEF Ready, Grows
<1>5. CASE SaveFind(r)
  <2>1. PICK u : u = [q EXCEPT !.at = "write", !.row = IF profile[q.org].name = None THEN 0 ELSE 1]
    OBVIOUS
  <2>2. req' = [req EXCEPT ![r] = u] /\ q.answer = "none"
    BY <1>1, <1>2, <1>5, <2>1 DEF SaveFind, Serving
  <2>3. Becoming(q, u)
    BY <1>2, <2>1, <2>2 DEF Becoming, RequestOK, Knows, Request
  <2> QED BY <1>3, <2>2, <2>3
<1>6. CASE SaveWrite(r)
  <2>1. q.answer = "none" /\ q.at = "write"
    BY <1>1, <1>6 DEF SaveWrite, Serving
  <2>2. CASE Reply(r, "error")
    BY <1>1, <2>1, <2>2, Refused DEF Ready
  <2>3. CASE ~Reply(r, "error")
    <3>1. PICK u : u = [q EXCEPT !.at = IF HourDays(q.hours) = {} THEN "numbers" ELSE "days",
                                 !.todo = HourDays(q.hours)]
      OBVIOUS
    <3>2. req' = [req EXCEPT ![r] = u] /\ profile' = [profile EXCEPT ![q.org].name = q.arg]
      BY <1>1, <1>2, <1>6, <2>3, <3>1 DEF SaveWrite
    <3>3. q.org \in Names /\ q.arg # None
      BY <1>2, <2>1 DEF RequestOK, Running
    <3>4. HasProfile(q.org)'
      BY <3>2, <3>3 DEF StoredOK, ProfileRow, HasProfile
    <3>5. HourDays(q.hours) \subseteq Days
      BY DEF HourDays
    <3>6. Becoming(q, u)
      BY <1>2, <2>1, <3>1, <3>4, <3>5 DEF Becoming, RequestOK, Knows, Request
    <3> QED BY <1>3, <3>2, <3>6
  <2> QED BY <2>2, <2>3
<1>7. CASE SaveDay(r)
  <2>1. PICK d \in q.todo :
          req' = [req EXCEPT ![r] =
                   Settled([@ EXCEPT !.todo = q.todo \ {d},
                                     !.at = IF q.at = "days" /\ q.todo = {d} THEN "numbers" ELSE q.at])]
    BY <1>1, <1>7 DEF SaveDay
  <2>2. PICK u : u = [q EXCEPT !.todo = q.todo \ {d},
                               !.at = IF q.at = "days" /\ q.todo = {d} THEN "numbers" ELSE q.at]
    OBVIOUS
  <2>3. req' = [req EXCEPT ![r] = Settled(u)]
    BY <1>1, <1>2, <2>1, <2>2
  <2>4. Running(q)
    BY <1>2, <2>1 DEF Running
  <2>5. Becoming(q, u)
    BY <1>2, <1>4, <2>2, <2>4, ZenonT(30) DEF Becoming, RequestOK, Knows, Request
  <2> QED BY <1>3, <2>3, <2>5
<1>8. CASE SaveDayFails(r)
  <2>1. PICK d \in q.todo :
          req' = [req EXCEPT ![r] = Settled([@ EXCEPT !.todo = q.todo \ {d}, !.at = "end", !.answer = "error"])]
    BY <1>1, <1>8 DEF SaveDayFails
  <2>2. PICK u : u = [q EXCEPT !.todo = q.todo \ {d}, !.at = "end", !.answer = "error"]
    OBVIOUS
  <2>3. req' = [req EXCEPT ![r] = Settled(u)]
    BY <1>1, <1>2, <2>1, <2>2
  <2>4. Becoming(q, u)
    BY <1>2, <2>2 DEF Becoming, RequestOK, Knows, Request
  <2> QED BY <1>3, <2>3, <2>4
<1>9. CASE SaveNumbers(r)
  <2>1. PICK u : u = [q EXCEPT !.at = "read"]
    OBVIOUS
  <2>2. req' = [req EXCEPT ![r] = u] /\ q.answer = "none" /\ q.at = "numbers"
    BY <1>1, <1>2, <1>9, <2>1 DEF SaveNumbers, Serving
  <2>3. Becoming(q, u)
    BY <1>2, <1>4, <2>1, <2>2 DEF Becoming, RequestOK, Knows, Request
  <2> QED BY <1>3, <2>2, <2>3
<1>10. CASE SaveAnswers(r)
  <2>1. PICK u : u = [q EXCEPT !.answer = "ok", !.at = "end"]
    OBVIOUS
  <2>2. req' = [req EXCEPT ![r] = Settled(u)] /\ q.answer = "none" /\ q.at = "read"
    BY <1>1, <1>10, <2>1 DEF SaveAnswers, Serving, Reply, Answered
  <2>3. Becoming(q, u)
    BY <1>2, <1>4, <2>1, <2>2 DEF Becoming, RequestOK, Knows, Request
  <2> QED BY <1>3, <2>2, <2>3
<1> QED BY <1>5, <1>6, <1>7, <1>8, <1>9, <1>10 DEF ServeProfile

LEMMA NumbersFit ==
  ASSUME Ready, NumberInv, NEW r \in Slots, ProvisionFind(r) \/ ProvisionWrite(r) \/ Me(r) \/ ServeVerify(r)
  PROVE  RequestsFit' /\ Listens'
<1>1. PICK q : q = req[r]
  OBVIOUS
<1>2. /\ RequestOK(q) /\ Knows(q) /\ q \in Request /\ DOMAIN req = Slots
      /\ q.kind \in {"provision", "me", "verify"} /\ q.answer = "none" /\ q.org \in Names
  BY <1>1 DEF Ready, RequestsFit, RequestOK, ProvisionFind, ProvisionWrite, Me, ServeVerify, VerifyFind,
         VerifyProfile, VerifyStamp, VerifySearch, VerifyMark, Serving
<1>3. ASSUME NEW u, Becoming(q, u), req' = [req EXCEPT ![r] = u] \/ req' = [req EXCEPT ![r] = Settled(u)]
      PROVE  RequestsFit' /\ Listens'
  BY <1>1, <1>3, Served DEF Ready
<1>4. ASSUME NEW answer \in {"ok", "invalid", "conflict", "missing"}, Reply(r, answer),
             answer = "ok" => q.kind = "verify"
      PROVE  RequestsFit' /\ Listens'
  <2>1. PICK u : u = [q EXCEPT !.answer = answer, !.at = "end"]
    OBVIOUS
  <2>2. Becoming(q, u)
    BY <1>2, <1>4, <2>1 DEF Becoming, RequestOK, Knows, Request
  <2> QED BY <1>1, <1>3, <1>4, <2>1, <2>2 DEF Reply, Answered
<1>5. \A i \in FindFirst(q.org) : number[q.org][i] \in NumberRow /\ i \in Nat
  BY <1>2, RowOK DEF FindFirst, NumberInv
<1>6. CASE ProvisionFind(r)
  <2>1. PICK i \in FindFirst(q.org) \cup {0} :
          Reply(r, "conflict") \/ req' = [req EXCEPT ![r].at = "write", ![r].row = i]
    BY <1>1, <1>6 DEF ProvisionFind
  <2>2. PICK u : u = [q EXCEPT !.at = "write", !.row = i]
    OBVIOUS
  <2>3. Reply(r, "conflict") \/ req' = [req EXCEPT ![r] = u]
    BY <1>1, <1>2, <2>1, <2>2
  <2>4. i \in Nat /\ q.kind = "provision"
    BY <1>1, <1>5, <1>6 DEF ProvisionFind, Serving
  <2>5. Becoming(q, u)
    BY <1>2, <2>2, <2>4 DEF Becoming, RequestOK, Knows, Request
  <2> QED BY <1>3, <1>4, <2>3, <2>5
<1>7. CASE ProvisionWrite(r)
  <2>1. PICK u : u = [q EXCEPT !.answer = "ok", !.at = "end", !.arg = "AWAITING_APPROVAL"]
    OBVIOUS
  <2>2. req' = [req EXCEPT ![r] = Settled(u)] /\ q.kind = "provision"
    BY <1>1, <1>2, <1>7, <2>1 DEF ProvisionWrite, Requested, Serving
  <2>3. Becoming(q, u)
    BY <1>2, <2>1, <2>2 DEF Becoming, RequestOK, Knows, Request, Status
  <2> QED BY <1>3, <2>2, <2>3
<1>8. CASE Me(r) /\ ~Reply(r, "missing")
  <2>1. PICK i \in FindFirst(q.org) :
          req' = [req EXCEPT ![r] = Settled([@ EXCEPT !.answer = "ok", !.at = "end", !.arg = Shown(number[q.org][i])])]
    BY <1>1, <1>8 DEF Me
  <2>2. PICK u : u = [q EXCEPT !.answer = "ok", !.at = "end", !.arg = Shown(number[q.org][i])]
    OBVIOUS
  <2>3. req' = [req EXCEPT ![r] = Settled(u)] /\ q.kind = "me"
    BY <1>1, <1>2, <1>8, <2>1, <2>2 DEF Me, Serving
  <2>4. Shown(number[q.org][i]) \in Status
    BY <1>5 DEF Shown, NumberRow
  <2>5. Becoming(q, u)
    BY <1>2, <2>2, <2>3, <2>4 DEF Becoming, RequestOK, Knows, Request
  <2> QED BY <1>3, <2>3, <2>5
<1>9. CASE VerifyFind(r) /\ ~Reply(r, "missing")
  <2>1. PICK i \in FindFirst(q.org) :
          req' = [req EXCEPT ![r].at = "profile", ![r].row = i, ![r].asked = number[q.org][i].asked,
                             ![r].seen = IF number[q.org][i].verified THEN {"number"} ELSE {}]
    BY <1>1, <1>9 DEF VerifyFind
  <2>2. PICK u : u = [q EXCEPT !.at = "profile", !.row = i, !.asked = number[q.org][i].asked,
                               !.seen = IF number[q.org][i].verified THEN {"number"} ELSE {}]
    OBVIOUS
  <2>3. req' = [req EXCEPT ![r] = u] /\ q.kind = "verify"
    BY <1>1, <1>2, <1>9, <2>1, <2>2 DEF VerifyFind, Serving
  <2>4. number[q.org][i].asked \in Nat \cup {None} /\ i \in Nat
    BY <1>5 DEF NumberRow
  <2>5. Becoming(q, u)
    BY <1>2, <2>2, <2>3, <2>4, ZenonT(30) DEF Becoming, RequestOK, Knows, Request
  <2> QED BY <1>3, <2>3, <2>5
<1>10. CASE /\ VerifyProfile(r) \/ VerifySearch(r)
            /\ ~Reply(r, "invalid") /\ ~Reply(r, "ok")
  <2>1. PICK at \in {"write", "search", "mark"} : req' = [req EXCEPT ![r].at = at]
    BY <1>10 DEF VerifyProfile, VerifySearch
  <2>2. PICK u : u = [q EXCEPT !.at = at]
    OBVIOUS
  <2>3. req' = [req EXCEPT ![r] = u] /\ q.kind = "verify"
    BY <1>1, <1>2, <1>10, <2>1, <2>2 DEF VerifyProfile, VerifySearch, Serving
  <2>4. Becoming(q, u)
    BY <1>2, <2>1, <2>2, <2>3 DEF Becoming, RequestOK, Knows, Request
  <2> QED BY <1>3, <2>3, <2>4
<1>11. VerifyStamp(r) \/ VerifyMark(r) => Reply(r, "ok")
  BY DEF VerifyStamp, VerifyMark
<1>12. ServeVerify(r) => q.kind = "verify"
  BY <1>1 DEF ServeVerify, VerifyFind, VerifyProfile, VerifyStamp, VerifySearch, VerifyMark, Serving
<1> QED BY <1>4, <1>6, <1>7, <1>8, <1>9, <1>10, <1>11, <1>12 DEF ServeVerify

LEMMA OrganizationFits ==
  ASSUME Ready, StoredOK, StoredOK', NEW r \in Slots, SetPlan(r) \/ (StatusRead(r) /\ UNCHANGED <<number, profile, overlapped>>)
  PROVE  RequestsFit' /\ Listens'
<1>1. PICK q : q = req[r]
  OBVIOUS
<1>2. /\ RequestOK(q) /\ Knows(q) /\ q \in Request /\ DOMAIN req = Slots
      /\ q.kind \in {"plan", "status"} /\ q.answer = "none" /\ q.org \in Names
  BY <1>1 DEF Ready, RequestsFit, RequestOK, SetPlan, StatusRead, Serving
<1>3. ASSUME NEW u, Becoming(q, u), req' = [req EXCEPT ![r] = u] \/ req' = [req EXCEPT ![r] = Settled(u)]
      PROVE  RequestsFit' /\ Listens'
  BY <1>1, <1>3, Served DEF Ready
<1>4. CASE SetPlan(r)
  <2>1. PICK u : u = [q EXCEPT !.answer = "ok", !.at = "end"]
    OBVIOUS
  <2>2. /\ req' = [req EXCEPT ![r] = Settled(u)] /\ q.kind = "plan"
        /\ chosen' = [chosen EXCEPT ![q.org] = @ \cup {q.arg}]
    BY <1>1, <1>2, <1>4, <2>1 DEF SetPlan, Reply, Answered, Serving
  <2>3. q.arg \in chosen'[q.org]
    BY <1>2, <2>2 DEF StoredOK
  <2>4. Becoming(q, u)
    BY <1>2, <2>1, <2>2, <2>3 DEF Becoming, RequestOK, Knows, Request
  <2> QED BY <1>3, <2>2, <2>4
<1>5. CASE StatusRead(r) /\ UNCHANGED <<number, profile, overlapped>>
  <2> DEFINE u(seen, tier, part) ==
               [q EXCEPT !.seen = seen, !.arg = tier, !.todo = q.todo \ {part},
                         !.at = IF q.todo = {part} THEN "end" ELSE "read",
                         !.answer = IF q.todo = {part} THEN "ok" ELSE "none"]
             Step(seen, tier, part) == req' = [req EXCEPT ![r] = Settled(u(seen, tier, part))]
             With(part) == q.seen \cup {part}
             Sound(seen, tier) ==
               /\ seen \subseteq {"profile", "plan", "number"} /\ tier \in Plans \cup {None}
               /\ "profile" \in seen => HasProfile(q.org)
               /\ "plan" \in seen => plan[q.org] # None /\ tier \in chosen[q.org]
               /\ "number" \in seen => HasNumber(q.org)
  <2>1. q.kind = "status" /\ UNCHANGED <<plan, chosen>>
    BY <1>1, <1>5 DEF StatusRead, Serving
  <2>2. ASSUME NEW seen, NEW tier, NEW part, Step(seen, tier, part), Sound(seen, tier)
        PROVE  RequestsFit' /\ Listens'
    <3>1. PICK w : w = u(seen, tier, part)
      OBVIOUS
    <3>2. \E todo \in SUBSET q.todo : \E at \in {"end", "read"}, answer \in {"ok", "none"} :
            w = [q EXCEPT !.seen = seen, !.arg = tier, !.todo = todo, !.at = at, !.answer = answer]
      <4>1. CASE q.todo = {part}
        <5>1. q.todo \ {part} \in SUBSET q.todo
          OBVIOUS
        <5> QED BY <3>1, <4>1, <5>1
      <4>2. CASE q.todo # {part}
        <5>1. q.todo \ {part} \in SUBSET q.todo
          OBVIOUS
        <5> QED BY <3>1, <4>2, <5>1
      <4> QED BY <4>1, <4>2
    <3>3. /\ w \in Request /\ w.kind = "status" /\ w.org = q.org /\ w.from = q.from /\ w.arg = tier
          /\ w.seen = seen
      <4>1. PICK todo \in SUBSET q.todo : \E at \in {"end", "read"}, answer \in {"ok", "none"} :
              w = [q EXCEPT !.seen = seen, !.arg = tier, !.todo = todo, !.at = at, !.answer = answer]
        BY <3>2
      <4>2. PICK at \in {"end", "read"}, answer \in {"ok", "none"} :
              w = [q EXCEPT !.seen = seen, !.arg = tier, !.todo = todo, !.at = at, !.answer = answer]
        BY <4>1
      <4>3. tier \in Org \cup Plans \cup Status /\ seen \in SUBSET {"profile", "plan", "number"}
        BY <2>2 DEF Org
      <4> QED BY <1>2, <2>1, <4>2, <4>3 DEF Request
    <3>4. Knows(w)
      BY <2>2, <3>3 DEF Knows
    <3>5. RequestOK(w)
      BY <1>2, <2>2, <3>3 DEF RequestOK
    <3>6. Becoming(q, w)
      BY <1>2, <2>1, <3>3, <3>4, <3>5, KnowsStill DEF Becoming, Ready
    <3> QED BY <1>3, <2>2, <3>1, <3>6
  <2>3. Sound(q.seen, q.arg)
    BY <1>2, <2>1 DEF RequestOK, Knows, Request
  <2>4. plan[q.org] \in Plans \cup {None} /\ (plan[q.org] # None => plan[q.org] \in chosen[q.org])
    BY <1>2 DEF StoredOK
  <2>5. \/ Step(q.seen, q.arg, "profile")
        \/ Step(With("profile"), q.arg, "profile") /\ HasProfile(q.org)
        \/ Step(q.seen, plan[q.org], "plan") /\ plan[q.org] = None
        \/ Step(With("plan"), plan[q.org], "plan") /\ plan[q.org] # None
        \/ Step(q.seen, q.arg, "number")
        \/ Step(With("number"), q.arg, "number") /\ HasNumber(q.org)
    BY <1>1, <1>2, <1>5 DEF StatusRead, HasProfile, HasNumber, FindFirst
  <2>6. HasProfile(q.org) => Sound(With("profile"), q.arg)
    BY <2>3
  <2>7. HasNumber(q.org) => Sound(With("number"), q.arg)
    BY <2>3
  <2>8. plan[q.org] # None => Sound(With("plan"), plan[q.org])
    BY <2>3, <2>4
  <2>9. plan[q.org] = None => Sound(q.seen, plan[q.org])
    BY <2>3, <2>4
  <2> HIDE DEF Step, Sound, With
  <2> QED BY <2>2, <2>3, <2>5, <2>6, <2>7, <2>8, <2>9
<1> QED BY <1>4, <1>5

LEMMA FailuresFit ==
  ASSUME Ready, NEW r \in Slots, CallFails(r)
  PROVE  RequestsFit' /\ Listens'
<1>1. PICK q : q = req[r]
  OBVIOUS
<1>2. RequestOK(q) /\ Knows(q) /\ q \in Request /\ DOMAIN req = Slots
  BY <1>1 DEF Ready, RequestsFit, RequestOK
<1>3. PICK u : u = [q EXCEPT !.answer = "error", !.at = "end", !.todo = {}]
  OBVIOUS
<1>4. req' = [req EXCEPT ![r] = Settled(u)]
  BY <1>1, <1>2, <1>3 DEF CallFails
<1>5. Becoming(q, u)
  BY <1>2, <1>3 DEF Becoming, RequestOK, Knows, Request
<1> QED BY <1>1, <1>4, <1>5, Served DEF Ready

-----------------------------------------------------------------------------
(* What is stored grows.                                                   *)

(* No row is taken away.                                                   *)
RowsGrow == \A o \in Names : DOMAIN number[o] \subseteq DOMAIN number'[o]


LEMMA RowsSet ==
  ASSUME NumbersOK, NEW o, NEW rows, number' = [number EXCEPT ![o] = rows],
         o \in Names => DOMAIN number[o] \subseteq DOMAIN rows
  PROVE  RowsGrow
BY DEF NumbersOK, RowsGrow

LEMMA RowAdded ==
  ASSUME NumbersOK, NEW o, NEW row, number' = [number EXCEPT ![o] = Append(@, row)]
  PROVE  RowsGrow
<1>1. o \in Names => DOMAIN number[o] \subseteq DOMAIN Append(number[o], row)
  <2> SUFFICES ASSUME o \in Names PROVE DOMAIN number[o] \subseteq DOMAIN Append(number[o], row)
    OBVIOUS
  <2>1. number[o] \in Seq(NumberRow)
    BY DEF NumbersOK
  <2>2. DOMAIN number[o] = 1 .. Len(number[o]) /\ DOMAIN Append(number[o], row) = 1 .. Len(number[o]) + 1
    BY <2>1
  <2>3. Len(number[o]) \in Nat
    BY <2>1
  <2> QED BY <2>2, <2>3
<1> QED BY <1>1, RowsSet

LEMMA RowsKept ==
  ASSUME NumberInv, [Next]_vars
  PROVE  RowsGrow /\ overlapped \subseteq overlapped'
<1>1. NumbersOK
  BY DEF NumberInv
<1>2. UNCHANGED number => RowsGrow
  BY DEF RowsGrow
<1>3. ASSUME NEW r \in Slots, ServeRest(r) PROVE RowsGrow /\ overlapped \subseteq overlapped'
  <2>1. overlapped \subseteq overlapped'
    BY <1>3 DEF ServeRest, ProvisionFind, Overlap, ProvisionWrite, Me
  <2>2. CASE ProvisionWrite(r)
    <3>1. CASE req[r].row = 0
      BY <1>1, <2>2, <3>1, RowAdded DEF ProvisionWrite
    <3>2. CASE req[r].row # 0
      BY <1>1, <2>2, <3>2, RowsSet DEF ProvisionWrite
    <3> QED BY <3>1, <3>2
  <2>3. CASE VerifyStamp(r)
    <3>1. \A o \in Names : DOMAIN number'[o] = DOMAIN number[o]
      BY <1>1, <2>3 DEF VerifyStamp, NumbersOK
    <3> QED BY <2>1, <3>1 DEF RowsGrow
  <2>4. CASE VerifyMark(r)
    <3>1. \A o \in Names : DOMAIN number'[o] = DOMAIN number[o]
      BY <1>1, <2>4 DEF VerifyMark, NumbersOK
    <3> QED BY <2>1, <3>1 DEF RowsGrow
  <2>5. CASE ~ProvisionWrite(r) /\ ~VerifyStamp(r) /\ ~VerifyMark(r)
    <3>1. UNCHANGED number
      BY <1>3, <2>5 DEF ServeRest, ProvisionFind, Me, ServeVerify, VerifyFind, VerifyProfile, VerifySearch
    <3> QED BY <1>2, <2>1, <3>1
  <2> QED BY <2>1, <2>2, <2>3, <2>4, <2>5
<1>4. CASE Fulfilment /\ Staff
  <2>0. UNCHANGED overlapped
    BY <1>4 DEF Fulfilment
  <2>1. CASE StaffMark
    <3>1. \A o \in Names : DOMAIN number'[o] = DOMAIN number[o]
      BY <1>1, <2>1 DEF StaffMark, NumbersOK
    <3> QED BY <2>0, <3>1 DEF RowsGrow
  <2>2. CASE StaffPurchase
    <3>1. (\A o \in Names : DOMAIN number'[o] = DOMAIN number[o]) \/ UNCHANGED number
      BY <1>1, <2>2 DEF StaffPurchase, NumbersOK
    <3> QED BY <1>2, <2>0, <3>1 DEF RowsGrow
  <2> QED BY <1>4, <2>0, <2>1, <2>2 DEF Staff
<1>5. CASE Setup
  <2>1. overlapped \subseteq overlapped'
    BY <1>5 DEF Setup, SetupPlan, SetupFind, SetupWrite
  <2>2. CASE SetupWrite /\ ~UNCHANGED number
    <3>1. CASE hand = 0
      BY <1>1, <2>2, <3>1, RowAdded DEF SetupWrite
    <3>2. CASE hand # 0
      <4>1. \A o \in Names : DOMAIN number'[o] = DOMAIN number[o]
        BY <1>1, <2>2, <3>2 DEF SetupWrite, NumbersOK
      <4> QED BY <2>1, <4>1 DEF RowsGrow
    <3> QED BY <3>1, <3>2
  <2>3. CASE SetupPlan \/ SetupFind
    BY <1>2, <2>3 DEF SetupPlan, SetupFind
  <2> QED BY <1>2, <1>5, <2>1, <2>2, <2>3 DEF Setup
<1>6. CASE ~(Fulfilment /\ Staff) /\ ~(ScriptRuns /\ Setup) /\ ~ApiServes
  BY <1>2, <1>6 DEF Next, UserMoves, Fulfilment, ScriptRuns, vars, stored
<1>7. CASE ApiServes
  BY <1>3, <1>7 DEF ApiServes
<1> QED BY <1>4, <1>5, <1>6, <1>7

LEMMA NumbersGrow ==
  ASSUME NumberInv, [Next]_vars, NEW o \in Names, HasNumber(o)
  PROVE  HasNumber(o)'
<1>1. PurchasedKept /\ RowsGrow /\ overlapped \subseteq overlapped'
  BY NumberStep, RowsKept DEF Kept
<1> QED BY <1>1 DEF HasNumber, PurchasedKept, RowsGrow

(* Profiles.                                                               *)
ProfilesGrow ==
  \A o \in Names :
    /\ HasProfile(o) => HasProfile(o)'
    /\ \A d \in Days : profile[o].hours[d] # None => profile'[o].hours[d] # None

LEMMA NoFormFits == NoForm \in [details : Org, numbers : Org, hours : [Days -> Org]]
BY DEF NoForm, Form, NoHours, Org

LEMMA ProfileServed ==
  ASSUME RequestsFit, SaveInv, StoredOK, NEW r \in Slots, ServeProfile(r)
  PROVE  /\ profile' \in [Names -> ProfileRow] /\ ProfilesGrow
         /\ whole' \in [Names -> {Mixed} \cup [details : Org, numbers : Org, hours : [Days -> Org]]]
<1>1. PICK q : q = req[r]
  OBVIOUS
<1>2. /\ q \in Request /\ q.kind = "save" /\ q.arg \in Org /\ q.todo \subseteq HourDays(q.hours)
      /\ Running(q) => q.arg # None
  BY <1>1 DEF RequestsFit, RequestOK, SaveInv, SaveOK, ServeProfile, SaveFind, SaveWrite, SaveDay,
         SaveNumbers, SaveAnswers, Serving
<1>3. /\ profile \in [Names -> ProfileRow]
      /\ whole \in [Names -> {Mixed} \cup [details : Org, numbers : Org, hours : [Days -> Org]]]
  BY DEF StoredOK
<1>4. UNCHANGED profile => profile' \in [Names -> ProfileRow] /\ ProfilesGrow
  BY <1>3 DEF ProfilesGrow, HasProfile
<1>5. CASE SaveFind(r)
  BY <1>3, <1>4, <1>5 DEF SaveFind
<1>6. CASE SaveWrite(r)
  <2>1. Running(q)
    BY <1>1, <1>6 DEF SaveWrite, Serving, Running
  <2>2. UNCHANGED profile \/ profile' = [profile EXCEPT ![q.org].name = q.arg]
    BY <1>1, <1>6 DEF SaveWrite
  <2>3. CASE profile' = [profile EXCEPT ![q.org].name = q.arg]
    <3>1. q.arg \in Org /\ q.arg # None
      BY <1>2, <2>1
    <3>2. profile' \in [Names -> ProfileRow] /\ ProfilesGrow
      BY <1>3, <2>3, <3>1, ZenonT(30) DEF ProfileRow, ProfilesGrow, HasProfile
    <3>3. UNCHANGED whole
      BY <1>6 DEF SaveWrite
    <3> QED BY <1>3, <3>2, <3>3
  <2>4. UNCHANGED whole
    BY <1>6 DEF SaveWrite
  <2> QED BY <1>3, <1>4, <2>2, <2>3, <2>4
<1>7. CASE SaveDay(r)
  <2>1. PICK d \in q.todo : profile' = [profile EXCEPT ![q.org].hours[d] = q.hours[d]]
    BY <1>1, <1>7 DEF SaveDay
  <2>2. d \in Days /\ q.hours[d] # None /\ q.hours[d] \in Org
    BY <1>2, <2>1 DEF HourDays, Request
  <2>3. profile' \in [Names -> ProfileRow] /\ ProfilesGrow
    BY <1>3, <2>1, <2>2 DEF ProfileRow, ProfilesGrow, HasProfile
  <2> QED BY <1>3, <1>7, <2>3 DEF SaveDay
<1>8. CASE SaveNumbers(r)
  <2>1. profile' = [profile EXCEPT ![q.org].numbers = q.numbers] /\ q.numbers \in Org
    BY <1>1, <1>2, <1>8 DEF SaveNumbers, Request
  <2>2. profile' \in [Names -> ProfileRow] /\ ProfilesGrow
    BY <1>3, <2>1 DEF ProfileRow, ProfilesGrow, HasProfile
  <2> QED BY <1>3, <1>8, <2>2 DEF SaveNumbers
<1>9. CASE SaveAnswers(r)
  <2>1. whole' = [whole EXCEPT ![q.org] = IF @ = NoForm THEN Form(q.arg, q.numbers, q.hours) ELSE @]
    BY <1>1, <1>9 DEF SaveAnswers
  <2>2. Form(q.arg, q.numbers, q.hours) \in [details : Org, numbers : Org, hours : [Days -> Org]]
    BY <1>2 DEF Form, Request
  <2>3. whole' \in [Names -> {Mixed} \cup [details : Org, numbers : Org, hours : [Days -> Org]]]
    BY <1>3, <2>1, <2>2
  <2> QED BY <1>4, <1>9, <2>3 DEF SaveAnswers
<1> QED BY <1>5, <1>6, <1>7, <1>8, <1>9 DEF ServeProfile

LEMMA SeedGrows ==
  ASSUME StoredOK, Seed
  PROVE  profile' \in [Names -> ProfileRow] /\ ProfilesGrow
<1>1. profile \in [Names -> ProfileRow] /\ Seeded \in Org /\ Seeded # None
  BY DemoAssumption, NoneAssumption DEF StoredOK, Seeded, Org
<1>2. CASE UNCHANGED profile
  BY <1>1, <1>2 DEF ProfilesGrow, HasProfile
<1>3. CASE SeedBusiness
  BY <1>1, <1>3 DEF SeedBusiness, ProfileRow, ProfilesGrow, HasProfile
<1>4. ASSUME NEW x, profile' = [profile EXCEPT ![Demo].hours[x] = IF @ = None THEN Seeded ELSE @]
      PROVE  profile' \in [Names -> ProfileRow] /\ ProfilesGrow
  <2>1. PICK a \in {Seeded, profile[Demo].hours[x]} :
          profile' = [profile EXCEPT ![Demo].hours[x] = a] /\ (profile[Demo].hours[x] # None => a # None)
    BY <1>1, <1>4
  <2>2. x \in Days => a \in Org
    BY <1>1, <2>1, DemoAssumption DEF ProfileRow
  <2> QED BY <1>1, <2>1, <2>2 DEF ProfileRow, ProfilesGrow, HasProfile
<1> QED BY <1>2, <1>3, <1>4 DEF Seed, SeedOrg, SeedRow

(* Plans.                                                                  *)
ProfilesFit ==
  /\ profile \in [Names -> ProfileRow]
  /\ whole \in [Names -> {Mixed} \cup [details : Org, numbers : Org, hours : [Days -> Org]]]
PlansFit ==
  /\ plan \in [Names -> Plans \cup {None}] /\ chosen \in [Names -> SUBSET Plans]
  /\ \A o \in Names : plan[o] # None => plan[o] \in chosen[o]
PlansGrow == \A o \in Names : (plan[o] # None => plan'[o] # None) /\ chosen[o] \subseteq chosen'[o]

LEMMA PlanChosen ==
  ASSUME PlansFit, NEW o, NEW p \in Plans,
         plan' = [plan EXCEPT ![o] = p], chosen' = [chosen EXCEPT ![o] = @ \cup {p}]
  PROVE  PlansFit' /\ PlansGrow
<1>1. p # None
  BY PlansAssumption
<1>2. ASSUME NEW x \in Names
      PROVE  /\ plan'[x] \in Plans \cup {None} /\ chosen'[x] \subseteq Plans
             /\ plan'[x] # None => plan'[x] \in chosen'[x]
             /\ plan[x] # None => plan'[x] # None
             /\ chosen[x] \subseteq chosen'[x]
  <2>1. CASE x = o
    BY <1>1, <2>1 DEF PlansFit
  <2>2. CASE x # o
    BY <2>2 DEF PlansFit
  <2> QED BY <2>1, <2>2
<1>3. plan' \in [Names -> Plans \cup {None}] /\ chosen' \in [Names -> SUBSET Plans]
  BY <1>2 DEF PlansFit
<1> QED BY <1>2, <1>3 DEF PlansFit, PlansGrow

LEMMA TierIs == Tier \in Plans
BY PlansAssumption DEF Tier

LEMMA StoredStep ==
  ASSUME StoredOK, RequestsFit, NumberInv, TabInv, [Next]_vars
  PROVE  StoredOK' /\ Grows
<1>0. \A o \in Names : HasNumber(o) => HasNumber(o)'
  BY NumbersGrow
<1> SUFFICES PlansFit' /\ PlansGrow /\ ProfilesFit' /\ ProfilesGrow
  BY <1>0 DEF PlansFit, ProfilesFit, StoredOK, Grows, PlansGrow, ProfilesGrow
<1>1. PlansFit /\ ProfilesFit
  BY DEF StoredOK, PlansFit, ProfilesFit
<1>2. UNCHANGED <<plan, chosen>> => PlansFit' /\ PlansGrow
  BY <1>1 DEF PlansFit, PlansGrow
<1>3. UNCHANGED <<profile, whole>> => ProfilesFit' /\ ProfilesGrow
  BY <1>1 DEF ProfilesFit, ProfilesGrow, HasProfile
<1>4. CASE UserMoves
  <2>1. UNCHANGED <<profile, plan, chosen>>
    BY <1>4 DEF UserMoves
  <2>2. PICK t \in Tabs : Moved(t)
    BY <1>4, PagesMove, StepsMove DEF UserMoves, TabInv
  <2>3. UNCHANGED whole \/ \E s : whole' = [whole EXCEPT ![s.active] = NoForm]
                                  \/ whole' = [whole EXCEPT ![s.active] = Mixed]
    BY <2>2 DEF Moved, PostSave
  <2>4. whole' \in [Names -> {Mixed} \cup [details : Org, numbers : Org, hours : [Days -> Org]]]
    BY <1>1, <2>3, NoFormFits DEF ProfilesFit
  <2>5. ProfilesFit' /\ ProfilesGrow
    BY <1>1, <2>1, <2>4 DEF ProfilesFit, ProfilesGrow, HasProfile
  <2> QED BY <1>2, <2>1, <2>5
<1>5. CASE ApiServes
  <2>1. PICK r \in Slots : ServeRest(r)
    BY <1>5 DEF ApiServes
  <2>2. CASE ServeProfile(r) /\ UNCHANGED <<plan, chosen>>
    BY <1>2, <2>2, ProfileServed DEF TabInv, ProfilesFit
  <2>3. CASE SetPlan(r) /\ UNCHANGED <<profile, whole>>
    <3>1. PICK q : q = req[r]
      OBVIOUS
    <3>2. /\ q.arg \in Plans /\ plan' = [plan EXCEPT ![q.org] = q.arg]
          /\ chosen' = [chosen EXCEPT ![q.org] = @ \cup {q.arg}]
      BY <2>3, <3>1 DEF SetPlan, Serving, RequestsFit, RequestOK
    <3> QED BY <1>1, <1>3, <2>3, <3>2, PlanChosen
  <2>4. CASE UNCHANGED <<profile, whole, plan, chosen>>
    BY <1>2, <1>3, <2>4
  <2>5. /\ SaveDayFails(r) => UNCHANGED <<profile, whole>>
        /\ StatusRead(r) => UNCHANGED <<plan, chosen>>
    BY DEF SaveDayFails, StatusRead
  <2> QED BY <2>1, <2>2, <2>3, <2>4, <2>5 DEF ServeRest
<1>6. CASE ScriptRuns
  <2>1. UNCHANGED whole
    BY <1>6 DEF ScriptRuns
  <2>2. CASE Seed /\ UNCHANGED <<plan, chosen>>
    BY <1>1, <1>2, <2>1, <2>2, SeedGrows DEF ProfilesFit
  <2>3. CASE Setup /\ UNCHANGED profile
    <3>1. CASE SetupPlan
      BY <1>1, <1>3, <2>1, <2>3, <3>1, PlanChosen, TierIs DEF SetupPlan
    <3>2. CASE SetupFind \/ SetupWrite
      BY <1>2, <1>3, <2>1, <2>3, <3>2 DEF SetupFind, SetupWrite
    <3> QED BY <2>3, <3>1, <3>2 DEF Setup
  <2>4. CASE UNCHANGED <<profile, plan, chosen>>
    BY <1>2, <1>3, <2>1, <2>4
  <2> QED BY <1>6, <2>2, <2>3, <2>4 DEF ScriptRuns
<1>7. CASE Fulfilment \/ UNCHANGED vars
  <2>1. UNCHANGED <<profile, whole, plan, chosen>>
    BY <1>7 DEF Fulfilment, vars, stored
  <2> QED BY <1>2, <1>3, <2>1
<1> QED BY <1>4, <1>5, <1>6, <1>7 DEF Next

LEMMA ApiFits ==
  ASSUME RequestsFit, Listens, StoredOK, NumberInv, TabInv, ApiServes
  PROVE  RequestsFit' /\ Listens'
<1>1. StoredOK' /\ Grows
  BY StoredStep DEF Next
<1>2. Ready /\ SaveInv
  BY <1>1 DEF Ready, ApiServes, browser, TabInv
<1>3. PICK r \in Slots : ServeRest(r)
  BY DEF ApiServes
<1>4. \/ ServeProfile(r) \/ SaveDayFails(r)
      \/ ProvisionFind(r) \/ ProvisionWrite(r) \/ Me(r) \/ ServeVerify(r)
      \/ SetPlan(r) \/ (StatusRead(r) /\ UNCHANGED <<number, profile, overlapped>>)
      \/ CallFails(r)
  BY <1>3 DEF ServeRest
<1> QED BY <1>1, <1>2, <1>4, SavesFit, NumbersFit, OrganizationFits, FailuresFit

-----------------------------------------------------------------------------
(* Tabs.                                                                   *)

(* Where a tab is, by what it waits for.                                   *)
Placed(v) ==
  /\ v.busy = "status" => v.page = "new"
  /\ v.busy = "enter" => v.page = "entering"
  /\ v.busy \in {"save", "create", "activate"} => v.page = "new" /\ v.step = 1
  /\ v.busy = "plan" => v.page = "new" /\ v.step = 2 /\ v.form \in Plans
  /\ v.busy \in {"load", "provision", "timer"} => v.page = "new" /\ v.step = 3
  /\ v.busy = "verify" => v.page = "dashboard"
  /\ v.busy \in {"list", "choose", "stuck"} => v.page \in {"sign-in", "sign-up"}
  /\ v.busy \in {"create", "activate", "choose"} => v.form \in Names

(* What a tab counts on is stored; active: the session's organization.     *)
TabFit(v, active) ==
  /\ v \in Tab /\ Placed(v)
  /\ v.page = "new" /\ v.step >= 2 =>
       /\ v.org \in Names /\ HasProfile(v.org)
       /\ ~v.moved => v.org = active
       /\ v.step = 3 /\ ~v.moved => v.plan \in chosen[v.org]
  /\ v.page = "dashboard" =>
       v.org \in Names /\ HasProfile(v.org) /\ plan[v.org] # None /\ HasNumber(v.org)

TabsFit ==
  /\ session \in Session /\ tab \in [Tabs -> Tab]
  /\ \A t \in Tabs : TabFit(tab[t], session.active)

LEMMA FitStill ==
  ASSUME Grows, NEW v, NEW active, TabFit(v, active)
  PROVE  TabFit(v, active)'
BY DEF Grows, TabFit

(* The session's organization may become another under a tab.              *)
LEMMA FitMoved ==
  ASSUME NEW v, NEW active, NEW other, TabFit(v, active), NEW moved \in BOOLEAN, v.moved => moved,
         active # other => moved
  PROVE  /\ TabFit([v EXCEPT !.moved = moved], other)
         /\ \A q : ListensTo(v, q, active) => ListensTo([v EXCEPT !.moved = moved], q, other)
<1>1. PICK w : w = [v EXCEPT !.moved = moved]
  OBVIOUS
<1>2. /\ v \in Tab /\ w \in Tab /\ w.moved = moved /\ w.page = v.page /\ w.step = v.step /\ w.org = v.org
      /\ w.plan = v.plan /\ w.busy = v.busy /\ w.form = v.form
  BY <1>1 DEF TabFit, Tab
<1>3. TabFit(w, other)
  BY <1>2 DEF TabFit, Placed
<1>4. \A q : ListensTo(v, q, active) => ListensTo(w, q, other)
  BY <1>2 DEF ListensTo
<1> QED BY <1>1, <1>3, <1>4

(* Tab t becomes v.                                                        *)
Turns(t, v) ==
  /\ tab' = [x \in Tabs |-> tab'[x]] /\ tab'[t] = v
  /\ \A x \in Tabs \ {t} : \E moved \in BOOLEAN :
       /\ tab'[x] = [tab[x] EXCEPT !.moved = moved]
       /\ tab[x].moved => moved
       /\ session.active # session'.active => moved

LEMMA BecomeTurns ==
  ASSUME TabsFit, NEW t \in Tabs, NEW v, Become(t, v), UNCHANGED session
  PROVE  Turns(t, v)
<1>1. DOMAIN tab = Tabs /\ \A x \in Tabs : tab[x] \in Tab
  BY DEF TabsFit
<1>2. \A u \in Tab : u.moved \in BOOLEAN /\ u = [u EXCEPT !.moved = u.moved]
  BY DEF Tab
<1>3. tab' = [tab EXCEPT ![t] = v]
  BY DEF Become
<1>4. /\ tab' = [x \in Tabs |-> tab'[x]] /\ tab'[t] = v
      /\ \A x \in Tabs \ {t} : tab'[x] = tab[x]
  BY <1>1, <1>3 DEF TabsFit
<1> QED BY <1>1, <1>2, <1>4 DEF Turns

LEMMA WithTabTurns ==
  ASSUME TabsFit, NEW t \in Tabs, NEW v, NEW s, tab' = WithTab(t, v, s), session' = s
  PROVE  Turns(t, v)
<1> DEFINE moved(x) == tab[x].moved \/ s.active # session.active
<1>1. \A x \in Tabs : tab[x] \in Tab
  BY DEF TabsFit
<1>2. \A x \in Tabs : moved(x) \in BOOLEAN
  BY <1>1 DEF Tab
<1>3. tab' = [x \in Tabs |-> tab'[x]] /\ tab'[t] = v
  BY DEF WithTab
<1>4. \A x \in Tabs \ {t} : tab'[x] = [tab[x] EXCEPT !.moved = @ \/ s.active # session.active]
  BY DEF WithTab
<1>5. ASSUME NEW x \in Tabs \ {t} PROVE tab'[x] = [tab[x] EXCEPT !.moved = moved(x)]
  <2>1. "moved" \in DOMAIN tab[x]
    BY <1>1 DEF Tab
  <2> QED BY <1>4, <2>1
<1>6. \A x \in Tabs : (tab[x].moved => moved(x)) /\ (session.active # session'.active => moved(x))
  OBVIOUS
<1> HIDE DEF moved
<1> QED BY <1>2, <1>3, <1>5, <1>6 DEF Turns

-----------------------------------------------------------------------------
(* Requests when a tab sends one, or leaves.                               *)

LEMMA UnheardFits ==
  ASSUME RequestsFit, Grows, NEW t \in Tabs, NEW x \in Slots
  PROVE  \E u : /\ u = Unheard(t)[x] /\ RequestOK(u) /\ Knows(u)' /\ u.from # t
                /\ u.from \in Tabs => u = req[x]
<1>1. PICK q : q = req[x]
  OBVIOUS
<1>2. RequestOK(q) /\ Knows(q)
  BY <1>1 DEF RequestsFit
<1>3. CASE q.from = t
  <2>1. PICK u : u = Settled([q EXCEPT !.from = None])
    OBVIOUS
  <2>2. RequestOK(u) /\ Knows(u) /\ u.from = None
    BY <1>2, <2>1, FromNobody
  <2>3. Knows(u)'
    BY <2>2, KnowsStill
  <2>4. Unheard(t)[x] = u
    BY <1>1, <1>3, <2>1 DEF Unheard
  <2> QED BY <2>2, <2>3, <2>4, NoneAssumption
<1>4. CASE q.from # t
  <2>1. Unheard(t)[x] = q
    BY <1>1, <1>4 DEF Unheard
  <2>2. Knows(q)'
    BY <1>2, KnowsStill
  <2> QED BY <1>1, <1>2, <1>4, <2>1, <2>2
<1> QED BY <1>3, <1>4

(* A request that is to be sent.                                           *)
Fresh(q) ==
  /\ q \in Request /\ q.kind # "free" /\ q.seen = {} /\ q.answer = "none"
  /\ q.kind = "save" => q.arg \in Org /\ q.todo = {} /\ q.at = "find"
  /\ q.kind = "plan" => q.arg \in Plans
  /\ q.kind \in {"status", "me", "provision"} => q.arg = None

LEMMA AskFresh ==
  /\ \A kind \in {"me", "provision", "verify"}, at \in {"find", "read"} :
       Fresh(Ask(kind, at)) /\ Ask(kind, at).kind = kind
  /\ Fresh([Ask("status", "read") EXCEPT !.todo = StatusReads])
  /\ [Ask("status", "read") EXCEPT !.todo = StatusReads].kind = "status"
  /\ \A p \in Plans :
       LET q == [Ask("plan", "write") EXCEPT !.arg = p] IN Fresh(q) /\ q.kind = "plan" /\ q.arg = p
<1>1. \A kind \in {"me", "provision", "verify"}, at \in {"find", "read"} :
        Fresh(Ask(kind, at)) /\ Ask(kind, at).kind = kind
  BY AskFits DEF Fresh
<1>2. ASSUME NEW q, q = [Ask("status", "read") EXCEPT !.todo = StatusReads] PROVE Fresh(q) /\ q.kind = "status"
  <2>1. PICK a : /\ a = Ask("status", "read")
                 /\ a \in Request /\ a.kind = "status" /\ a.arg = None /\ a.seen = {} /\ a.answer = "none"
    BY AskFits
  <2>2. q = [a EXCEPT !.todo = {"profile", "plan", "number"}]
    BY <1>2, <2>1 DEF StatusReads
  <2> QED BY <2>1, <2>2 DEF Fresh, Request
<1>3. ASSUME NEW p \in Plans, NEW q, q = [Ask("plan", "write") EXCEPT !.arg = p]
      PROVE  Fresh(q) /\ q.kind = "plan" /\ q.arg = p
  <2>1. PICK a : /\ a = Ask("plan", "write")
                 /\ a \in Request /\ a.kind = "plan" /\ a.seen = {} /\ a.answer = "none"
    BY AskFits
  <2>2. q = [a EXCEPT !.arg = p]
    BY <1>3, <2>1
  <2> QED BY <2>1, <2>2 DEF Fresh, Request
<1> QED BY <1>1, <1>2, <1>3

LEMMA SaveFresh ==
  ASSUME NEW form \in Names, NEW hours \in [Days -> Org], NEW q,
         q = [Ask("save", "find") EXCEPT !.arg = form, !.numbers = form, !.hours = hours]
  PROVE  Fresh(q) /\ q.kind = "save"
<1>1. form \in Org
  BY DEF Org
<1>2. PICK a : /\ a = Ask("save", "find")
               /\ a \in Request /\ a.kind = "save" /\ a.seen = {} /\ a.answer = "none" /\ a.todo = {} /\ a.at = "find"
  BY AskFits
<1>3. q = [a EXCEPT !.arg = form, !.numbers = form, !.hours = hours]
  BY <1>2
<1>4. q.arg = form /\ q.kind = "save" /\ q.seen = {} /\ q.answer = "none" /\ q.todo = {} /\ q.at = "find"
  BY <1>2, <1>3 DEF Request
<1>5. q \in Request
  BY <1>1, <1>2, <1>3, ZenonT(30) DEF Request
<1> QED BY <1>1, <1>4, <1>5 DEF Fresh

(* The request that is sent.                                               *)
LEMMA SentFits ==
  ASSUME NEW s \in Session, NEW t \in Tabs, NEW q, Fresh(q), NEW admitted, Post(s, t, q, admitted)
  PROVE  \E u : /\ \E r \in Slots : req' = [Unheard(t) EXCEPT ![r] = u]
                /\ RequestOK(u) /\ Knows(u)' /\ u.from = t /\ u.kind = q.kind /\ u.org = s.active
                /\ u.answer \in {"none", "ok"} => u.arg = q.arg
<1>1. q.kind \in {"save", "plan", "status", "me", "provision", "verify"} /\ q \in Request
  BY DEF Fresh, Request
<1>2. /\ Ask(q.kind, "end") \in Request /\ Ask(q.kind, "end").kind = q.kind
      /\ Ask(q.kind, "end").arg = None /\ Ask(q.kind, "end").seen = {} /\ Ask(q.kind, "end").todo = {}
  BY <1>1, AskFits
<1>3. PICK answer : answer = IF Guard(s) = "none" /\ ~admitted THEN "invalid" ELSE Guard(s)
  OBVIOUS
<1>4. answer \in {"none", "invalid", "unsigned", "no-org"} /\ (answer = "none" => s.active # None)
  BY <1>3 DEF Guard
<1>5. PICK sent : sent = IF answer = "none" THEN q ELSE Ask(q.kind, "end")
  OBVIOUS
<1>6. /\ sent \in Request /\ sent.kind = q.kind /\ sent.seen = {}
      /\ sent.arg = q.arg \/ (answer # "none" /\ sent.arg = None)
      /\ sent.kind = "save" => sent.todo = {}
      /\ answer = "none" => sent = q
  BY <1>1, <1>2, <1>5 DEF Fresh
<1>7. s.active \in Org /\ None \in Org
  BY DEF Session, Org
<1>8. PICK u : u = [sent EXCEPT !.from = t, !.org = s.active, !.answer = answer]
  OBVIOUS
<1>9. /\ u \in Request /\ u.from = t /\ u.kind = q.kind /\ u.org = s.active /\ u.answer = answer
      /\ u.arg = sent.arg /\ u.seen = {} /\ u.todo = sent.todo /\ u.at = sent.at
  <2>1. sent \in Request /\ s.active \in Org /\ answer \in {"none", "invalid", "unsigned", "no-org"}
    BY <1>4, <1>6, <1>7
  <2>2. /\ u \in Request /\ u.from = t /\ u.kind = sent.kind /\ u.org = s.active /\ u.answer = answer
        /\ u.arg = sent.arg /\ u.seen = sent.seen /\ u.todo = sent.todo /\ u.at = sent.at
    BY <1>8, <2>1 DEF Request
  <2> QED BY <1>6, <2>2
<1>10. u.answer \in {"none", "ok"} => u.arg = q.arg /\ u.org \in Names
  BY <1>4, <1>6, <1>7, <1>9 DEF Org
<1>11. RequestOK(u)
  BY <1>4, <1>6, <1>7, <1>9, <1>10 DEF RequestOK, Fresh
<1>12. Knows(u)'
  BY <1>4, <1>6, <1>9 DEF Knows, Fresh
<1>13. \E r \in Slots : req' = [Unheard(t) EXCEPT ![r] = u]
  BY <1>3, <1>5, <1>8 DEF Post
<1> QED BY <1>9, <1>10, <1>11, <1>12, <1>13

-----------------------------------------------------------------------------
(* Moves of the user.                                                      *)

(* Tab t, which becomes v, sends what it is to wait for.                   *)
Sends(t, v) ==
  \E q, admitted :
    /\ Fresh(q) /\ q.kind = KindOf[v.busy] /\ (v.busy = "plan" => q.arg = v.form)
    /\ Post(session', t, q, admitted)
Rests(t, v) == v.busy \notin Waits /\ (UNCHANGED req \/ req' = Unheard(t))

(* Of every tab's requests: they are as before, or tab t sent them.        *)
LEMMA SlotsFit ==
  ASSUME RequestsFit, Grows, NEW s \in Session, session' = s, NEW t \in Tabs, NEW v,
         Rests(t, v) \/ Sends(t, v), NEW r \in Slots
  PROVE  \E u : /\ u = req'[r] /\ RequestOK(u) /\ Knows(u)'
                /\ u.from \in Tabs \ {t} => u = req[r]
                /\ u.from = t => ListensTo(v, u, s.active)
<1>1. DOMAIN Unheard(t) = Slots
  BY DEF Unheard
<1>2. PICK w : /\ w = Unheard(t)[r] /\ RequestOK(w) /\ Knows(w)' /\ w.from # t
               /\ w.from \in Tabs => w = req[r]
  BY UnheardFits
<1>3. PICK q : q = req[r]
  OBVIOUS
<1>4. RequestOK(q) /\ Knows(q)'
  BY <1>3, KnowsStill DEF RequestsFit
<1>5. CASE Rests(t, v) /\ UNCHANGED req
  BY <1>3, <1>4, <1>5 DEF Rests, ListensTo
<1>6. CASE Rests(t, v) /\ req' = Unheard(t)
  BY <1>2, <1>6 DEF Rests
<1>7. CASE Sends(t, v)
  <2>1. PICK ask, admitted :
          /\ Fresh(ask) /\ ask.kind = KindOf[v.busy] /\ (v.busy = "plan" => ask.arg = v.form)
          /\ Post(s, t, ask, admitted)
    BY <1>7 DEF Sends
  <2>2. PICK u : /\ \E x \in Slots : req' = [Unheard(t) EXCEPT ![x] = u]
                 /\ RequestOK(u) /\ Knows(u)' /\ u.from = t /\ u.kind = ask.kind /\ u.org = s.active
                 /\ u.answer \in {"none", "ok"} => u.arg = ask.arg
    BY <2>1, SentFits
  <2>3. PICK x \in Slots : req' = [Unheard(t) EXCEPT ![x] = u]
    BY <2>2
  <2>6. CASE r = x
    <3>1. req'[r] = u
      BY <1>1, <2>3, <2>6
    <3>2. ListensTo(v, u, s.active)
      BY <2>1, <2>2 DEF ListensTo
    <3> QED BY <2>2, <3>1, <3>2
  <2>7. CASE r # x
    <3>1. req'[r] = w
      BY <1>1, <1>2, <2>3, <2>7
    <3> QED BY <1>2, <3>1
  <2> QED BY <2>6, <2>7
<1> QED BY <1>5, <1>6, <1>7 DEF Rests

LEMMA UserFits ==
  ASSUME RequestsFit, Listens, TabsFit, Grows, NEW s \in Session, session' = s,
         NEW t \in Tabs, NEW v, TabFit(v, s.active), Turns(t, v), Rests(t, v) \/ Sends(t, v)
  PROVE  RequestsFit' /\ Listens' /\ TabsFit'
<1>1. ASSUME NEW x \in Tabs
      PROVE  \E w : /\ w = tab'[x] /\ TabFit(w, s.active) /\ (x = t => w = v)
                    /\ x # t => \A q : ListensTo(tab[x], q, session.active) => ListensTo(w, q, s.active)
  <2>1. CASE x = t
    BY <2>1 DEF Turns
  <2>2. CASE x # t
    <3>1. PICK moved \in BOOLEAN :
            /\ tab'[x] = [tab[x] EXCEPT !.moved = moved]
            /\ tab[x].moved => moved
            /\ session.active # s.active => moved
      BY <2>2 DEF Turns
    <3>2. TabFit(tab[x], session.active)
      BY DEF TabsFit
    <3> QED BY <2>2, <3>1, <3>2, FitMoved
  <2> QED BY <2>1, <2>2
<1>2. ASSUME NEW x \in Tabs PROVE tab'[x] \in Tab /\ TabFit(tab[x], session.active)'
  <2>1. PICK w : w = tab'[x] /\ TabFit(w, s.active)
    BY <1>1
  <2>2. TabFit(w, s.active)'
    BY <2>1, FitStill
  <2> QED BY <2>1, <2>2 DEF TabFit
<1>3. TabsFit'
  <2>1. tab' = [x \in Tabs |-> tab'[x]]
    BY DEF Turns
  <2>2. tab' \in [Tabs -> Tab]
    BY <1>2, <2>1
  <2> QED BY <1>2, <2>2 DEF TabsFit
<1>4. ASSUME NEW r \in Slots PROVE RequestOK(req'[r]) /\ Knows(req[r])'
  <2>1. PICK u : u = req'[r] /\ RequestOK(u) /\ Knows(u)'
    BY SlotsFit
  <2> QED BY <2>1
<1>5. ASSUME NEW x \in Tabs, NEW r \in Slots, req'[r].from = x PROVE ListensTo(tab'[x], req'[r], s.active)
  <2>1. PICK u : /\ u = req'[r]
                 /\ u.from \in Tabs \ {t} => u = req[r]
                 /\ u.from = t => ListensTo(v, u, s.active)
    BY SlotsFit
  <2>2. PICK w : /\ w = tab'[x] /\ (x = t => w = v)
                 /\ x # t => \A q : ListensTo(tab[x], q, session.active) => ListensTo(w, q, s.active)
    BY <1>1
  <2>3. x # t => ListensTo(tab[x], u, session.active)
    BY <1>5, <2>1 DEF Listens
  <2> QED BY <1>5, <2>1, <2>2, <2>3
<1>6. req' \in [Slots -> Request]
  BY <1>4 DEF RequestsFit, RequestOK, Rests, Sends, Post, Unheard
<1> QED BY <1>3, <1>4, <1>5, <1>6 DEF RequestsFit, Listens

Browsing == RequestsFit /\ Listens /\ TabsFit

LEMMA AtFits ==
  ASSUME NEW active
  PROVE  /\ \A page \in {"sign-in", "sign-up"} : TabFit(At(page), active) /\ At(page).busy = "none"
         /\ \A page \in {"new", "entering", "dashboard"} :
              At(page) \in Tab /\ At(page).page = page /\ At(page).step = 0 /\ At(page).busy = "none"
BY DEF At, Tab, TabFit, Placed, Org

(* Tab t sends q and becomes v.                                            *)
LEMMA SendsOne ==
  ASSUME NEW t, NEW v, NEW q, NEW s, session' = s, NEW admitted, Fresh(q), Post(s, t, q, admitted),
         \/ v.busy \in {"status", "enter"} /\ q.kind = "status"
         \/ v.busy = "plan" /\ q.kind = "plan" /\ q.arg = v.form
         \/ v.busy = "load" /\ q.kind = "me"
         \/ v.busy \in {"save", "provision", "verify"} /\ q.kind = v.busy
  PROVE  Sends(t, v)
<1>1. Post(session', t, q, admitted)
  OBVIOUS
<1>2. q.kind = KindOf[v.busy] /\ (v.busy = "plan" => q.arg = v.form)
  BY DEF KindOf
<1> QED BY <1>1, <1>2, Zenon DEF Sends

LEMMA VisitFits ==
  ASSUME Browsing, Grows, NEW s \in Session, NEW t \in Tabs, Visit(s, t)
  PROVE  Browsing'
<1>1. PICK v : v = [At("new") EXCEPT !.busy = "status"]
  OBVIOUS
<1>2. v \in Tab /\ v.page = "new" /\ v.step = 0 /\ v.busy = "status"
  BY <1>1, AtFits DEF Tab, Waits
<1>3. TabFit(v, s.active)
  BY <1>2 DEF TabFit, Placed
<1>4. Turns(t, v) /\ session' = s
  BY <1>1, WithTabTurns DEF Visit, Browsing
<1>5. PICK q : q = [Ask("status", "read") EXCEPT !.todo = StatusReads]
  OBVIOUS
<1>6. Fresh(q) /\ q.kind = "status" /\ Post(s, t, q, TRUE)
  BY <1>5, AskFresh DEF Visit, PostStatus
<1>7. Sends(t, v)
  BY <1>2, <1>4, <1>6, SendsOne
<1> QED BY <1>3, <1>4, <1>7, UserFits DEF Browsing

LEMMA EnterFits ==
  ASSUME Browsing, Grows, NEW s \in Session, NEW t \in Tabs, Enter(s, t)
  PROVE  Browsing'
<1>1. CASE s.signed
  <2>1. PICK v : v = [At("entering") EXCEPT !.busy = "enter"]
    OBVIOUS
  <2>2. v \in Tab /\ v.page = "entering" /\ v.step = 0 /\ v.busy = "enter"
    BY <2>1, AtFits DEF Tab, Waits
  <2>3. TabFit(v, s.active)
    BY <2>2 DEF TabFit, Placed
  <2>4. Turns(t, v) /\ session' = s
    BY <1>1, <2>1, WithTabTurns DEF Enter, Browsing
  <2>5. PICK q : q = [Ask("status", "read") EXCEPT !.todo = StatusReads]
    OBVIOUS
  <2>6. Fresh(q) /\ q.kind = "status" /\ Post(s, t, q, TRUE)
    BY <1>1, <2>5, AskFresh DEF Enter, PostStatus
  <2>7. Sends(t, v)
    BY <2>2, <2>4, <2>6, SendsOne
  <2> QED BY <2>3, <2>4, <2>7, UserFits DEF Browsing
<1>2. CASE ~s.signed
  <2>1. Turns(t, At("sign-in")) /\ session' = s
    BY <1>2, WithTabTurns DEF Enter, Browsing
  <2>2. TabFit(At("sign-in"), s.active) /\ Rests(t, At("sign-in"))
    BY <1>2, AtFits DEF Enter, Rests, Waits
  <2> QED BY <2>1, <2>2, UserFits DEF Browsing
<1> QED BY <1>1, <1>2

(* What a tab hears fits what it waits for.                                *)
LEMMA HeardFits ==
  ASSUME Browsing, NEW t \in Tabs, NEW r \in Heard(t)
  PROVE  \E q, v : /\ q = req[r] /\ v = tab[t] /\ RequestOK(q) /\ Knows(q) /\ q.answer # "none"
                   /\ q.kind # "free" \/ v.busy \notin Waits
                   /\ TabFit(v, session.active) /\ ListensTo(v, q, session.active)
<1>1. r \in Slots /\ req[r].from = t /\ req[r].answer # "none"
  BY DEF Heard
<1>2. ListensTo(tab[t], req[r], session.active) /\ RequestOK(req[r]) /\ Knows(req[r])
      /\ TabFit(tab[t], session.active)
  BY <1>1 DEF Browsing, Listens, RequestsFit, TabsFit
<1>3. \A busy \in Waits : KindOf[busy] # "free"
  BY DEF Waits, KindOf
<1> QED BY <1>1, <1>2, <1>3 DEF ListensTo

(* Moves after which tab t waits for nothing from the API.                 *)
LEMMA RestFits ==
  ASSUME Browsing, Grows, NEW s \in Session, session' = s, NEW t \in Tabs, NEW v, TabFit(v, s.active),
         (Become(t, v) /\ UNCHANGED session) \/ tab' = WithTab(t, v, s),
         v.busy \notin Waits, UNCHANGED req \/ req' = Unheard(t)
  PROVE  Browsing'
<1>1. Turns(t, v)
  BY BecomeTurns, WithTabTurns DEF Browsing
<1>2. Rests(t, v)
  BY DEF Rests
<1> QED BY <1>1, <1>2, UserFits DEF Browsing

LEMMA SessionsAre ==
  /\ SignedOut \in Session /\ SignedOut.active = None
  /\ \A o \in Org : SignedInto(o) \in Session /\ SignedInto(o).active = o
BY DEF SignedOut, SignedInto, Session, Org

LEMMA PagesFit ==
  ASSUME Browsing, Grows, member \subseteq Names, NEW t \in Tabs, Pages(t)
  PROVE  Browsing'
<1>1. session \in Session /\ tab[t] \in Tab /\ TabFit(tab[t], session.active)
  BY DEF Browsing, TabsFit
<1>2. PICK v : v = tab[t]
  OBVIOUS
<1>3. {"none", "list", "choose", "stuck"} \cap Waits = {}
  BY DEF Waits
<1>4. CASE Open(t)
  <2>1. ASSUME NEW page \in {"sign-in", "sign-up"}, Become(t, At(page)), req' = Unheard(t), UNCHANGED session
        PROVE  Browsing'
    BY <1>1, <1>3, <2>1, AtFits, RestFits
  <2> QED BY <1>1, <1>4, <2>1, VisitFits, EnterFits DEF Open
<1>5. CASE HearEnter(t)
  <2>1. PICK r \in Heard(t) :
          /\ tab[t].busy = "enter"
          /\ IF Admitted(req[r])
             THEN Become(t, [At("dashboard") EXCEPT !.org = req[r].org]) /\ req' = Unheard(t) /\ UNCHANGED session
             ELSE Visit(session, t)
    BY <1>5 DEF HearEnter
  <2>2. CASE ~Admitted(req[r])
    BY <1>1, <2>1, <2>2, VisitFits
  <2>3. CASE Admitted(req[r])
    <3>1. PICK q : /\ q = req[r] /\ RequestOK(q) /\ Knows(q) /\ q.answer = "ok" /\ q.seen = StatusReads
                   /\ ListensTo(tab[t], q, session.active)
      BY <2>1, <2>3, HeardFits DEF Admitted, Complete
    <3>2. q.kind = "status"
      BY <2>1, <3>1 DEF ListensTo, Waits, KindOf
    <3>3. q.org \in Names /\ HasProfile(q.org) /\ plan[q.org] # None /\ HasNumber(q.org)
      BY <3>1, <3>2 DEF RequestOK, Knows, StatusReads
    <3>4. PICK w : w = [At("dashboard") EXCEPT !.org = q.org]
      OBVIOUS
    <3>5. w \in Tab /\ w.page = "dashboard" /\ w.step = 0 /\ w.busy = "none" /\ w.org = q.org
      BY <3>3, <3>4, AtFits DEF Tab, Org
    <3>6. TabFit(w, session.active)
      BY <3>3, <3>5 DEF TabFit, Placed
    <3> QED BY <1>1, <1>3, <2>1, <2>3, <3>1, <3>4, <3>5, <3>6, RestFits
  <2> QED BY <2>2, <2>3
<1>6. CASE SignOut(t)
  BY <1>3, <1>6, AtFits, RestFits, SessionsAre DEF SignOut
<1>7. CASE SignUp(t)
  BY <1>7, VisitFits, SessionsAre DEF SignUp, Org
<1>8. CASE SignIn(t)
  <2>1. PICK w : w = [v EXCEPT !.busy = "list"]
    OBVIOUS
  <2>2. v.page = "sign-in"
    BY <1>2, <1>8 DEF SignIn
  <2>3. w \in Tab /\ w.page = "sign-in" /\ w.busy = "list"
    BY <1>1, <1>2, <2>1, <2>2 DEF Tab
  <2>4. TabFit(w, SignedInto(None).active)
    BY <2>3 DEF TabFit, Placed
  <2>5. SignedInto(None) \in Session
    BY SessionsAre DEF Org
  <2> QED BY <1>2, <1>3, <1>8, <2>1, <2>3, <2>4, <2>5, RestFits DEF SignIn
<1>9. CASE SignInList(t)
  <2>1. ASSUME NEW o \in member, Become(t, [tab[t] EXCEPT !.busy = "choose", !.form = o]), UNCHANGED <<session, req>>,
               tab[t].busy = "list"
        PROVE  Browsing'
    <3>1. PICK w : w = [v EXCEPT !.busy = "choose", !.form = o]
      OBVIOUS
    <3>2. v.page \in {"sign-in", "sign-up"} /\ o \in Names
      BY <1>1, <1>2, <2>1 DEF TabFit, Placed
    <3>3. w \in Tab /\ w.page = v.page /\ w.busy = "choose" /\ w.form = o
      BY <1>1, <1>2, <3>1, <3>2, ZenonT(30) DEF Tab, Org
    <3>4. TabFit(w, session.active)
      BY <3>2, <3>3 DEF TabFit, Placed
    <3> QED BY <1>1, <1>2, <1>3, <2>1, <3>1, <3>3, <3>4, RestFits
  <2> QED BY <1>1, <1>9, <2>1, VisitFits DEF SignInList
<1>10. CASE SignInChoose(t)
  <2>1. v.form \in Names
    BY <1>1, <1>2, <1>10 DEF SignInChoose, TabFit, Placed
  <2>2. SignedInto(v.form) \in Session
    BY <2>1, SessionsAre DEF Org
  <2>3. PICK s : s = IF session.signed THEN SignedInto(v.form) ELSE session
    OBVIOUS
  <2>4. s \in Session /\ (Enter(s, t) \/ Enter(session, t))
    BY <1>1, <1>2, <1>10, <2>2, <2>3 DEF SignInChoose
  <2> QED BY <1>1, <2>4, EnterFits
<1>11. CASE SignStuck(t)
  <2>1. PICK w : w = [v EXCEPT !.busy = "stuck"]
    OBVIOUS
  <2>2. v.page \in {"sign-in", "sign-up"}
    BY <1>1, <1>2, <1>11 DEF SignStuck, TabFit, Placed
  <2>3. w \in Tab /\ w.page = v.page /\ w.busy = "stuck"
    BY <1>1, <1>2, <2>1 DEF Tab
  <2>4. TabFit(w, session.active)
    BY <2>2, <2>3 DEF TabFit, Placed
  <2>5. Become(t, w) /\ UNCHANGED <<session, req>>
    BY <1>2, <1>11, <2>1 DEF SignStuck, Wait
  <2> QED BY <1>1, <1>3, <2>3, <2>4, <2>5, RestFits
<1> QED BY <1>4, <1>5, <1>6, <1>7, <1>8, <1>9, <1>10, <1>11 DEF Pages

LEMMA BusyFits ==
  ASSUME NEW active, NEW v, TabFit(v, active),
         NEW busy \in Waits \cup {"none", "create", "activate", "timer", "list", "choose", "stuck"},
         NEW w, w = [v EXCEPT !.busy = busy], busy = "none" \/ Placed(w)
  PROVE  TabFit(w, active) /\ w.busy = busy
<1>1. /\ v \in Tab /\ w \in Tab /\ w.busy = busy /\ w.page = v.page /\ w.step = v.step /\ w.org = v.org
      /\ w.plan = v.plan /\ w.moved = v.moved /\ w.form = v.form
  BY DEF TabFit, Tab
<1>2. Placed(w)
  BY <1>1 DEF Placed
<1> QED BY <1>1, <1>2 DEF TabFit

LEMMA ToPhoneNumberFits ==
  ASSUME Browsing, Grows, NEW t \in Tabs, NEW v \in Tab, v.page = "new", v.org \in Names, HasProfile(v.org),
         ~v.moved => v.org = session.active /\ v.plan \in chosen[v.org],
         ToPhoneNumber(t, v), UNCHANGED session
  PROVE  Browsing'
<1>1. PICK w : w = [[v EXCEPT !.step = 3, !.stage = "form", !.shown = None] EXCEPT !.busy = "load"]
  OBVIOUS
<1>2. /\ w \in Tab /\ w.busy = "load" /\ w.page = "new" /\ w.step = 3 /\ w.org = v.org
      /\ w.plan = v.plan /\ w.moved = v.moved
  <2>1. PICK u : u = [v EXCEPT !.step = 3]
    OBVIOUS
  <2>2. /\ u \in Tab /\ u.page = "new" /\ u.step = 3 /\ u.org = v.org /\ u.plan = v.plan
        /\ u.moved = v.moved
    BY <2>1 DEF Tab
  <2>3. w = [u EXCEPT !.stage = "form", !.shown = None, !.busy = "load"] /\ "load" \in Waits
    BY <1>1, <2>1 DEF Waits
  <2> QED BY <2>2, <2>3 DEF Tab
<1>3. TabFit(w, session.active)
  BY <1>2 DEF TabFit, Placed
<1>4. Turns(t, w) /\ session \in Session
  BY <1>1, BecomeTurns DEF Browsing, ToPhoneNumber, Wait, TabsFit
<1>5. PICK q : q = Ask("me", "read") /\ Fresh(q) /\ q.kind = "me"
  BY AskFresh
<1>6. Post(session, t, q, TRUE)
  BY <1>5 DEF ToPhoneNumber
<1>7. Sends(t, w)
  BY <1>2, <1>5, <1>6, SendsOne
<1> QED BY <1>3, <1>4, <1>7, UserFits DEF Browsing

LEMMA SaveFits ==
  ASSUME Browsing, Grows, NEW s \in Session, NEW t \in Tabs, NEW form \in Names,
         tab[t].page = "new", tab[t].step = 1, Save(s, t, form)
  PROVE  Browsing'
<1>1. PICK v : v = tab[t] /\ v \in Tab
  BY DEF Browsing, TabsFit
<1>2. PICK w : w = [v EXCEPT !.form = form, !.busy = "save", !.moved = FALSE]
  OBVIOUS
<1>3. w \in Tab /\ w.busy = "save" /\ w.page = "new" /\ w.step = 1
  <2>1. PICK u : u = [v EXCEPT !.form = form, !.busy = "save"]
    OBVIOUS
  <2>2. u \in Tab /\ u.busy = "save" /\ u.page = "new" /\ u.step = 1
    <3>1. form \in Org /\ "save" \in Waits
      BY DEF Org, Waits
    <3> QED BY <1>1, <2>1, <3>1 DEF Tab
  <2>3. w = [u EXCEPT !.moved = FALSE]
    BY <1>2, <2>1
  <2> QED BY <2>2, <2>3 DEF Tab
<1>4. TabFit(w, s.active)
  BY <1>3 DEF TabFit, Placed
<1>5. session' = s /\ Turns(t, w)
  BY <1>1, <1>2, WithTabTurns DEF Save, Browsing
<1>6. PICK hours \in [Days -> Org] : hours = [d \in Days |-> form]
  BY DEF Org
<1>7. PICK q : q = [Ask("save", "find") EXCEPT !.arg = form, !.numbers = form, !.hours = hours]
  OBVIOUS
<1>8. \E admitted : Post(s, t, q, admitted)
  BY <1>6, <1>7 DEF Save, PostSave, Form
<1>9. Fresh(q) /\ q.kind = "save"
  BY <1>7, SaveFresh
<1>10. Sends(t, w)
  BY <1>3, <1>5, <1>8, <1>9, SendsOne
<1> QED BY <1>4, <1>5, <1>10, UserFits DEF Browsing

(* What a tab becomes when it has heard the status.                        *)
Informed(v, q) ==
  [v EXCEPT !.hasOrg = TRUE, !.plan = q.arg, !.org = q.org, !.step = NextStep(q), !.busy = "none"]

LEMMA HeardStatusFits ==
  ASSUME NEW active, NEW v, TabFit(v, active), v.page = "new",
         NEW q, RequestOK(q), Knows(q), q.kind = "status", q.answer = "ok", ~v.moved => q.org = active
  PROVE  \E w :
           /\ w = Informed(v, q)
           /\ TabFit(w, active) /\ w.busy = "none" /\ w.page = "new"
           /\ w.step = 3 => /\ w.org \in Names /\ HasProfile(w.org)
                            /\ ~w.moved => w.org = active /\ w.plan \in chosen[w.org]
<1>1. /\ v \in Tab /\ q.arg \in Plans \cup {None} /\ q.org \in Names
      /\ "profile" \in q.seen => HasProfile(q.org)
      /\ "plan" \in q.seen => q.arg \in chosen[q.org]
  BY DEF TabFit, RequestOK, Knows
<1>2. PICK n \in {1, 2, 3} : /\ n = NextStep(q) /\ (n >= 2 => "profile" \in q.seen)
                             /\ n = 3 => "plan" \in q.seen
  BY DEF NextStep
<1>3. PICK u : u = [v EXCEPT !.hasOrg = TRUE, !.busy = "none"]
  OBVIOUS
<1>4. u \in Tab /\ u.page = "new" /\ u.moved = v.moved /\ u.busy = "none"
  BY <1>1, <1>3 DEF Tab
<1>5. PICK x : x = [u EXCEPT !.plan = q.arg, !.org = q.org]
  OBVIOUS
<1>6. x \in Tab /\ x.page = "new" /\ x.moved = v.moved /\ x.busy = "none" /\ x.plan = q.arg /\ x.org = q.org
  BY <1>1, <1>4, <1>5 DEF Tab, Org
<1>7. PICK w : w = [x EXCEPT !.step = n]
  OBVIOUS
<1>10. w = Informed(v, q)
  BY <1>2, <1>3, <1>5, <1>7 DEF Informed
<1>8. /\ w \in Tab /\ w.page = "new" /\ w.moved = v.moved /\ w.busy = "none" /\ w.plan = q.arg /\ w.org = q.org
      /\ w.step = n
  BY <1>6, <1>7 DEF Tab
<1>9. Placed(w)
  BY <1>8 DEF Placed
<1>11. TabFit(w, active)
  BY <1>1, <1>2, <1>8, <1>9 DEF TabFit
<1> QED BY <1>1, <1>2, <1>8, <1>10, <1>11

LEMMA HearStatusFits ==
  ASSUME Browsing, Grows, NEW t \in Tabs, HearStatus(t)
  PROVE  Browsing'
<1>1. session \in Session /\ "none" \notin Waits
  BY DEF Browsing, TabsFit, Waits
<1>2. PICK r \in Heard(t) :
        LET v == [tab[t] EXCEPT !.hasOrg = TRUE, !.plan = req[r].arg, !.org = req[r].org,
                                !.step = NextStep(req[r]), !.busy = "none"]
        IN /\ tab[t].busy = "status"
           /\ \/ Enter(session, t)
              \/ /\ req[r].answer = "ok"
                 /\ IF v.step = 3 THEN ToPhoneNumber(t, v) ELSE Become(t, v) /\ req' = Unheard(t)
                 /\ UNCHANGED session
              \/ /\ Become(t, [tab[t] EXCEPT !.hasOrg = FALSE, !.step = 1, !.busy = "none"])
                 /\ req' = Unheard(t)
                 /\ UNCHANGED session
  BY DEF HearStatus
<1>3. PICK q, v : /\ q = req[r] /\ v = tab[t] /\ RequestOK(q) /\ Knows(q)
                  /\ TabFit(v, session.active) /\ ListensTo(v, q, session.active)
  BY HeardFits
<1>4. v \in Tab /\ v.busy = "status" /\ v.page = "new" /\ q.kind = "status" /\ (~v.moved => q.org = session.active)
  BY <1>2, <1>3 DEF TabFit, Placed, ListensTo, Waits, KindOf
<1>5. PICK w :
        /\ w = Informed(v, q)
        /\ q.answer = "ok" =>
             /\ TabFit(w, session.active) /\ w.busy = "none" /\ w.page = "new"
             /\ w.step = 3 => /\ w.org \in Names /\ HasProfile(w.org)
                              /\ ~w.moved => w.org = session.active /\ w.plan \in chosen[w.org]
  BY <1>3, <1>4, HeardStatusFits
<1>6. \/ Enter(session, t)
      \/ /\ q.answer = "ok" /\ UNCHANGED session
         /\ IF w.step = 3 THEN ToPhoneNumber(t, w) ELSE Become(t, w) /\ req' = Unheard(t)
      \/ /\ Become(t, [v EXCEPT !.hasOrg = FALSE, !.step = 1, !.busy = "none"])
         /\ req' = Unheard(t)
         /\ UNCHANGED session
  BY <1>2, <1>3, <1>5 DEF Informed
<1>7. CASE /\ q.answer = "ok" /\ UNCHANGED session
           /\ IF w.step = 3 THEN ToPhoneNumber(t, w) ELSE Become(t, w) /\ req' = Unheard(t)
  <2>1. /\ TabFit(w, session.active) /\ w.busy = "none" /\ w.page = "new"
        /\ w.step = 3 => /\ w.org \in Names /\ HasProfile(w.org)
                         /\ ~w.moved => w.org = session.active /\ w.plan \in chosen[w.org]
    BY <1>5, <1>7
  <2>2. w \in Tab
    BY <2>1 DEF TabFit
  <2> QED BY <1>1, <1>7, <2>1, <2>2, ToPhoneNumberFits, RestFits
<1>8. CASE /\ Become(t, [v EXCEPT !.hasOrg = FALSE, !.step = 1, !.busy = "none"])
           /\ req' = Unheard(t)
           /\ UNCHANGED session
  <2>1. PICK u : u = [v EXCEPT !.step = 1]
    OBVIOUS
  <2>2. u \in Tab /\ u.page = "new" /\ u.step = 1
    BY <1>4, <2>1 DEF Tab
  <2>3. PICK x : x = [u EXCEPT !.hasOrg = FALSE, !.busy = "none"]
    OBVIOUS
  <2>4. x \in Tab /\ x.page = "new" /\ x.step = 1 /\ x.busy = "none"
    BY <2>2, <2>3 DEF Tab
  <2>5. TabFit(x, session.active)
    BY <2>4 DEF TabFit, Placed
  <2>6. Become(t, x)
    BY <1>8, <2>1, <2>3
  <2> QED BY <1>1, <1>8, <2>4, <2>5, <2>6, RestFits
<1> QED BY <1>1, <1>6, <1>7, <1>8, EnterFits

(* Step 1.                                                                 *)
LEMMA DetailsFit ==
  ASSUME Browsing, Grows, NEW t \in Tabs, SubmitDetails(t) \/ CreateOrg(t) \/ ActivateOrg(t)
  PROVE  Browsing'
<1>1. PICK v : /\ v = tab[t] /\ v \in Tab /\ TabFit(v, session.active)
               /\ session \in Session /\ {"none", "create", "activate"} \cap Waits = {}
  BY DEF Browsing, TabsFit, Waits
<1>2. v.page = "new" /\ v.step = 1
  BY <1>1 DEF SubmitDetails, CreateOrg, ActivateOrg, OnStep, TabFit, Placed
<1>3. ASSUME Wait(t, tab[t], "none"), UNCHANGED <<session, req>> PROVE Browsing'
  <2>1. PICK w : w = [v EXCEPT !.busy = "none"]
    OBVIOUS
  <2>2. TabFit(w, session.active) /\ w.busy = "none"
    BY <1>1, <2>1, BusyFits
  <2> QED BY <1>1, <1>3, <2>1, <2>2, RestFits DEF Wait
<1>4. CASE SubmitDetails(t)
  <2>1. PICK form \in Names :
          IF tab[t].hasOrg THEN Save(session, t, form)
          ELSE Wait(t, [tab[t] EXCEPT !.form = form], "create") /\ UNCHANGED <<session, req>>
    BY <1>4 DEF SubmitDetails
  <2>2. CASE Wait(t, [tab[t] EXCEPT !.form = form], "create") /\ UNCHANGED <<session, req>>
    <3>1. PICK w : w = [[v EXCEPT !.form = form] EXCEPT !.busy = "create"]
      OBVIOUS
    <3>2. w \in Tab /\ w.page = "new" /\ w.step = 1 /\ w.busy = "create" /\ w.form = form
      BY <1>1, <1>2, <3>1 DEF Tab, Org
    <3>3. TabFit(w, session.active)
      BY <3>2 DEF TabFit, Placed
    <3> QED BY <1>1, <2>2, <3>1, <3>2, <3>3, RestFits DEF Wait
  <2> QED BY <1>1, <1>2, <2>1, <2>2, SaveFits
<1>5. CASE CreateOrg(t)
  <2>1. v.form \in Names /\ UNCHANGED req
    BY <1>1, <1>5 DEF CreateOrg, TabFit, Placed
  <2>2. PICK s : s = SignedInto(v.form) /\ s \in Session
    BY <2>1, SessionsAre DEF Org
  <2>3. ASSUME NEW busy \in {"none", "activate"}, tab' = WithTab(t, [tab[t] EXCEPT !.busy = busy], s), session' = s
        PROVE  Browsing'
    <3>1. PICK w : w = [v EXCEPT !.busy = busy]
      OBVIOUS
    <3>2. w \in Tab /\ w.page = "new" /\ w.step = 1 /\ w.busy = busy /\ w.form = v.form
      BY <1>1, <1>2, <3>1 DEF Tab
    <3>3. TabFit(w, s.active)
      BY <2>1, <3>2 DEF TabFit, Placed
    <3>4. tab' = WithTab(t, w, s) /\ w.busy \notin Waits /\ s \in Session
      BY <1>1, <2>2, <2>3, <3>1, <3>2
    <3> QED BY <2>1, <2>3, <3>3, <3>4, RestFits
  <2> QED BY <1>1, <1>3, <1>5, <2>1, <2>2, <2>3 DEF CreateOrg
<1>6. CASE ActivateOrg(t)
  <2>1. v.form \in Names
    BY <1>1, <1>6 DEF ActivateOrg, TabFit, Placed
  <2>2. PICK s : s = IF session.signed THEN SignedInto(v.form) ELSE session
    OBVIOUS
  <2>3. s \in Session
    BY <1>1, <2>1, <2>2, SessionsAre DEF Org
  <2>4. Save(s, t, v.form) \/ Save(session, t, v.form) \/ (Wait(t, tab[t], "none") /\ UNCHANGED <<session, req>>)
    BY <1>1, <1>6, <2>2 DEF ActivateOrg
  <2>5. tab[t].page = "new" /\ tab[t].step = 1
    BY <1>1, <1>2
  <2>6. CASE Save(s, t, v.form) \/ Save(session, t, v.form)
    BY <1>1, <2>1, <2>3, <2>5, <2>6, SaveFits
  <2> QED BY <1>3, <2>4, <2>6
<1> QED BY <1>4, <1>5, <1>6

LEMMA HearSaveFits ==
  ASSUME Browsing, Grows, NEW t \in Tabs, HearSave(t)
  PROVE  Browsing'
<1>1. PICK r \in Heard(t) :
        /\ tab[t].busy = "save" /\ req[r].answer = "ok"
        /\ Become(t, [tab[t] EXCEPT !.hasOrg = TRUE, !.step = 2, !.org = req[r].org, !.busy = "none"])
        /\ req' = Unheard(t) /\ UNCHANGED session
  BY DEF HearSave
<1>2. PICK q, v : /\ q = req[r] /\ v = tab[t] /\ RequestOK(q) /\ Knows(q)
                  /\ TabFit(v, session.active) /\ ListensTo(v, q, session.active)
  BY HeardFits
<1>3. v \in Tab /\ v.page = "new" /\ q.kind = "save" /\ (~v.moved => q.org = session.active)
  BY <1>1, <1>2 DEF TabFit, Placed, ListensTo, Waits, KindOf
<1>4. q.org \in Names /\ HasProfile(q.org)
  BY <1>1, <1>2, <1>3 DEF RequestOK, Knows
<1>5. PICK u : u = [v EXCEPT !.step = 2]
  OBVIOUS
<1>6. u \in Tab /\ u.page = "new" /\ u.step = 2 /\ u.moved = v.moved
  BY <1>3, <1>5 DEF Tab
<1>7. PICK w : w = [u EXCEPT !.hasOrg = TRUE, !.org = q.org, !.busy = "none"]
  OBVIOUS
<1>8. /\ w \in Tab /\ w.page = "new" /\ w.step = 2 /\ w.moved = v.moved /\ w.org = q.org
      /\ w.busy = "none"
  BY <1>4, <1>6, <1>7 DEF Tab, Org
<1>9. TabFit(w, session.active)
  BY <1>3, <1>4, <1>8 DEF TabFit, Placed
<1>10. Become(t, w)
  BY <1>1, <1>2, <1>5, <1>7
<1>11. session \in Session /\ "none" \notin Waits
  BY DEF Browsing, TabsFit, Waits
<1> QED BY <1>1, <1>8, <1>9, <1>10, <1>11, RestFits

(* Step 2.                                                                 *)
LEMMA PlanFits ==
  ASSUME Browsing, Grows, NEW t \in Tabs, SubmitPlan(t) \/ HearPlan(t)
  PROVE  Browsing'
<1>1. PICK v : /\ v = tab[t] /\ v \in Tab /\ TabFit(v, session.active) /\ session \in Session
  BY DEF Browsing, TabsFit
<1>2. /\ v.page = "new" /\ v.step = 2 /\ v.org \in Names /\ HasProfile(v.org)
      /\ ~v.moved => v.org = session.active
  <2>1. (v.page = "new" /\ v.step = 2) \/ v.busy = "plan"
    BY <1>1 DEF SubmitPlan, HearPlan, OnStep
  <2>2. v.page = "new" /\ v.step = 2
    BY <1>1, <2>1 DEF TabFit, Placed
  <2> QED BY <1>1, <2>2 DEF TabFit
<1>3. CASE SubmitPlan(t)
  <2>1. PICK p \in Plans :
          /\ Post(session, t, [Ask("plan", "write") EXCEPT !.arg = p], TRUE)
          /\ Wait(t, [tab[t] EXCEPT !.form = p], "plan") /\ UNCHANGED session
    BY <1>3 DEF SubmitPlan
  <2>2. PICK w : w = [[v EXCEPT !.form = p] EXCEPT !.busy = "plan"]
    OBVIOUS
  <2>3. "plan" \in Waits
    BY DEF Waits
  <2>4. /\ w \in Tab /\ w.page = "new" /\ w.step = 2 /\ w.busy = "plan" /\ w.form = p /\ w.org = v.org
        /\ w.moved = v.moved
    BY <1>1, <1>2, <2>2, <2>3 DEF Tab
  <2>5. TabFit(w, session.active)
    BY <1>2, <2>4 DEF TabFit, Placed
  <2>6. Turns(t, w)
    BY <1>1, <2>1, <2>2, BecomeTurns DEF Wait, Browsing
  <2>7. PICK q : q = [Ask("plan", "write") EXCEPT !.arg = p]
    OBVIOUS
  <2>8. Fresh(q) /\ q.kind = "plan" /\ q.arg = p
    BY <2>7, AskFresh
  <2>9. Post(session, t, q, TRUE) /\ UNCHANGED session
    BY <2>1, <2>7
  <2>10. Sends(t, w)
    BY <2>4, <2>8, <2>9, SendsOne
  <2> QED BY <1>1, <2>5, <2>6, <2>9, <2>10, UserFits DEF Browsing
<1>4. CASE HearPlan(t)
  <2>1. PICK r \in Heard(t) :
          /\ tab[t].busy = "plan" /\ req[r].answer = "ok"
          /\ ToPhoneNumber(t, [tab[t] EXCEPT !.plan = tab[t].form]) /\ UNCHANGED session
    BY <1>4 DEF HearPlan
  <2>2. PICK q : /\ q = req[r] /\ RequestOK(q) /\ Knows(q) /\ ListensTo(v, q, session.active)
    BY <1>1, HeardFits
  <2>3. v.form \in Plans /\ q.kind = "plan" /\ q.arg = v.form /\ (~v.moved => q.org = session.active)
    BY <1>1, <2>1, <2>2 DEF TabFit, Placed, ListensTo, Waits, KindOf
  <2>4. v.form \in chosen[q.org]
    BY <2>1, <2>2, <2>3 DEF Knows
  <2>5. PICK w : w = [v EXCEPT !.plan = v.form]
    OBVIOUS
  <2>6. w \in Tab /\ w.page = "new" /\ w.org = v.org /\ w.moved = v.moved /\ w.plan = v.form
    BY <1>1, <1>2, <2>3, <2>5 DEF Tab
  <2>7. ToPhoneNumber(t, w) /\ UNCHANGED session
    BY <1>1, <2>1, <2>5
  <2> QED BY <1>2, <2>3, <2>4, <2>6, <2>7, ToPhoneNumberFits
<1> QED BY <1>3, <1>4

(* Step 3 changes no more of the tab than what it shows.                   *)
Aside(v, stage, shown, busy) == [v EXCEPT !.stage = stage, !.shown = shown, !.busy = busy]

LEMMA AsideFits ==
  ASSUME NEW active, NEW v, TabFit(v, active),
         NEW stage \in {"form", "paying", "paid"}, NEW shown \in Status \cup {None},
         NEW busy \in {"none", "timer"}, busy = "timer" => v.page = "new" /\ v.step = 3,
         NEW w, w = Aside(v, stage, shown, busy)
  PROVE  TabFit(w, active) /\ w.busy = busy
<1>1. v \in Tab
  BY DEF TabFit
<1>2. PICK u : u = [v EXCEPT !.stage = stage, !.shown = shown]
  OBVIOUS
<1>3. /\ u \in Tab /\ u.page = v.page /\ u.step = v.step /\ u.org = v.org
      /\ u.plan = v.plan /\ u.moved = v.moved /\ u.form = v.form
  BY <1>1, <1>2 DEF Tab
<1>4. w = [u EXCEPT !.busy = busy]
  BY <1>2 DEF Aside
<1>5. /\ w \in Tab /\ w.busy = busy /\ w.page = v.page /\ w.step = v.step /\ w.org = v.org
      /\ w.plan = v.plan /\ w.moved = v.moved /\ w.form = v.form
  BY <1>1, <1>3, <1>4 DEF Tab
<1>6. Placed(w)
  BY <1>5 DEF Placed
<1> QED BY <1>5, <1>6 DEF TabFit

LEMMA PaymentFits ==
  ASSUME Browsing, Grows, NEW t \in Tabs,
         HearLoad(t) \/ ContinueForm(t) \/ Pay(t) \/ Paid(t) \/ HearProvision(t) \/ HearVerify(t)
  PROVE  Browsing'
<1>1. PICK v : v = tab[t] /\ v \in Tab /\ TabFit(v, session.active) /\ session \in Session
  BY DEF Browsing, TabsFit
<1>2. v.stage \in {"form", "paying", "paid"} /\ v.shown \in Status \cup {None}
  BY <1>1 DEF Tab
<1>3. ASSUME NEW stage \in {"form", "paying", "paid"}, NEW shown \in Status \cup {None}, NEW busy \in {"none", "timer"},
             busy = "timer" => v.page = "new" /\ v.step = 3,
             Become(t, Aside(v, stage, shown, busy)), UNCHANGED session,
             UNCHANGED req \/ req' = Unheard(t)
      PROVE  Browsing'
  <2>1. PICK w : w = Aside(v, stage, shown, busy)
    OBVIOUS
  <2>2. TabFit(w, session.active) /\ w.busy = busy
    BY <1>1, <1>3, <2>1, AsideFits
  <2>3. w.busy \notin Waits
    BY <2>2 DEF Waits
  <2> QED BY <1>1, <1>3, <2>1, <2>2, <2>3, RestFits
<1>4. CASE HearLoad(t) \/ HearProvision(t)
  <2>1. PICK r \in Heard(t) :
          /\ tab[t].busy \in {"load", "provision"}
          /\ \/ Wait(t, [tab[t] EXCEPT !.shown = req[r].arg], "none")
             \/ Wait(t, [tab[t] EXCEPT !.shown = None], "none")
          /\ req' = Unheard(t) /\ UNCHANGED session
    BY <1>4 DEF HearLoad, HearProvision
  <2>2. RequestOK(req[r]) /\ ListensTo(v, req[r], session.active)
    BY <1>1, HeardFits
  <2>3. req[r].kind \in {"me", "provision"}
    BY <1>1, <2>1, <2>2 DEF ListensTo, KindOf, Waits
  <2>4. req[r].arg \in Status \cup {None}
    BY <2>2, <2>3 DEF RequestOK
  <2>5. ASSUME NEW shown \in Status \cup {None}, Wait(t, [tab[t] EXCEPT !.shown = shown], "none") PROVE Browsing'
    <3>1. Aside(v, v.stage, shown, "none") = [[v EXCEPT !.shown = shown] EXCEPT !.busy = "none"]
      BY <1>1 DEF Tab, Aside
    <3>2. Become(t, Aside(v, v.stage, shown, "none"))
      BY <1>1, <2>5, <3>1 DEF Wait
    <3> QED BY <1>2, <1>3, <2>1, <2>5, <3>2
  <2> QED BY <2>1, <2>4, <2>5
<1>5. CASE ContinueForm(t)
  <2>1. Become(t, [v EXCEPT !.stage = "paying"]) /\ UNCHANGED <<session, req>> /\ v.busy = "none"
    BY <1>1, <1>5 DEF ContinueForm, OnStage, OnStep
  <2>2. Aside(v, "paying", v.shown, "none") = [v EXCEPT !.stage = "paying"]
    BY <1>1, <2>1 DEF Tab, Aside
  <2>3. Become(t, Aside(v, "paying", v.shown, "none"))
    BY <2>1, <2>2
  <2> QED BY <1>2, <1>3, <2>1, <2>3
<1>6. CASE Pay(t)
  <2>1. Become(t, [v EXCEPT !.busy = "timer"]) /\ UNCHANGED <<session, req>> /\ v.page = "new" /\ v.step = 3
    BY <1>1, <1>6 DEF Pay, OnStage, OnStep, Wait
  <2>2. Aside(v, v.stage, v.shown, "timer") = [v EXCEPT !.busy = "timer"]
    BY <1>1 DEF Tab, Aside
  <2>3. Become(t, Aside(v, v.stage, v.shown, "timer"))
    BY <2>1, <2>2
  <2> QED BY <1>2, <1>3, <2>1, <2>3
<1>7. CASE Paid(t)
  <2>1. Become(t, [[v EXCEPT !.stage = "paid"] EXCEPT !.busy = "none"]) /\ UNCHANGED <<session, req>>
    BY <1>1, <1>7 DEF Paid, Wait
  <2>2. Aside(v, "paid", v.shown, "none") = [[v EXCEPT !.stage = "paid"] EXCEPT !.busy = "none"]
    BY <1>1 DEF Tab, Aside
  <2>3. Become(t, Aside(v, "paid", v.shown, "none"))
    BY <2>1, <2>2
  <2> QED BY <1>2, <1>3, <2>1, <2>3
<1>8. CASE HearVerify(t)
  <2>1. Become(t, [v EXCEPT !.busy = "none"]) /\ UNCHANGED session /\ req' = Unheard(t)
    BY <1>1, <1>8 DEF HearVerify, Wait
  <2>2. Aside(v, v.stage, v.shown, "none") = [v EXCEPT !.busy = "none"]
    BY <1>1 DEF Tab, Aside
  <2>3. Become(t, Aside(v, v.stage, v.shown, "none"))
    BY <2>1, <2>2
  <2> QED BY <1>2, <1>3, <2>1, <2>3
<1> QED BY <1>4, <1>5, <1>6, <1>7, <1>8

LEMMA AsksFit ==
  ASSUME Browsing, Grows, NEW t \in Tabs, ConfirmRequest(t) \/ AskVerify(t)
  PROVE  Browsing'
<1>1. PICK v : v = tab[t] /\ v \in Tab /\ TabFit(v, session.active) /\ session \in Session
  BY DEF Browsing, TabsFit
<1>2. PICK kind \in {"provision", "verify"} :
        /\ Post(session, t, Ask(kind, "find"), TRUE) /\ Wait(t, tab[t], kind) /\ UNCHANGED session
        /\ IF kind = "provision" THEN OnStep(t, 3) ELSE tab[t].page = "dashboard"
  BY DEF ConfirmRequest, AskVerify, OnStage
<1>3. (kind = "provision" => v.page = "new" /\ v.step = 3) /\ (kind = "verify" => v.page = "dashboard")
  BY <1>1, <1>2 DEF OnStep
<1>4. PICK w : w = [v EXCEPT !.busy = kind]
  OBVIOUS
<1>5. w.busy = kind /\ w.page = v.page /\ w.step = v.step
  BY <1>1, <1>4 DEF Tab
<1>6. Placed(w) /\ kind \in Waits
  BY <1>3, <1>5 DEF Placed, Waits
<1>7. TabFit(w, session.active) /\ w.busy = kind
  BY <1>1, <1>4, <1>6, BusyFits
<1>8. Turns(t, w)
  BY <1>1, <1>2, <1>4, BecomeTurns DEF Browsing, Wait
<1>9. Fresh(Ask(kind, "find")) /\ Ask(kind, "find").kind = kind
  BY AskFresh
<1>10. Sends(t, w)
  BY <1>2, <1>7, <1>9, SendsOne
<1> QED BY <1>1, <1>2, <1>7, <1>8, <1>10, UserFits DEF Browsing

LEMMA BackFits ==
  ASSUME Browsing, Grows, NEW t \in Tabs, Back(t) \/ HearError(t)
  PROVE  Browsing'
<1>1. PICK v : /\ v = tab[t] /\ v \in Tab /\ TabFit(v, session.active) /\ session \in Session
               /\ "none" \notin Waits
  BY DEF Browsing, TabsFit, Waits
<1>2. CASE HearError(t)
  <2>1. PICK w : w = [v EXCEPT !.busy = "none"]
    OBVIOUS
  <2>2. TabFit(w, session.active) /\ w.busy = "none"
    BY <1>1, <2>1, BusyFits
  <2>3. Become(t, w) /\ UNCHANGED session /\ req' = Unheard(t)
    BY <1>1, <1>2, <2>1 DEF HearError, Wait
  <2> QED BY <1>1, <2>2, <2>3, RestFits
<1>3. CASE Back(t)
  <2>1. /\ v.busy = "none" /\ v.page = "new" /\ v.step >= 2 /\ UNCHANGED <<session, req>>
        /\ \/ Become(t, [v EXCEPT !.step = 1])
           \/ v.step = 3 /\ Become(t, [v EXCEPT !.step = 2])
           \/ Become(t, [v EXCEPT !.stage = "form"])
    BY <1>1, <1>3 DEF Back, OnStage, OnStep
  <2>2. ASSUME NEW step \in {1, 2}, Become(t, [v EXCEPT !.step = step])
        PROVE  Browsing'
    <3>1. PICK w : w = [v EXCEPT !.step = step]
      OBVIOUS
    <3>2. /\ w \in Tab /\ w.page = "new" /\ w.step = step /\ w.busy = "none" /\ w.org = v.org
          /\ w.moved = v.moved
      BY <1>1, <2>1, <3>1 DEF Tab
    <3>3. TabFit(w, session.active)
      BY <1>1, <2>1, <3>2 DEF TabFit, Placed
    <3> QED BY <1>1, <2>1, <2>2, <3>1, <3>2, <3>3, RestFits
  <2>3. ASSUME Become(t, [v EXCEPT !.stage = "form"])
        PROVE  Browsing'
    <3>1. PICK w : w = [v EXCEPT !.stage = "form"]
      OBVIOUS
    <3>2. /\ w \in Tab /\ w.page = "new" /\ w.step = v.step /\ w.busy = "none" /\ w.org = v.org
          /\ w.moved = v.moved /\ w.plan = v.plan
      BY <1>1, <2>1, <3>1 DEF Tab
    <3>3. TabFit(w, session.active)
      BY <1>1, <2>1, <3>2 DEF TabFit, Placed
    <3> QED BY <1>1, <2>1, <2>3, <3>1, <3>2, <3>3, RestFits
  <2> QED BY <2>1, <2>2, <2>3
<1> QED BY <1>2, <1>3

LEMMA StepsFit ==
  ASSUME Browsing, Grows, NEW t \in Tabs, Steps(t)
  PROVE  Browsing'
<1>1. session \in Session
  BY DEF Browsing, TabsFit
<1>2. CASE GoToDashboard(t)
  BY <1>1, <1>2, EnterFits DEF GoToDashboard
<1> QED BY <1>2, HearStatusFits, DetailsFit, HearSaveFits, PlanFits, PaymentFits, AsksFit, BackFits DEF Steps

(* Every step keeps what the requests and the tabs rest on.                *)
LEMMA BrowsingStep ==
  ASSUME Browsing, StoredOK, NumberInv, TabInv, member \subseteq Names, [Next]_vars
  PROVE  Browsing' /\ StoredOK' /\ Grows
<1>1. StoredOK' /\ Grows
  BY StoredStep DEF Browsing
<1> SUFFICES Browsing'
  BY <1>1
<1>2. ASSUME UNCHANGED <<tab, session>>, RequestsFit', Listens' PROVE Browsing'
  <2>1. \A t \in Tabs : TabFit(tab[t], session.active)'
    BY <1>1, <1>2, FitStill DEF Browsing, TabsFit
  <2> QED BY <1>2, <2>1 DEF Browsing, TabsFit
<1>3. CASE UserMoves
  BY <1>1, <1>3, PagesFit, StepsFit DEF UserMoves
<1>4. CASE ApiServes
  BY <1>2, <1>4, ApiFits DEF Browsing, ApiServes, browser
<1>5. CASE UNCHANGED <<tab, session, req>>
  <2>1. RequestsFit'
    BY <1>1, <1>5, KnowsStill DEF Browsing, RequestsFit
  <2>2. Listens'
    BY <1>5 DEF Browsing, Listens
  <2> QED BY <1>2, <1>5, <2>1, <2>2
<1> QED BY <1>1, <1>3, <1>4, <1>5 DEF Next, Fulfilment, ScriptRuns, vars, browser

-----------------------------------------------------------------------------
(* The seed.                                                               *)

Stages == Kinds \cup {"org", "business", "hours", "end"}
HoursFull == \A d \in Days : profile[Demo].hours[d] # None
Full(kind) == sample[kind] = SeedRows(kind)

(* What is there when the seed has reached a stage.                        *)
Reached(at) ==
  /\ at \in Kinds \cup {"hours"} => HasProfile(Demo)
  /\ at \in {"hours", "appointment", "transcripts", "inquiries"} => Full("services")
  /\ at \in {"appointment", "transcripts", "inquiries"} => HoursFull
  /\ at \in {"transcripts", "inquiries"} => Full("appointment")
  /\ at = "inquiries" => Full("transcripts")

(* Of the stage it is at, what is not to do is done.                       *)
Underway ==
  /\ {"at", "todo"} \subseteq DOMAIN seed /\ seed.at \in Stages
  /\ seed.at \in Kinds => seed.todo \subseteq SeedRows(seed.at) /\ SeedRows(seed.at) \ seed.todo \subseteq sample[seed.at]
  /\ seed.at = "hours" => seed.todo \subseteq Days /\ \A d \in Days \ seed.todo : profile[Demo].hours[d] # None
  /\ seed.at \notin Kinds \cup {"hours"} => seed.todo = {}

SamplesFit == sample = [kind \in Kinds |-> sample[kind]] /\ \A kind \in Kinds : sample[kind] \subseteq SeedRows(kind)
SeedDone == HasProfile(Demo) /\ HoursFull /\ \A kind \in Kinds : Full(kind)
SeedFit == Underway /\ Reached(seed.at) /\ SamplesFit /\ ("seed" \in ran => SeedDone)

LEMMA RowsAre == \A at : SeedRows(at) \subseteq Samples
BY SamplesAssumption DEF SeedRows

LEMMA Begins ==
  ASSUME NEW at \in Stages, seed' = SeedAt(at)
  PROVE  Underway' /\ seed'.at = at
BY DEF SeedAt, Underway, Stages, Kinds

LEMMA SeedStays ==
  ASSUME SamplesFit, Grows, SamplesFit', \A kind \in Kinds : sample[kind] \subseteq sample'[kind]
  PROVE  (\A at : Reached(at) => Reached(at)') /\ (SeedDone => SeedDone')
<1>1. \A kind \in Kinds : Full(kind) => Full(kind)'
  BY DEF SamplesFit, Full
<1>2. (HasProfile(Demo) => HasProfile(Demo)') /\ (HoursFull => HoursFull')
  BY DemoAssumption DEF Grows, HoursFull
<1> QED BY <1>1, <1>2 DEF Reached, SeedDone, Kinds

LEMMA SeedIdles ==
  ASSUME SeedFit, Grows, UNCHANGED sample, ran' = ran \/ "seed" \notin ran' \ ran,
         UNCHANGED seed \/ (\E at \in {"org", "end"} : seed' = SeedAt(at))
  PROVE  SeedFit'
<1>1. SamplesFit'
  BY DEF SeedFit, SamplesFit
<1>2. (\A at : Reached(at) => Reached(at)') /\ (SeedDone => SeedDone')
  BY <1>1, SeedStays DEF SeedFit
<1>3. "seed" \in ran' => SeedDone'
  BY <1>2 DEF SeedFit
<1>4. CASE UNCHANGED seed
  <2>1. \A d \in Days : profile[Demo].hours[d] # None => profile'[Demo].hours[d] # None
    BY DemoAssumption DEF Grows
  <2>2. Underway'
    BY <1>4, <2>1 DEF SeedFit, Underway
  <2> QED BY <1>1, <1>2, <1>3, <1>4, <2>2 DEF SeedFit
<1>5. ASSUME NEW at \in {"org", "end"}, seed' = SeedAt(at) PROVE SeedFit'
  <2>1. Underway' /\ seed'.at = at
    BY <1>5, Begins DEF Stages
  <2>2. Reached(seed.at)'
    BY <1>5, <2>1 DEF Reached, Kinds
  <2> QED BY <1>1, <1>3, <2>1, <2>2 DEF SeedFit
<1> QED BY <1>4, <1>5

LEMMA SeedRuns ==
  ASSUME SeedFit, StoredOK, Grows, Seed
  PROVE  SeedFit'
<1>1. ASSUME SamplesFit', \A kind \in Kinds : sample[kind] \subseteq sample'[kind], UNCHANGED ran,
             Underway', Reached(seed.at)'
      PROVE  SeedFit'
  BY <1>1, SeedStays DEF SeedFit
<1>2. profile \in [Names -> ProfileRow] /\ Demo \in Names /\ Seeded # None
  BY DemoAssumption, NoneAssumption DEF StoredOK, Seeded
<1>3. UNCHANGED sample => SamplesFit' /\ \A kind \in Kinds : sample[kind] \subseteq sample'[kind]
  BY DEF SeedFit, SamplesFit
<1>4. CASE SeedOrg
  <2>1. Underway' /\ seed'.at = "business"
    BY <1>4, Begins DEF SeedOrg, Stages
  <2>2. Reached(seed.at)'
    BY <2>1 DEF Reached, Kinds
  <2> QED BY <1>1, <1>3, <1>4, <2>1, <2>2 DEF SeedOrg
<1>5. CASE SeedBusiness
  <2>1. Underway' /\ seed'.at = "services"
    BY <1>5, Begins DEF SeedBusiness, Stages, Kinds
  <2>2. HasProfile(Demo)'
    BY <1>2, <1>5 DEF SeedBusiness, HasProfile, ProfileRow
  <2>3. Reached(seed.at)'
    BY <2>1, <2>2 DEF Reached, Kinds
  <2> QED BY <1>1, <1>3, <1>5, <2>1, <2>3 DEF SeedBusiness
<1>6. CASE SeedRow
  <2>1. PICK x, at, rest :
          /\ x \in seed.todo /\ at = seed.at /\ rest = seed.todo \ {x}
          /\ IF at = "hours"
             THEN /\ profile' = [profile EXCEPT ![Demo].hours[x] = IF @ = None THEN Seeded ELSE @]
                  /\ UNCHANGED sample
             ELSE /\ sample' = [sample EXCEPT ![at] = @ \cup {x}]
                  /\ UNCHANGED profile
          /\ seed' = IF rest = {} THEN SeedAt(After[at]) ELSE [seed EXCEPT !.todo = rest]
          /\ ran' = IF rest = {} /\ After[at] = "end" THEN ran \cup {"seed"} ELSE ran
    BY <1>6 DEF SeedRow
  <2>2. at \in Kinds \cup {"hours"} /\ After[at] \in Stages
    BY <2>1, SMTT(30) DEF SeedFit, Underway, After, Stages, Kinds
  <2>3. SamplesFit' /\ (\A kind \in Kinds : sample[kind] \subseteq sample'[kind])
        /\ (at \in Kinds => SeedRows(at) \ rest \subseteq sample'[at] /\ rest \subseteq SeedRows(at))
    <3>1. CASE at = "hours"
      BY <1>3, <2>1, <3>1 DEF Kinds
    <3>2. CASE at \in Kinds
      <4>1. sample' = [sample EXCEPT ![at] = @ \cup {x}] /\ x \in SeedRows(at)
        BY <2>1, <3>2 DEF SeedFit, Underway, Kinds
      <4>2. DOMAIN sample = Kinds
        BY DEF SeedFit, SamplesFit
      <4>3. SamplesFit' /\ \A kind \in Kinds : sample[kind] \subseteq sample'[kind]
        BY <3>2, <4>1, <4>2 DEF SeedFit, SamplesFit
      <4>4. SeedRows(at) \ rest \subseteq sample'[at] /\ rest \subseteq SeedRows(at)
        BY <2>1, <3>2, <4>1, <4>2 DEF SeedFit, Underway
      <4> QED BY <4>3, <4>4
    <3> QED BY <2>2, <3>1, <3>2
  <2>4. at = "hours" => rest \subseteq Days /\ \A d \in Days \ rest : profile'[Demo].hours[d] # None
    <3>1. \A d \in Days : profile[Demo].hours[d] # None => profile'[Demo].hours[d] # None
      BY <1>2 DEF Grows
    <3>2. at = "hours" => x \in Days /\ profile'[Demo].hours[x] # None
      BY <1>2, <2>1 DEF ProfileRow, SeedFit, Underway
    <3> QED BY <2>1, <3>1, <3>2 DEF SeedFit, Underway
  <2>5. (\A y : Reached(y) => Reached(y)') /\ (SeedDone => SeedDone')
    BY <2>3, SeedStays DEF SeedFit
  <2>6. Reached(at)'
    BY <2>1, <2>5 DEF SeedFit
  <2>7. CASE rest # {}
    <3>1. seed' = [seed EXCEPT !.todo = rest] /\ UNCHANGED ran /\ seed'.at = at /\ seed'.todo = rest
          /\ DOMAIN seed' = DOMAIN seed
      BY <2>1, <2>7 DEF SeedFit, Underway
    <3>2. Underway'
      BY <2>2, <2>3, <2>4, <3>1 DEF SeedFit, Underway, Stages, Kinds
    <3> QED BY <2>3, <2>5, <2>6, <3>1, <3>2 DEF SeedFit
  <2>8. CASE rest = {}
    <3>1. seed' = SeedAt(After[at]) /\ ran' = IF After[at] = "end" THEN ran \cup {"seed"} ELSE ran
      BY <2>1, <2>8
    <3>2. Underway' /\ seed'.at = After[at]
      BY <2>2, <3>1, Begins
    <3>3. (at \in Kinds => Full(at)') /\ (at = "hours" => HoursFull')
      BY <2>3, <2>4, <2>8 DEF SamplesFit, Full, HoursFull
    <3>4. Reached(After[at])'
      BY <2>2, <2>6, <3>3 DEF Reached, After, Kinds
    <3>5. After[at] = "end" => SeedDone'
      BY <2>2, <2>6, <3>3 DEF Reached, After, Kinds, SeedDone
    <3> QED BY <2>3, <2>5, <3>1, <3>2, <3>4, <3>5 DEF SeedFit
  <2> QED BY <2>7, <2>8
<1> QED BY <1>4, <1>5, <1>6 DEF Seed

-----------------------------------------------------------------------------
(* The other scripts, and the bounds.                                      *)

OwnerFit ==
  /\ owner \in {"idle", "sign-up", "add-member"}
  /\ owner # "idle" => Demo \in orgs
  /\ owner = "add-member" => account
  /\ "owner" \in ran => account /\ Demo \in member
SetupFit ==
  /\ setup \in {"idle", "plan", "find", "write"}
  /\ setup \in {"find", "write"} => plan[Demo] # None
  /\ "setup" \in ran => plan[Demo] # None /\ HasNumber(Demo)
RunsFit == ran \subseteq {"seed", "owner", "setup"} /\ starts \in Nat
UserFit == left \in Nat /\ account \in BOOLEAN /\ orgs \subseteq Names /\ member \subseteq orgs
CountsFit ==
  /\ faults \in 0 .. MaxFaults /\ calls \in [Names -> 0 .. MaxCalls]
  /\ ringing \subseteq {o \in Names : calls[o] < MaxCalls} /\ overlapped \subseteq Names
AroundFit == OwnerFit /\ SetupFit /\ RunsFit /\ UserFit /\ CountsFit

LEMMA FaultIs == ASSUME CountsFit, Fault PROVE faults' \in 0 .. MaxFaults
BY BoundsAssumption DEF CountsFit, Fault

LEMMA SpendIs == ASSUME UserFit, Spend PROVE left' \in Nat
BY DEF UserFit, Spend

(* Moves of the user: no script runs, and no organization is lost.         *)
UserGoes ==
  /\ left' \in Nat /\ faults' \in 0 .. MaxFaults /\ (account => account') /\ account' \in BOOLEAN
  /\ orgs \subseteq orgs' /\ orgs' \subseteq Names /\ member' \subseteq orgs' /\ member \subseteq member'

LEMMA PagesGo ==
  ASSUME UserFit, CountsFit, NEW t \in Tabs, Pages(t)
  PROVE  UserGoes
<1>1. UNCHANGED <<orgs, member>> /\ (left' = left \/ Spend) /\ (faults' = faults \/ Fault)
      /\ (account' = account \/ account' = TRUE)
  BY DEF Pages, Open, HearEnter, SignOut, SignUp, SignIn, SignInList, SignInChoose, SignStuck
<1>2. left' \in Nat /\ faults' \in 0 .. MaxFaults
  BY <1>1, FaultIs, SpendIs DEF UserFit, CountsFit
<1>3. account \in BOOLEAN
  BY DEF UserFit
<1>4. CASE UNCHANGED account
  BY <1>1, <1>2, <1>3, <1>4 DEF UserGoes, UserFit
<1>5. CASE account' = TRUE
  BY <1>1, <1>2, <1>5 DEF UserGoes, UserFit
<1> QED BY <1>1, <1>4, <1>5

LEMMA StepsGo ==
  ASSUME UserFit, CountsFit, TabsFit, NEW t \in Tabs, Steps(t)
  PROVE  UserGoes
<1>1. (left' = left \/ Spend) /\ (faults' = faults \/ Fault) /\ UNCHANGED account
  BY DEF Steps, HearStatus, SubmitDetails, CreateOrg, ActivateOrg, HearSave, SubmitPlan, HearPlan, HearLoad,
         ContinueForm, Pay, Paid, ConfirmRequest, HearProvision, GoToDashboard, Back, AskVerify, HearVerify,
         HearError
<1>2. UNCHANGED <<orgs, member>> \/ CreateOrg(t)
  BY DEF Steps, HearStatus, SubmitDetails, ActivateOrg, HearSave, SubmitPlan, HearPlan, HearLoad,
         ContinueForm, Pay, Paid, ConfirmRequest, HearProvision, GoToDashboard, Back, AskVerify, HearVerify,
         HearError
<1>3. CASE UNCHANGED <<orgs, member>>
  BY <1>1, <1>3, FaultIs, SpendIs DEF UserGoes, UserFit, CountsFit
<1>4. CASE CreateOrg(t)
  <2>1. PICK o : o = tab[t].form
    OBVIOUS
  <2>2. o \in Names
    BY <1>4, <2>1 DEF CreateOrg, TabsFit, TabFit, Placed
  <2>3. UNCHANGED <<orgs, member>> \/ (orgs' = orgs \cup {o} /\ member' = member \cup {o})
    BY <1>4, <2>1 DEF CreateOrg
  <2>4. orgs \subseteq orgs' /\ orgs' \subseteq Names /\ member' \subseteq orgs' /\ member \subseteq member'
    BY <2>2, <2>3 DEF UserFit
  <2>5. left' \in Nat /\ faults' \in 0 .. MaxFaults
    BY <1>1, FaultIs, SpendIs DEF UserFit, CountsFit
  <2> QED BY <1>1, <2>4, <2>5 DEF UserGoes, UserFit
<1> QED BY <1>2, <1>3, <1>4

LEMMA OwnerStays ==
  ASSUME OwnerFit, owner' \in {owner, "idle"}, account => account', orgs \subseteq orgs', member \subseteq member',
         "owner" \in ran' => "owner" \in ran
  PROVE  OwnerFit'
BY DEF OwnerFit

LEMMA SetupStays ==
  ASSUME SetupFit, Grows, setup' \in {setup, "idle", "plan"}, "setup" \in ran' => "setup" \in ran
  PROVE  SetupFit'
BY DemoAssumption DEF SetupFit, Grows

LEMMA UserAround ==
  ASSUME AroundFit, SeedFit, TabsFit, Grows, UserMoves
  PROVE  AroundFit' /\ SeedFit'
<1>1. UserGoes
  BY PagesGo, StepsGo DEF UserMoves, AroundFit
<1>2. UNCHANGED <<calls, ringing, overlapped, seed, sample, owner, setup, ran, starts>>
  BY DEF UserMoves, scripts
<1>3. SeedFit'
  BY <1>2, SeedIdles
<1>4. OwnerFit' /\ SetupFit'
  BY <1>1, <1>2, OwnerStays, SetupStays DEF AroundFit, UserGoes
<1>5. RunsFit' /\ UserFit' /\ CountsFit'
  BY <1>1, <1>2 DEF AroundFit, UserGoes, RunsFit, UserFit, CountsFit
<1> QED BY <1>3, <1>4, <1>5 DEF AroundFit

LEMMA ApiAround ==
  ASSUME AroundFit, SeedFit, RequestsFit, Grows, ApiServes
  PROVE  AroundFit' /\ SeedFit'
<1>1. UNCHANGED <<left, calls, ringing, account, orgs, member, seed, sample, owner, setup, ran, starts>>
  BY DEF ApiServes, browser, scripts
<1>2. SeedFit'
  BY <1>1, SeedIdles
<1>3. OwnerFit' /\ SetupFit'
  BY <1>1, OwnerStays, SetupStays DEF AroundFit
<1>4. PICK r \in Slots : ServeRest(r)
  BY DEF ApiServes
<1>5. faults' \in 0 .. MaxFaults
  <2>1. faults' = faults \/ Fault
    BY <1>4 DEF ServeRest, SaveDayFails, CallFails
  <2> QED BY <2>1, FaultIs DEF AroundFit, CountsFit
<1>6. overlapped' \subseteq Names
  <2>1. CASE ProvisionFind(r)
    <3>1. req[r].org \in Names
      BY <2>1 DEF ProvisionFind, Serving, RequestsFit, RequestOK
    <3> QED BY <2>1, <3>1 DEF ProvisionFind, Overlap, AroundFit, CountsFit
  <2>2. CASE UNCHANGED overlapped
    BY <2>2 DEF AroundFit, CountsFit
  <2> QED BY <1>4, <2>1, <2>2 DEF ServeRest, ProvisionWrite, Me
<1>7. RunsFit' /\ UserFit' /\ CountsFit'
  BY <1>1, <1>5, <1>6 DEF AroundFit, RunsFit, UserFit, CountsFit
<1> QED BY <1>2, <1>3, <1>7 DEF AroundFit

LEMMA FulfilmentAround ==
  ASSUME AroundFit, SeedFit, NumberInv, Grows, Fulfilment
  PROVE  AroundFit' /\ SeedFit'
<1>1. UNCHANGED <<left, faults, overlapped, account, orgs, member, seed, sample, owner, setup, ran, starts>>
  BY DEF Fulfilment, browser, scripts
<1>2. SeedFit'
  BY <1>1, SeedIdles
<1>3. OwnerFit' /\ SetupFit'
  BY <1>1, OwnerStays, SetupStays DEF AroundFit
<1>4. CountsFit'
  <2>1. CASE CallBegins
    BY <1>1, <2>1 DEF CallBegins, AroundFit, CountsFit
  <2>2. CASE CallEnds
    <3>1. PICK o \in ringing : /\ calls' = [calls EXCEPT ![o] = @ + 1] \/ UNCHANGED calls
                               /\ ringing' = ringing \ {o}
      BY <2>2 DEF CallEnds
    <3>2. /\ o \in Names /\ calls[o] < MaxCalls /\ calls \in [Names -> 0 .. MaxCalls]
          /\ ringing \subseteq {x \in Names : calls[x] < MaxCalls}
      BY <3>1 DEF AroundFit, CountsFit
    <3>3. calls' \in [Names -> 0 .. MaxCalls] /\ \A x \in Names \ {o} : calls'[x] = calls[x]
      BY <3>1, <3>2, BoundsAssumption
    <3>4. ringing' \subseteq {x \in Names : calls'[x] < MaxCalls}
      BY <3>1, <3>2, <3>3
    <3> QED BY <1>1, <3>3, <3>4 DEF AroundFit, CountsFit
  <2>3. CASE Staff /\ UNCHANGED <<calls, ringing>>
    BY <1>1, <2>3 DEF AroundFit, CountsFit
  <2> QED BY <2>1, <2>2, <2>3 DEF Fulfilment, Calls
<1>5. RunsFit' /\ UserFit'
  BY <1>1 DEF AroundFit, RunsFit, UserFit
<1> QED BY <1>2, <1>3, <1>4, <1>5 DEF AroundFit

(* The test account's script ends with a plan and a purchased number.      *)
LEMMA SetupGoes ==
  ASSUME SetupFit, Found, NumbersOK, Grows, StoredOK, overlapped \subseteq Names, Setup
  PROVE  SetupFit' /\ overlapped' \subseteq Names
<1>1. CASE SetupPlan
  <2>1. plan'[Demo] = Tier /\ setup' = "find" /\ UNCHANGED <<ran, overlapped>>
    BY <1>1, DemoAssumption DEF SetupPlan, StoredOK
  <2>2. plan'[Demo] # None
    BY <2>1, TierIs, PlansAssumption
  <2>3. "setup" \in ran => HasNumber(Demo)'
    BY DemoAssumption DEF SetupFit, Grows
  <2> QED BY <2>1, <2>2, <2>3 DEF SetupFit
<1>2. CASE SetupFind
  <2>1. plan'[Demo] # None /\ setup' = "write" /\ UNCHANGED ran /\ overlapped' \subseteq Names
    BY <1>2, DemoAssumption DEF SetupFind, SetupFit
  <2>2. "setup" \in ran => HasNumber(Demo)'
    BY DemoAssumption DEF SetupFit, Grows
  <2> QED BY <2>1, <2>2 DEF SetupFit
<1>3. CASE SetupWrite
  <2>1. /\ plan'[Demo] # None /\ setup' = "idle" /\ UNCHANGED overlapped /\ number[Demo] \in Seq(NumberRow)
        /\ hand \in {0} \cup DOMAIN number[Demo] /\ ran' \subseteq ran \cup {"setup"}
    BY <1>3, DemoAssumption DEF SetupWrite, SetupFit, Found, NumbersOK
  <2>2. HasNumber(Demo)'
    <3>1. CASE UNCHANGED number /\ \E i \in DOMAIN number[Demo] : number[Demo][i].status = "PURCHASED"
      BY <3>1 DEF HasNumber
    <3>2. CASE number' = [number EXCEPT ![Demo] =
                            IF hand = 0 THEN Append(@, NewRow("PURCHASED"))
                                        ELSE [@ EXCEPT ![hand].status = "PURCHASED"]]
      <4>1. CASE hand = 0
        <5>1. number' = [number EXCEPT ![Demo] = Append(@, NewRow("PURCHASED"))]
          BY <3>2, <4>1
        <5>2. SetsRow(Demo, Len(number[Demo]) + 1, NewRow("PURCHASED"))
          BY <5>1, RowAppended, NewRowOK, DemoAssumption DEF Status
        <5>3. NewRow("PURCHASED").status = "PURCHASED"
          BY DEF NewRow
        <5> QED BY <5>2, <5>3 DEF SetsRow, HasNumber
      <4>2. CASE hand # 0
        <5>1. hand \in DOMAIN number[Demo]
          BY <2>1, <4>2
        <5>2. number' = [number EXCEPT ![Demo] = [@ EXCEPT ![hand] = WithStatus(Demo, hand, "PURCHASED")]]
          BY <3>2, <4>2, <5>1 DEF WithStatus
        <5>3. number[Demo][hand] \in NumberRow
          BY <5>1, RowOK, DemoAssumption
        <5>4. WithStatus(Demo, hand, "PURCHASED") \in NumberRow /\ WithStatus(Demo, hand, "PURCHASED").status = "PURCHASED"
          BY <5>3 DEF WithStatus, NumberRow, Status
        <5>5. SetsRow(Demo, hand, WithStatus(Demo, hand, "PURCHASED"))
          BY <5>1, <5>2, <5>4, RowUpdated, DemoAssumption
        <5> QED BY <5>1, <5>4, <5>5 DEF SetsRow, HasNumber
      <4> QED BY <4>1, <4>2
    <3> QED BY <1>3, <3>1, <3>2 DEF SetupWrite
  <2> QED BY <2>1, <2>2 DEF SetupFit
<1> QED BY <1>1, <1>2, <1>3 DEF Setup

LEMMA ScriptsAround ==
  ASSUME AroundFit, SeedFit, NumberInv, StoredOK, Grows, ScriptRuns
  PROVE  AroundFit' /\ SeedFit'
<1>1. UNCHANGED <<left, faults, calls, ringing>> /\ OwnerFit /\ SetupFit /\ RunsFit /\ UserFit /\ CountsFit
  BY DEF ScriptRuns, browser, AroundFit
<1>2. CASE Seed /\ UNCHANGED <<overlapped, account, member, owner, setup, starts>>
  <2>1. orgs \subseteq orgs' /\ orgs' \subseteq Names /\ ran \subseteq ran' /\ ran' \subseteq ran \cup {"seed"}
    BY <1>1, <1>2, DemoAssumption DEF Seed, SeedOrg, SeedBusiness, SeedRow, UserFit
  <2>2. SeedFit'
    BY <1>2, SeedRuns
  <2>3. OwnerFit' /\ SetupFit'
    BY <1>1, <1>2, <2>1, OwnerStays, SetupStays
  <2>4. RunsFit' /\ UserFit' /\ CountsFit'
    BY <1>1, <1>2, <2>1 DEF RunsFit, UserFit, CountsFit
  <2> QED BY <2>2, <2>3, <2>4 DEF AroundFit
<1>3. CASE Owner /\ UNCHANGED <<overlapped, orgs, seed, sample, setup, starts>>
  <2>1. /\ OwnerFit' /\ account' \in BOOLEAN /\ member' \subseteq orgs
        /\ ran \subseteq ran' /\ ran' \subseteq ran \cup {"owner"}
    <3>1. CASE SignUpOwner
      <4>1. account' = TRUE /\ owner' \in {"idle", "add-member"} /\ Demo \in orgs /\ UNCHANGED <<member, ran>>
        BY <1>1, <3>1 DEF SignUpOwner, OwnerFit
      <4> QED BY <1>1, <1>3, <4>1 DEF OwnerFit, UserFit
    <3>2. CASE AddMember
      <4>1. /\ account /\ Demo \in orgs /\ UNCHANGED account /\ owner' = "idle"
            /\ member' = member \cup {Demo} /\ ran' = ran \cup {"owner"}
        BY <1>1, <3>2 DEF AddMember, OwnerFit
      <4> QED BY <1>1, <1>3, <4>1 DEF OwnerFit, UserFit
    <3> QED BY <1>3, <3>1, <3>2 DEF Owner
  <2>2. SeedFit' /\ SetupFit'
    BY <1>1, <1>3, <2>1, SeedIdles, SetupStays
  <2>3. RunsFit' /\ UserFit' /\ CountsFit'
    BY <1>1, <1>3, <2>1 DEF RunsFit, UserFit, CountsFit
  <2> QED BY <2>1, <2>2, <2>3 DEF AroundFit
<1>4. CASE Setup /\ UNCHANGED <<account, orgs, member, seed, sample, owner, starts>>
  <2>1. ran \subseteq ran' /\ ran' \subseteq ran \cup {"setup"}
    BY <1>4 DEF Setup, SetupPlan, SetupFind, SetupWrite
  <2>2. SetupFit' /\ overlapped' \subseteq Names
    BY <1>1, <1>4, SetupGoes DEF NumberInv, CountsFit
  <2>3. SeedFit' /\ OwnerFit'
    BY <1>1, <1>4, <2>1, SeedIdles, OwnerStays
  <2>4. RunsFit' /\ UserFit' /\ CountsFit'
    BY <1>1, <1>4, <2>1, <2>2 DEF RunsFit, UserFit, CountsFit
  <2> QED BY <2>2, <2>3, <2>4 DEF AroundFit
<1>5. CASE /\ StartScript \/ ScriptDies
           /\ UNCHANGED <<overlapped, account, orgs, member, sample, ran>>
  <2>1. /\ UNCHANGED seed \/ \E at \in {"org", "end"} : seed' = SeedAt(at)
        /\ owner' \in {owner, "idle"} \/ (owner' = "sign-up" /\ Demo \in orgs)
        /\ setup' \in {setup, "idle", "plan"}
        /\ starts' = starts - 1 /\ starts > 0
    BY <1>5 DEF StartScript, ScriptDies, SeedIdle
  <2>2. SeedFit' /\ SetupFit'
    BY <1>1, <1>5, <2>1, SeedIdles, SetupStays
  <2>3. OwnerFit'
    <3>1. CASE owner' \in {owner, "idle"}
      BY <1>1, <1>5, <3>1, OwnerStays
    <3>2. CASE owner' = "sign-up" /\ Demo \in orgs
      BY <1>1, <1>5, <3>2 DEF OwnerFit
    <3> QED BY <2>1, <3>1, <3>2
  <2>4. RunsFit' /\ UserFit' /\ CountsFit'
    BY <1>1, <1>5, <2>1 DEF RunsFit, UserFit, CountsFit
  <2> QED BY <2>2, <2>3, <2>4 DEF AroundFit
<1> QED BY <1>2, <1>3, <1>4, <1>5 DEF ScriptRuns

-----------------------------------------------------------------------------
WizardInv == NumberInv /\ TabInv /\ StoredOK /\ Browsing /\ AroundFit /\ SeedFit

LEMMA WizardStep ==
  ASSUME WizardInv, [Next]_vars
  PROVE  WizardInv'
<1>1. NumberInv' /\ TabInv'
  BY NumberStep, TabStep DEF WizardInv, Kept, TabsKept
<1>2. member \subseteq Names
  BY DEF WizardInv, AroundFit, UserFit
<1>3. Browsing' /\ StoredOK' /\ Grows
  BY <1>2, BrowsingStep DEF WizardInv
<1>4. AroundFit' /\ SeedFit'
  <2>1. CASE UserMoves
    BY <1>3, <2>1, UserAround DEF WizardInv, Browsing
  <2>2. CASE ApiServes
    BY <1>3, <2>2, ApiAround DEF WizardInv, Browsing
  <2>3. CASE Fulfilment
    BY <1>3, <2>3, FulfilmentAround DEF WizardInv
  <2>4. CASE ScriptRuns
    BY <1>3, <2>4, ScriptsAround DEF WizardInv
  <2>5. CASE UNCHANGED vars
    <3>1. UNCHANGED <<left, faults, calls, ringing, overlapped, account, orgs, member, seed, sample, owner,
                      setup, ran, starts>>
      BY <2>5 DEF vars, browser, stored, scripts
    <3>2. SeedFit'
      BY <3>1, <1>3, SeedIdles DEF WizardInv
    <3>3. OwnerFit' /\ SetupFit'
      BY <3>1, <1>3, OwnerStays, SetupStays DEF WizardInv, AroundFit
    <3>4. RunsFit' /\ UserFit' /\ CountsFit'
      BY <3>1 DEF WizardInv, AroundFit, RunsFit, UserFit, CountsFit
    <3> QED BY <3>2, <3>3, <3>4 DEF AroundFit
  <2> QED BY <2>1, <2>2, <2>3, <2>4, <2>5 DEF Next
<1> QED BY <1>1, <1>3, <1>4 DEF WizardInv

(* What the tabs of the initial states show.                               *)
LEMMA StartTabs ==
  ASSUME Init
  PROVE  TabsFit
<1>1. profile = [o \in Names |-> IF o \in orgs THEN Filled ELSE NoProfile] /\ Filled.name = Demo /\ Demo # None
  BY DemoAssumption, NoneAssumption DEF Init, Filled
<1>2. plan = [o \in Names |-> IF o \in orgs THEN Tier ELSE None] /\ Tier \in Plans /\ Tier # None
      /\ chosen = [o \in Names |-> IF o \in orgs THEN {Tier} ELSE {}]
  BY TierIs, PlansAssumption DEF Init
<1>3. Demo \in orgs => HasProfile(Demo) /\ plan[Demo] # None /\ Tier \in chosen[Demo]
  BY <1>1, <1>2, DemoAssumption DEF HasProfile
<1>4. {"none", "stuck"} \cap Waits = {} /\ Demo \in Org /\ {"AWAITING_APPROVAL"} \subseteq Status
  BY DemoAssumption DEF Waits, Org, Status
<1>5. \A page \in {"sign-in", "sign-up"} : \A active : TabFit(At(page), active)
  BY AtFits
<1>6. \A active : TabFit(Unused, active) /\ TabFit(Early, active)
  <2>1. PICK v : v = Unused
    OBVIOUS
  <2>2. v = [page |-> "sign-in", step |-> 0, hasOrg |-> FALSE, plan |-> None, org |-> None, moved |-> FALSE,
             form |-> None, stage |-> "form", shown |-> None, busy |-> "stuck"]
    BY <2>1 DEF At, Unused
  <2>3. v \in Tab
    BY <2>2 DEF Tab, Org
  <2>4. PICK w : w = Early
    OBVIOUS
  <2>5. w = [page |-> "new", step |-> 1, hasOrg |-> FALSE, plan |-> None, org |-> None, moved |-> FALSE,
             form |-> None, stage |-> "form", shown |-> None, busy |-> "none"]
    BY <2>4 DEF At, Early
  <2>6. w \in Tab
    BY <2>5 DEF Tab, Org
  <2>7. \A active : TabFit(v, active) /\ TabFit(w, active)
    BY <2>2, <2>3, <2>5, <2>6 DEF TabFit, Placed
  <2> QED BY <2>1, <2>4, <2>7
<1>7. ASSUME NEW step \in {1, 2, 3}, NEW shown \in {None, "AWAITING_APPROVAL"}, Demo \in orgs, NEW v,
             v = [AtNumber(shown) EXCEPT !.step = step] \/ (step = 3 /\ v = AtNumber(shown))
      PROVE  TabFit(v, Demo)
  <2>1. v = [page |-> "new", step |-> step, hasOrg |-> TRUE, plan |-> Tier, org |-> Demo, moved |-> FALSE,
             form |-> None, stage |-> "form", shown |-> shown, busy |-> "none"]
    BY <1>7, ZenonT(30) DEF AtNumber, At
  <2>2. v \in Tab
    BY <1>2, <1>4, <2>1 DEF Tab, Org
  <2> QED BY <1>3, <1>7, <2>1, <2>2, DemoAssumption DEF TabFit, Placed
<1>8. ASSUME NEW v, v = [At("dashboard") EXCEPT !.org = Demo], Demo \in orgs, HasNumber(Demo), NEW active
      PROVE  TabFit(v, active)
  <2>1. v = [page |-> "dashboard", step |-> 0, hasOrg |-> FALSE, plan |-> None, org |-> Demo, moved |-> FALSE,
             form |-> None, stage |-> "form", shown |-> None, busy |-> "none"]
    BY <1>8 DEF At
  <2>2. v \in Tab
    BY <1>4, <2>1 DEF Tab, Org
  <2> QED BY <1>3, <1>8, <2>1, <2>2, DemoAssumption DEF TabFit, Placed
<1>9. session \in Session /\ session.active \in {None, Demo}
  BY SessionsAre, DemoAssumption DEF Init, Starting, Nobody, Somebody, Org
<1>10. ASSUME NEW v, TabFit(v, session.active), OneTab(v) \/ EachTab(v)
       PROVE  tab = [t \in Tabs |-> tab[t]] /\ \A t \in Tabs : TabFit(tab[t], session.active)
  BY <1>6, <1>10 DEF OneTab, EachTab
<1>11. tab = [t \in Tabs |-> tab[t]] /\ \A t \in Tabs : TabFit(tab[t], session.active)
  <2>1. \/ OneTab(At("sign-up")) \/ OneTab(At("sign-in")) \/ EachTab(Unused)
        \/ /\ Demo \in orgs /\ session.active = Demo
           /\ \/ \E shown \in {None, "AWAITING_APPROVAL"} : EachTab(AtNumber(shown)) \/ OneTab(AtNumber(shown))
              \/ \E step \in {1, 3} : OneTab([AtNumber(None) EXCEPT !.step = step])
              \/ \E t \in Tabs : tab = [x \in Tabs |-> IF x = t THEN Early ELSE [AtNumber(None) EXCEPT !.step = 2]]
              \/ EachTab([At("dashboard") EXCEPT !.org = Demo]) /\ number[Demo] = <<NewRow("PURCHASED")>>
    BY SessionsAre, DemoAssumption DEF Init, Starting, Somebody, Org
  <2>2. CASE OneTab(At("sign-up")) \/ OneTab(At("sign-in")) \/ EachTab(Unused)
    BY <1>5, <1>6, <1>10, <2>2
  <2>3. ASSUME Demo \in orgs, session.active = Demo, NEW shown \in {None, "AWAITING_APPROVAL"},
               EachTab(AtNumber(shown)) \/ OneTab(AtNumber(shown))
        PROVE  tab = [t \in Tabs |-> tab[t]] /\ \A t \in Tabs : TabFit(tab[t], session.active)
    BY <1>7, <1>10, <2>3
  <2>4. ASSUME Demo \in orgs, session.active = Demo, NEW step \in {1, 3}, NEW v,
               v = [AtNumber(None) EXCEPT !.step = step], OneTab(v)
        PROVE  tab = [t \in Tabs |-> tab[t]] /\ \A t \in Tabs : TabFit(tab[t], session.active)
    BY <1>7, <1>10, <2>4
  <2>5. ASSUME Demo \in orgs, session.active = Demo, NEW v, v = [AtNumber(None) EXCEPT !.step = 2],
               NEW t \in Tabs, tab = [x \in Tabs |-> IF x = t THEN Early ELSE v]
        PROVE  tab = [x \in Tabs |-> tab[x]] /\ \A x \in Tabs : TabFit(tab[x], session.active)
    BY <1>6, <1>7, <2>5
  <2>6. ASSUME Demo \in orgs, session.active = Demo, NEW v, v = [At("dashboard") EXCEPT !.org = Demo],
               EachTab(v), number[Demo] = <<NewRow("PURCHASED")>>
        PROVE  tab = [t \in Tabs |-> tab[t]] /\ \A t \in Tabs : TabFit(tab[t], session.active)
    <3>1. HasNumber(Demo)
      BY <2>6 DEF HasNumber, NewRow
    <3> QED BY <1>8, <1>10, <2>6, <3>1
  <2> QED BY <2>1, <2>2, <2>3, <2>4, <2>5, <2>6
<1>12. \A t \in Tabs : tab[t] \in Tab
  BY <1>11 DEF TabFit
<1> QED BY <1>9, <1>11, <1>12 DEF TabsFit

LEMMA WizardInit == Init => WizardInv
<1> SUFFICES ASSUME Init PROVE WizardInv
  OBVIOUS
<1>1. NumberInv /\ TabInv
  BY NumberInit, TabInit
<1>2. StoredOK
  <2>1. NoProfile \in ProfileRow /\ Filled \in ProfileRow /\ Tier \in Plans
    BY TierIs, DemoAssumption DEF NoProfile, Filled, ProfileRow, NoHours, Org
  <2> QED BY <2>1, NoFormFits DEF Init, StoredOK
<1>3. Browsing
  <2>1. req = [r \in Slots |-> Free]
    BY DEF Init
  <2>2. RequestsFit
    BY <2>1, FreeFits DEF RequestsFit, RequestOK
  <2>3. Listens
    BY <2>1, FreeFits, NoneAssumption DEF Listens
  <2> QED BY <2>2, <2>3, StartTabs DEF Browsing
<1>4. AroundFit
  <2>1. orgs \subseteq Names /\ account \in BOOLEAN /\ left \in Nat /\ starts \in Nat /\ faults \in 0 .. MaxFaults
    <3>1. orgs \subseteq Names /\ account \in BOOLEAN
      BY DemoAssumption DEF Init, Starting, Nobody, Somebody
    <3>2. left \in {Moves + 1, Moves, 1, 0} /\ starts \in {0, 2, Starts} /\ faults \in {0, MaxFaults}
      BY DEF Init, Starting
    <3>3. Moves \in Nat /\ Starts \in Nat /\ MaxFaults \in Nat
      BY BoundsAssumption
    <3> QED BY <3>1, <3>2, <3>3
  <2>2. calls \in [Names -> 0 .. MaxCalls]
    BY BoundsAssumption DEF Init
  <2>3. ringing \subseteq {o \in Names : calls[o] < MaxCalls}
    BY DEF Init
  <2> QED BY <2>1, <2>2, <2>3 DEF Init, AroundFit, OwnerFit, SetupFit, RunsFit, UserFit, CountsFit
<1>5. SeedFit
  <2>1. seed = SeedAt("end") /\ sample = [kind \in Kinds |-> {}] /\ ran = {}
    BY DEF Init, SeedIdle
  <2> QED BY <2>1 DEF SeedFit, SeedAt, Underway, Reached, SamplesFit, Stages, Kinds
<1> QED BY <1>1, <1>2, <1>3, <1>4, <1>5 DEF WizardInv

LEMMA WizardAlways == Spec => []WizardInv
<1>1. WizardInv /\ [Next]_vars => WizardInv'
  BY WizardStep
<1> QED BY WizardInit, <1>1, PTL DEF Spec

-----------------------------------------------------------------------------
(* Every variable of the onboarding keeps its type: of the rows and        *)
(* requests among others, that what is written comes from what was sent.   *)
THEOREM OnboardingTypes == Spec => []TypeOK
<1>1. WizardInv => TypeOK
  <2> SUFFICES ASSUME WizardInv PROVE TypeOK
    OBVIOUS
  <2>1. session \in Session /\ req \in [Slots -> Request] /\ TabsTypeOK
    BY DEF WizardInv, Browsing, TabsFit, RequestsFit, TabsTypeOK, AroundFit, UserFit
  <2>2. ProfileTypeOK /\ OrganizationTypeOK
    BY DEF WizardInv, StoredOK, ProfileTypeOK, OrganizationTypeOK, AroundFit, UserFit
  <2>3. NumbersTypeOK /\ faults \in 0 .. MaxFaults
    <3>1. hand \in Nat \cup {None}
      <4>1. \A i \in DOMAIN number[Demo] : i \in Nat
        BY RowOK, DemoAssumption DEF WizardInv, NumberInv
      <4> QED BY <4>1 DEF WizardInv, NumberInv, Found
    <3> QED BY <3>1 DEF WizardInv, NumberInv, NumbersOK, NumbersTypeOK, AroundFit, CountsFit
  <2>4. ScriptsTypeOK
    <3>1. sample \in [Kinds -> SUBSET Samples]
      BY RowsAre DEF WizardInv, SeedFit, SamplesFit
    <3> QED BY <3>1 DEF WizardInv, SeedFit, Underway, Stages, AroundFit, OwnerFit, SetupFit, RunsFit, ScriptsTypeOK
  <2> QED BY <2>1, <2>2, <2>3, <2>4 DEF TypeOK
<1> QED BY <1>1, WizardAlways, PTL

(* A tab that the proxy let into the dashboard is one whose organization   *)
(* had a profile, a plan and a purchased number, though the status is read *)
(* in three calls with other tabs, staff and scripts in between.           *)
THEOREM DashboardComplete == Spec => []DashboardMeansComplete
<1>1. WizardInv => DashboardMeansComplete
  BY DEF WizardInv, Browsing, TabsFit, TabFit, DashboardMeansComplete, HasProfile, HasNumber
<1> QED BY <1>1, WizardAlways, PTL

(* On a later step of the wizard the earlier ones are stored for the       *)
(* organization the tab is at, whatever the other tabs do meanwhile.       *)
THEOREM WizardInOrder == Spec => []StepsInOrder
<1>1. WizardInv => StepsInOrder
  BY DEF WizardInv, Browsing, TabsFit, TabFit, Tab, StepsInOrder, HasProfile
<1> QED BY <1>1, WizardAlways, PTL

(* Once each script has run to its end the test account is set up, in      *)
(* whatever order they ran and whatever runs died before.                  *)
THEOREM TestAccountReady == Spec => []DemoReady
<1>1. WizardInv => DemoReady
  BY DEF WizardInv, SeedFit, SeedDone, HoursFull, Full, AroundFit, OwnerFit, SetupFit, DemoReady, HasProfile, HasNumber
<1> QED BY <1>1, WizardAlways, PTL
=============================================================================
