--------------------------- MODULE DashboardProofs ---------------------------
(***************************************************************************)
(* What the dashboard shows while something loads, of the calls and their  *)
(* volume, what it knows of edits, and what the settings page shows as     *)
(* saved, for any tables, logs, forms, ranges, failures and number of      *)
(* moves and saves.                                                        *)
(***************************************************************************)
EXTENDS ListProofs, SequenceTheorems

-----------------------------------------------------------------------------
(* The charts.                                                             *)

ChartsFields ==
  /\ {"range", "shown", "data", "blank"} \subseteq DOMAIN charts
  /\ {"at", "range", "todo"} \subseteq DOMAIN summary
  /\ summary.todo \subseteq Queries

(* A summary under way, or answered and not heard, is of the chosen range. *)
SummaryOfRange ==
  summary.at \in {"sent", "running", "ok", "error"} => summary.range = charts.range

ChartsInv == ChartsFields /\ SummaryOfRange /\ ChartsFollowRange

LEMMA ChartsOpen ==
  ASSUME NEW page, charts' = ChartsOpened, summary' = FirstSummary(page)
  PROVE  ChartsInv'
BY DEF ChartsInv, ChartsFields, SummaryOfRange, ChartsFollowRange, ChartsOpened,
       FirstSummary, AskSummary, SummaryClosed, NoSummary

LEMMA ChartsStep ==
  ASSUME ChartsInv, [Next]_vars
  PROVE  ChartsInv'
<1> USE DEF ChartsInv
<1>1. ASSUME UNCHANGED <<charts, summary>> PROVE ChartsInv'
  BY <1>1 DEF ChartsFields, SummaryOfRange, ChartsFollowRange
<1>2. ASSUME NEW t \in Tabs, Navigate(t) PROVE ChartsInv'
  <2>1. PICK page \in DashboardPages : Open(page, t)
    BY <1>2 DEF Navigate
  <2> QED BY <2>1, ChartsOpen DEF Open
<1>3. ASSUME NEW t \in Tabs, SignOut(t) PROVE ChartsInv'
  BY <1>3, ChartsOpen DEF SignOut, Open
<1>15. CASE StartSummary
  BY <1>15 DEF StartSummary, ChartsFields, SummaryOfRange, ChartsFollowRange
<1>4. CASE ServeQuery
  BY <1>4 DEF ServeQuery, ChartsFields, Queries, SummaryOfRange, ChartsFollowRange
<1>5. CASE ReportFails
  BY <1>5 DEF ReportFails, ChartsFields, SummaryOfRange, ChartsFollowRange
<1>6. CASE Log
  BY <1>6 DEF Log, ChartsFields, SummaryOfRange, ChartsFollowRange
<1>7. CASE HearSummary
  BY <1>7 DEF HearSummary, ChartsFields, SummaryOfRange, ChartsFollowRange, ChartsShown, NoSummary
<1>8. CASE RetryCharts
  BY <1>8 DEF RetryCharts, AskSummary, NoSummary, ChartsFields, SummaryOfRange, ChartsFollowRange
<1>9. CASE SelectRange
  <2>1. PICK range \in Ranges :
          /\ charts' = [ChartsOpened EXCEPT !.range = range,
                                         !.blank = (range = charts.range /\ summary.at = "none")]
          /\ summary' = IF range = charts.range THEN summary ELSE AskSummary(range)
    BY <1>9 DEF SelectRange
  <2>2. /\ {"range", "shown", "data", "blank"} \subseteq DOMAIN charts'
        /\ charts'.range = range /\ charts'.shown = "skeleton"
        /\ charts'.blank = (range = charts.range /\ summary.at = "none")
    BY <2>1 DEF ChartsOpened
  <2>3. CASE range = charts.range
    BY <2>1, <2>2, <2>3 DEF ChartsFields, SummaryOfRange, ChartsFollowRange
  <2>4. CASE range # charts.range
    BY <2>1, <2>2, <2>4
       DEF AskSummary, NoSummary, ChartsFields, SummaryOfRange, ChartsFollowRange
  <2> QED BY <2>3, <2>4
<1>10. CASE OnReports
  <2>1. Tick \/ ServeCalls \/ HearCalls \/ RetryCalls \/ SelectCall \/ CloseCall => ChartsInv'
    BY <1>1 DEF Tick, ServeCalls, HearCalls, RetryCalls, SelectCall, CloseCall
  <2> QED BY <1>10, <2>1, <1>15, <1>4, <1>5, <1>6, <1>7, <1>8, <1>9 DEF OnReports
<1>11. ASSUME NEW t \in Tabs, OnSettings(t) PROVE ChartsInv'
  BY <1>11, <1>1 DEF OnSettings, Reports
<1>12. CASE OnBookings
  BY <1>12, <1>1 DEF OnBookings, Reports
<1>13. CASE ServeSaves
  BY <1>13, <1>1 DEF ServeSaves, Reports
<1>14. CASE UNCHANGED vars
  BY <1>14, <1>1 DEF vars
<1> QED BY <1>2, <1>3, <1>10, <1>11, <1>12, <1>13, <1>14 DEF Next

(* The charts shown are of the chosen range, and their skeleton means that *)
(* they are under way (ChartsFollowRange).                                 *)
THEOREM ChartsCorrect == Spec => []ChartsFollowRange
<1>1. Init => ChartsInv
  BY DEF Init, ChartsInv, ChartsFields, SummaryOfRange, ChartsFollowRange, ChartsOpened,
         FirstSummary, AskSummary, SummaryClosed, NoSummary
<1>2. ChartsInv => ChartsFollowRange
  BY DEF ChartsInv
<1> QED BY <1>1, <1>2, ChartsStep, PTL DEF Spec

-----------------------------------------------------------------------------
(* The list of bookings.                                                   *)

ViewFields ==
  /\ {"loaded", "blank", "search", "debounced"} \subseteq DOMAIN view
  /\ "at" \in DOMAIN load

SkeletonInv == ViewFields /\ SkeletonIsLoading

LEMMA SkeletonStep ==
  ASSUME SkeletonInv, [Next]_vars
  PROVE  SkeletonInv'
<1> USE DEF SkeletonInv
<1>1. ASSUME UNCHANGED <<view, load>> PROVE SkeletonInv'
  BY <1>1 DEF ViewFields, SkeletonIsLoading
<1>2. ASSUME NEW page, view' = Opened, load' = FirstLoad(page) PROVE SkeletonInv'
  BY <1>2 DEF ViewFields, SkeletonIsLoading, Opened, FirstLoad, Asked, Closed, Request0
<1>3. ASSUME NEW t \in Tabs, Navigate(t) PROVE SkeletonInv'
  <2>1. PICK page \in DashboardPages : Open(page, t)
    BY <1>3 DEF Navigate
  <2> QED BY <2>1, <1>2 DEF Open
<1>4. ASSUME NEW t \in Tabs, SignOut(t) PROVE SkeletonInv'
  BY <1>4, <1>2 DEF SignOut, Open
<1>5. ASSUME NEW v, Reload(v), {"loaded", "blank", "search", "debounced"} \subseteq DOMAIN v
      PROVE  SkeletonInv'
  BY <1>5 DEF Reload, Asked, Request0, ViewFields, SkeletonIsLoading
<1>6. CASE ChooseScope \/ ChooseStatus
  BY <1>5, <1>6 DEF ChooseScope, ChooseStatus, ViewFields
<1>7. CASE Type
  BY <1>7 DEF Type, ViewFields, SkeletonIsLoading
<1>8. CASE Debounce
  <2> DEFINE v == [view EXCEPT !.typing = FALSE, !.debounced = view.search]
  <2>1. CASE view.debounced # view.search
    <3>1. Reload(v)
      BY <1>8, <2>1 DEF Debounce
    <3>2. {"loaded", "blank", "search", "debounced"} \subseteq DOMAIN v
      BY DEF ViewFields
    <3> QED BY <3>1, <3>2, <1>5
  <2>2. CASE view.debounced = view.search
    BY <1>8, <2>2 DEF Debounce, ViewFields, SkeletonIsLoading
  <2> QED BY <2>1, <2>2
<1>9. CASE Retry
  BY <1>5, <1>9 DEF Retry, ViewFields
<1>10. CASE ToastExpires \/ Select \/ CloseDialog \/ ChangeStatus
  BY <1>10 DEF ToastExpires, Select, CloseDialog, ChangeStatus, ViewFields, SkeletonIsLoading
<1>11. CASE ServeLists
  <2>1. load' \in Answers(load) => load'.at = "ok" /\ DOMAIN load' = DOMAIN load
    BY DEF Answers, ViewFields
  <2>2. UNCHANGED view
    BY <1>11 DEF ServeLists
  <2>3. \/ load' \in Answers(load) \/ load' = [load EXCEPT !.at = "error"] \/ UNCHANGED load
    BY <1>11 DEF ServeLists
  <2> HIDE DEF Answers
  <2> QED BY <2>1, <2>2, <2>3, <1>11 DEF ServeLists, ViewFields, SkeletonIsLoading
<1>12. CASE HearLoad
  BY <1>12 DEF HearLoad, Request0, ViewFields, SkeletonIsLoading
<1>13. CASE LoadMore \/ HearMore
  BY <1>13 DEF LoadMore, HearMore, ViewFields, SkeletonIsLoading
<1>14. CASE HearPatch
  BY <1>14 DEF HearPatch, ViewFields, SkeletonIsLoading
<1>15. CASE OnBookings
  <2>1. ServePatch \/ OthersChange => SkeletonInv'
    BY <1>1 DEF ServePatch, OthersChange
  <2> QED BY <1>15, <2>1, <1>6, <1>7, <1>8, <1>9, <1>10, <1>11, <1>12, <1>13, <1>14
          DEF OnBookings, BookingsNext
<1>16. CASE OnReports
  BY <1>16, <1>1 DEF OnReports, Bookings
<1>17. ASSUME NEW t \in Tabs, OnSettings(t) PROVE SkeletonInv'
  BY <1>17, <1>1 DEF OnSettings, Bookings
<1>18. CASE ServeSaves
  BY <1>18, <1>1 DEF ServeSaves, Bookings
<1>19. CASE UNCHANGED vars
  BY <1>19, <1>1 DEF vars
<1> QED BY <1>3, <1>4, <1>15, <1>16, <1>17, <1>18, <1>19 DEF Next

(* The skeleton of the bookings page means that a load is under way, but   *)
(* for the timer that runs on an unchanged text (SkeletonIsLoading).       *)
THEOREM SkeletonCorrect == Spec => []SkeletonIsLoading
<1>1. Init => SkeletonInv
  BY DEF Init, SkeletonInv, ViewFields, SkeletonIsLoading, Opened, FirstLoad, Asked, Closed, Request0
<1>2. SkeletonInv => SkeletonIsLoading
  BY DEF SkeletonInv
<1> QED BY <1>1, <1>2, SkeletonStep, PTL DEF Spec

-----------------------------------------------------------------------------
(* The settings.                                                           *)

IsForm(f) == f = Form(f.details, f.numbers, f.hours)

SettingsFields ==
  /\ {"form", "loaded", "loadError", "saved", "saveError", "dirty", "submitting", "sent", "base",
      "late", "crossed", "others"} \subseteq DOMAIN settings
  /\ IsForm(settings.form)

(* A form not changed since its save was sent is what was sent.            *)
SentUnchanged == settings.submitting /\ ~settings.late => settings.form = settings.sent

FormOnSettings == settings.loaded => open = "settings"

EditsInv == SettingsFields /\ SentUnchanged /\ FormOnSettings /\ CleanIsUntouched

LEMMA ChangedForms ==
  ASSUME NEW f, IsForm(f), NEW x, NEW d
  PROVE  /\ IsForm([f EXCEPT !.details = x])
         /\ IsForm([f EXCEPT !.hours[d] = x])
         /\ IsForm([f EXCEPT !.numbers = x])
         /\ [f EXCEPT !.numbers = f.numbers] = f
BY DEF IsForm, Form

(* What is stored changes nothing of the page.                             *)
PageKept ==
  /\ DOMAIN settings' = DOMAIN settings
  /\ settings'.form = settings.form /\ settings'.loaded = settings.loaded
  /\ settings'.loadError = settings.loadError /\ settings'.saved = settings.saved
  /\ settings'.dirty = settings.dirty /\ settings'.submitting = settings.submitting
  /\ settings'.sent = settings.sent /\ settings'.base = settings.base
  /\ settings'.late = settings.late /\ settings'.crossed = settings.crossed
  /\ settings'.saveError = settings.saveError

LEMMA ServedForm ==
  ASSUME SettingsFields, ServeSaves
  PROVE  PageKept
<1>1. UNCHANGED settings => PageKept
  BY DEF PageKept
<1>2. ASSUME NEW r \in Slots, NoteStored(r) PROVE PageKept
  <2> DEFINE old == settings.others
             new == StoredNow(r)
             parts == IF req[r].from # None
                     THEN [name |-> old.name /\ ~new.name, numbers |-> old.numbers /\ ~new.numbers,
                           hours |-> old.hours \ new.hours]
                     ELSE [name |-> old.name \/ new.name, numbers |-> old.numbers \/ new.numbers,
                           hours |-> old.hours \cup new.hours]
  <2>1. settings' = settings \/ settings' = [settings EXCEPT !.others = parts]
    BY <1>2 DEF NoteStored
  <2> HIDE DEF parts
  <2> QED BY <2>1 DEF PageKept, SettingsFields
<1> QED BY <1>1, <1>2 DEF ServeSaves

LEMMA SettingsStep ==
  ASSUME EditsInv, [Next]_vars
  PROVE  EditsInv'
<1> USE DEF EditsInv
<1>1. ASSUME UNCHANGED <<settings, open>> PROVE EditsInv'
  BY <1>1 DEF SettingsFields, SentUnchanged, FormOnSettings, CleanIsUntouched
<1>2. ASSUME NEW page, NEW t, Open(page, t) PROVE EditsInv'
  BY <1>2 DEF Open, SettingsOpened, NoForm, IsForm, Form, SettingsFields, SentUnchanged,
              FormOnSettings, CleanIsUntouched
<1>3. ASSUME NEW t \in Tabs, Navigate(t) \/ SignOut(t) PROVE EditsInv'
  BY <1>3, <1>2 DEF Navigate, SignOut
<1>4. CASE HearLoadedProfile /\ open = "settings" /\ open' = open
  <2>1. PICK i \in DOMAIN loads :
          settings' = IF loads[i].at = "error" THEN [settings EXCEPT !.loadError = TRUE]
                      ELSE [settings EXCEPT !.form = ToForm(loads[i].row), !.base = ToForm(loads[i].row),
                                            !.loaded = TRUE, !.loadError = FALSE,
                                            !.crossed = settings.loaded, !.late = settings.submitting]
    BY <1>4 DEF HearLoadedProfile
  <2>2. IsForm(ToForm(loads[i].row))
    BY DEF ToForm, IsForm, Form
  <2> QED BY <2>1, <2>2, <1>4 DEF SettingsFields, SentUnchanged, FormOnSettings, CleanIsUntouched
<1>5. ASSUME NEW form, IsForm(form), settings' = Edited(form), UNCHANGED open PROVE EditsInv'
  BY <1>5 DEF Edited, SettingsFields, SentUnchanged, FormOnSettings, CleanIsUntouched
<1>6. CASE (UpdateDetails \/ UpdateAuthorityNumbers) /\ UNCHANGED open
  BY <1>5, <1>6, ChangedForms DEF UpdateDetails, UpdateAuthorityNumbers, SettingsFields
<1>7. ASSUME NEW t, SaveProfile(t), UNCHANGED open PROVE EditsInv'
  BY <1>7 DEF SaveProfile, SettingsFields, SentUnchanged, FormOnSettings, CleanIsUntouched
<1>8. ASSUME NEW t, HearSaved(t), UNCHANGED open PROVE EditsInv'
  <2> DEFINE v == [settings EXCEPT !.submitting = FALSE, !.late = FALSE]
             form == [settings.form EXCEPT !.numbers = settings.sent.numbers]
  <2>1. \/ settings' = [v EXCEPT !.form.numbers = settings.sent.numbers, !.base = settings.sent,
                                 !.saved = TRUE, !.dirty = FALSE, !.crossed = settings.late]
        \/ settings' = [v EXCEPT !.saveError = TRUE]
    BY <1>8 DEF HearSaved
  <2>2. IsForm(form) /\ (settings.form = settings.sent => form = settings.sent)
    BY ChangedForms DEF SettingsFields
  <2>3. CASE settings' = [v EXCEPT !.saveError = TRUE]
    BY <1>8, <2>3 DEF SettingsFields, SentUnchanged, FormOnSettings, CleanIsUntouched
  <2>4. CASE settings' = [v EXCEPT !.form.numbers = settings.sent.numbers, !.base = settings.sent,
                                   !.saved = TRUE, !.dirty = FALSE, !.crossed = settings.late]
    <3>1. settings'.form = form
      BY <2>4 DEF SettingsFields
    <3>2. /\ DOMAIN settings' = DOMAIN settings
          /\ settings'.loaded = settings.loaded /\ settings'.submitting = FALSE
          /\ settings'.crossed = settings.late /\ settings'.base = settings.sent
      BY <2>4 DEF SettingsFields
    <3>3. settings.submitting
      BY <1>8 DEF HearSaved
    <3> HIDE DEF v, form
    <3> QED BY <3>1, <3>2, <3>3, <2>2, <1>8
            DEF SettingsFields, SentUnchanged, FormOnSettings, CleanIsUntouched
  <2> QED BY <2>1, <2>3, <2>4
<1>9. ASSUME NEW t, LoseSave(t), UNCHANGED open PROVE EditsInv'
  BY <1>9 DEF LoseSave, SettingsFields, SentUnchanged, FormOnSettings, CleanIsUntouched
<1>10. ASSUME NEW t \in Tabs, OnSettings(t) PROVE EditsInv'
  <2>1. open = "settings" /\ UNCHANGED open
    BY <1>10 DEF OnSettings, Shell
  <2>2. ServeLoad \/ LoadProfile \/ OthersSave => EditsInv'
    BY <2>1, <1>1 DEF ServeLoad, LoadProfile, OthersSave
  <2> QED BY <1>10, <2>1, <2>2, <1>4, <1>6, <1>7, <1>8, <1>9 DEF OnSettings
<1>11. CASE OnBookings \/ OnReports
  BY <1>11, <1>1 DEF OnBookings, OnReports, Shell, Editing
<1>12. CASE ServeSaves
  <2>1. PageKept /\ UNCHANGED open
    BY <1>12, ServedForm DEF ServeSaves, Shell
  <2> QED BY <2>1 DEF PageKept, SettingsFields, SentUnchanged, FormOnSettings, CleanIsUntouched
<1>13. CASE UNCHANGED vars
  BY <1>13, <1>1 DEF vars
<1> QED BY <1>3, <1>10, <1>11, <1>12, <1>13 DEF Next

LEMMA SettingsInit == Init => EditsInv
BY DEF Init, EditsInv, SettingsOpened, NoForm, IsForm, Form, SettingsFields, SentUnchanged,
       FormOnSettings, CleanIsUntouched

(* A form that does not count as edited holds what was last loaded or      *)
(* stored, unless an answer has crossed with edits (CleanIsUntouched).     *)
THEOREM CleanCorrect == Spec => []CleanIsUntouched
<1>1. EditsInv => CleanIsUntouched
  BY DEF EditsInv
<1> QED BY <1>1, SettingsInit, SettingsStep, PTL DEF Spec

(* Edits never go with the settings page unasked (EditsGoKnowingly).       *)
THEOREM EditsKept == Spec => EditsGoKnowingly
<1> DEFINE WasAsked == settings.loaded /\ ~settings'.loaded /\ settings.form # settings.base =>
                       confirmed' \/ ~session'.signed \/ settings.crossed
<1>1. ASSUME EditsInv, Next PROVE WasAsked
  <2> SUFFICES ASSUME settings.loaded, ~settings'.loaded, settings.form # settings.base,
                      ~settings.crossed
               PROVE  confirmed' \/ ~session'.signed
    OBVIOUS
  <2>1. settings.dirty /\ open = "settings"
    BY <1>1 DEF EditsInv, FormOnSettings, CleanIsUntouched
  <2>2. ASSUME NEW t \in Tabs, Navigate(t) PROVE confirmed'
    BY <2>1, <2>2 DEF Navigate, AsksToLeave
  <2>3. ASSUME NEW t \in Tabs, SignOut(t) PROVE ~session'.signed
    BY <2>3 DEF SignOut, SignedOut
  <2>4. settings' # settings
    OBVIOUS
  <2>5. ASSUME NEW t \in Tabs, OnSettings(t) PROVE FALSE
    <3>1. settings'.loaded
      BY <1>1, <2>4, <2>5
         DEF OnSettings, ServeLoad, HearLoadedProfile, HearSaved, LoseSave, LoadProfile, UpdateDetails,
             UpdateAuthorityNumbers, SaveProfile, OthersSave, Edited, EditsInv, SettingsFields
    <3> QED BY <3>1
  <2>6. ~(OnBookings \/ OnReports)
    BY <2>4 DEF OnBookings, OnReports, Editing
  <2>7. ~ServeSaves
    BY <1>1, ServedForm DEF EditsInv, PageKept
  <2> QED BY <1>1, <2>2, <2>3, <2>5, <2>6, <2>7 DEF Next
<1>2. EditsInv /\ [Next]_vars => [WasAsked]_vars
  BY <1>1
<1> QED BY <1>2, SettingsInit, SettingsStep, PTL DEF Spec, EditsGoKnowingly

-----------------------------------------------------------------------------
(* Settings: the page, its saves and those of others.                      *)

SaveFields ==
  {"kind", "from", "org", "arg", "numbers", "hours", "at", "row", "todo", "answer"}

Sent(q) == Form(q.arg, q.numbers, q.hours)

(* Of a request: it is a save of the organization, and runs on after it    *)
(* was answered only if one of its days' upserts failed.                   *)
RequestOK(q) ==
  /\ SaveFields \subseteq DOMAIN q
  /\ q.kind \in {"free", "save"} /\ q.from \in Tabs \cup {None}
  /\ q.kind = "save" => q.org = Home
  /\ q.kind = "free" => q.from = None
  /\ q.todo \subseteq HourDays(q.hours)
  /\ q.answer # "none" => q.at = "end"
  /\ q.answer = "ok" \/ (q.answer = "none" /\ q.at # "days") => q.todo = {}

RequestsOK == DOMAIN req = Slots /\ \A r \in Slots : RequestOK(req[r])

(* The page listens to one request, the save it has sent and waits for.    *)
ListensToOne ==
  /\ \A r \in Slots : req[r].from # None => settings.submitting
  /\ \A r1, r2 \in Slots : req[r1].from # None /\ req[r2].from # None => r1 = r2
  /\ \A r \in Slots : req[r].from # None /\ req[r].answer \in {"none", "ok"} => Sent(req[r]) = settings.sent

(* These parts of a stored profile are the form's, but for what others     *)
(* have stored.                                                            *)
Keeps(stored, others, form, parts) ==
  /\ parts.name => stored.name = form.details \/ others.name
  /\ parts.numbers => stored.numbers = form.numbers \/ others.numbers
  /\ \A d \in parts.hours : stored.hours[d] = form.hours[d] \/ d \in others.hours

Whole(form) == [name |-> TRUE, numbers |-> TRUE, hours |-> HourDays(form.hours)]

(* What a save has stored so far.                                          *)
HasStored(q) ==
  [name |-> q.at \notin {"find", "write"}, numbers |-> q.at \in {"read", "end"},
   hours |-> IF q.at \in {"find", "write"} THEN {} ELSE HourDays(q.hours) \ q.todo]

LEMMA StoredLater ==
  ASSUME NEW q, q.at \notin {"find", "write"}
  PROVE  /\ HasStored(q).name /\ (HasStored(q).numbers <=> q.at \in {"read", "end"})
         /\ HasStored(q).hours = HourDays(q.hours) \ q.todo
<1> DEFINE days == IF q.at \in {"find", "write"} THEN {} ELSE HourDays(q.hours) \ q.todo
<1>1. days = HourDays(q.hours) \ q.todo
  OBVIOUS
<1> HIDE DEF days
<1>2. HasStored(q) = [name |-> q.at \notin {"find", "write"}, numbers |-> q.at \in {"read", "end"},
                      hours |-> days]
  BY DEF HasStored, days
<1>3. HasStored(q).hours = days
  BY <1>2
<1>4. HasStored(q).name /\ (HasStored(q).numbers <=> q.at \in {"read", "end"})
  BY DEF HasStored
<1> QED BY <1>1, <1>3, <1>4

Parts == [name : BOOLEAN, numbers : BOOLEAN, hours : SUBSET Days]

ProfileShape ==
  /\ DOMAIN profile = Names
  /\ {"name", "numbers", "hours"} \subseteq DOMAIN profile[Home]
  /\ Days \subseteq DOMAIN profile[Home].hours

(* Of the page's save under way, what it has stored stays, unless others   *)
(* store it again.                                                         *)
OwnKept ==
  \A r \in Slots :
    req[r].from # None /\ req[r].answer \in {"none", "ok"} =>
      Keeps(profile[Home], settings.others, settings.sent, HasStored(req[r]))

SavedKept ==
  /\ settings.saved /\ ~settings.crossed =>
       Keeps(profile[Home], settings.others, settings.form, Whole(settings.form))
  /\ settings.saved \/ settings.submitting => settings.loaded
  /\ settings.saved => ~settings.submitting

SessionKept ==
  /\ session = SignedInto(Home) \/ open = "sign-in"
  /\ open = "sign-in" => settings = SettingsOpened

StoreInv ==
  /\ RequestsOK /\ ListensToOne /\ ProfileShape /\ settings.others \in Parts
  /\ OwnKept /\ SavedKept /\ SessionKept

-----------------------------------------------------------------------------
(* Storing                                                                 *)

(* From one state of the stored profile to another, by a step that stores  *)
(* some parts of a form.                                                   *)
Storing(stored, stored2, form, new) ==
  /\ IF new.name THEN stored2.name = form.details ELSE stored2.name = stored.name
  /\ IF new.numbers THEN stored2.numbers = form.numbers ELSE stored2.numbers = stored.numbers
  /\ \A d \in Days :
       IF d \in new.hours THEN stored2.hours[d] = form.hours[d] ELSE stored2.hours[d] = stored.hours[d]

With(old, new) ==
  [name |-> old.name \/ new.name, numbers |-> old.numbers \/ new.numbers,
   hours |-> old.hours \cup new.hours]
Without(old, new) ==
  [name |-> old.name /\ ~new.name, numbers |-> old.numbers /\ ~new.numbers,
   hours |-> old.hours \ new.hours]

(* What others store, of whatever form, is noted as theirs.                *)
LEMMA KeptFromOthers ==
  ASSUME NEW stored, NEW stored2, NEW others \in Parts, NEW new \in Parts, NEW theirs,
         NEW form, NEW parts \in Parts,
         Keeps(stored, others, form, parts), Storing(stored, stored2, theirs, new)
  PROVE  Keeps(stored2, With(others, new), form, parts)
BY DEF Keeps, Storing, With, Parts

(* What the page's own save stores is its form's.                          *)
LEMMA KeptAsSent ==
  ASSUME NEW stored, NEW stored2, NEW others \in Parts, NEW new \in Parts,
         NEW form, NEW parts \in Parts, NEW parts2 \in Parts,
         Keeps(stored, others, form, parts), Storing(stored, stored2, form, new),
         parts2.name => parts.name \/ new.name, parts2.numbers => parts.numbers \/ new.numbers,
         parts2.hours \subseteq parts.hours \cup new.hours
  PROVE  Keeps(stored2, Without(others, new), form, parts2)
BY DEF Keeps, Storing, Without, Parts

LEMMA PartsTypes ==
  /\ \A old, new \in Parts : With(old, new) \in Parts /\ Without(old, new) \in Parts
  /\ \A q : HasStored(q) \in Parts
  /\ \A form : Whole(form) \in Parts
  /\ NoPart \in Parts
BY DEF Parts, With, Without, HasStored, Whole, NoPart, HourDays

-----------------------------------------------------------------------------
(* A step of a save that is being served: it runs on or ends.              *)
Serves(q, u) ==
  /\ RequestOK(u)
  /\ \/ u.from = None
     \/ /\ u.from = q.from /\ Sent(u) = Sent(q)
        /\ u.answer \in {"none", "ok"} => q.answer = "none"

LEMMA FreeOK == RequestOK(Free) /\ Free.from = None /\ Free.at = "end" /\ Free.todo = {}
BY DEF RequestOK, Free, SaveFields

LEMMA SettledOK ==
  ASSUME NEW q, RequestOK(q)
  PROVE  /\ RequestOK(Settled(q)) /\ (Settled(q) = q \/ Settled(q) = Free)
         /\ Settled(q).from = q.from /\ Settled(q).at = q.at /\ Settled(q).todo = q.todo
BY FreeOK DEF Settled, RequestOK

LEMMA SettledServes ==
  ASSUME NEW q, NEW u, Serves(q, u)
  PROVE  Serves(q, Settled(u))
BY FreeOK, SettledOK DEF Serves

(* One that stores nothing, and that the page does not hear well of.       *)
LEMMA OneServed ==
  ASSUME StoreInv, NEW r \in Slots, NEW u, Serves(req[r], u), req' = [req EXCEPT ![r] = u],
         u.from # None => u.answer \notin {"none", "ok"},
         UNCHANGED <<settings, profile, session, open>>
  PROVE  StoreInv'
<1>1. /\ DOMAIN req' = Slots /\ req'[r] = u
      /\ \A x \in Slots \ {r} : req'[x] = req[x]
  BY DEF StoreInv, RequestsOK
<1>2. RequestsOK'
  BY <1>1 DEF StoreInv, RequestsOK, Serves
<1>3. ListensToOne'
  BY <1>1 DEF StoreInv, ListensToOne, Serves
<1>4. OwnKept'
  BY <1>1 DEF StoreInv, OwnKept
<1>5. (ProfileShape /\ SavedKept /\ SessionKept)'
  BY DEF StoreInv, ProfileShape, SavedKept, SessionKept
<1> QED BY <1>2, <1>3, <1>4, <1>5 DEF StoreInv

(* One that stores some of its form and is noted.                          *)
LEMMA OneStores ==
  ASSUME StoreInv, EditsInv, NEW r \in Slots, NEW u, Serves(req[r], u), req' = [req EXCEPT ![r] = u],
         NoteStored(r), PageKept, StoredNow(r) \in Parts, ProfileShape',
         Storing(profile[Home], profile'[Home], Sent(req[r]), StoredNow(r)),
         u.from # None /\ u.answer \in {"none", "ok"} =>
           /\ HasStored(u).name => HasStored(req[r]).name \/ StoredNow(r).name
           /\ HasStored(u).numbers => HasStored(req[r]).numbers \/ StoredNow(r).numbers
           /\ HasStored(u).hours \subseteq HasStored(req[r]).hours \cup StoredNow(r).hours,
         UNCHANGED <<session, open>>
  PROVE  StoreInv'
<1> DEFINE new == StoredNow(r)
           old == settings.others
<1>1. /\ DOMAIN req' = Slots /\ req'[r] = u
      /\ \A x \in Slots \ {r} : req'[x] = req[x]
  BY DEF StoreInv, RequestsOK
<1>2. RequestsOK'
  BY <1>1 DEF StoreInv, RequestsOK, Serves
<1>3. ListensToOne'
  BY <1>1 DEF StoreInv, ListensToOne, Serves, PageKept
<1>4. settings.submitting \/ settings.saved =>
        settings'.others = IF req[r].from # None THEN Without(old, new) ELSE With(old, new)
  BY DEF NoteStored, With, Without, EditsInv, SettingsFields
<1>5. ~settings.submitting /\ ~settings.saved => settings' = settings
  BY DEF NoteStored
<1>6. old \in Parts /\ settings'.others \in Parts
  BY <1>4, <1>5, PartsTypes DEF StoreInv
<1>7. OwnKept'
  <2> SUFFICES ASSUME NEW x \in Slots, req'[x].from # None, req'[x].answer \in {"none", "ok"}
               PROVE  Keeps(profile'[Home], settings'.others, settings.sent, HasStored(req'[x]))
    BY DEF OwnKept, PageKept, HasStored
  <2>1. CASE x = r
    <3>1. u.from = req[r].from /\ req[r].from # None /\ req[r].answer = "none"
      BY <1>1, <2>1 DEF Serves
    <3>2. settings.submitting /\ Sent(req[r]) = settings.sent
      BY <3>1 DEF StoreInv, ListensToOne
    <3>3. Keeps(profile[Home], old, settings.sent, HasStored(req[r]))
      BY <3>1 DEF StoreInv, OwnKept
    <3>4. settings'.others = Without(old, new)
      BY <1>4, <3>1, <3>2
    <3>5. /\ HasStored(u).name => HasStored(req[r]).name \/ new.name
          /\ HasStored(u).numbers => HasStored(req[r]).numbers \/ new.numbers
          /\ HasStored(u).hours \subseteq HasStored(req[r]).hours \cup new.hours
      BY <1>1, <2>1
    <3>6. Storing(profile[Home], profile'[Home], settings.sent, new)
      BY <3>2
    <3>7. HasStored(u) \in Parts /\ HasStored(req[r]) \in Parts
      BY PartsTypes
    <3> HIDE DEF new, old
    <3>8. Keeps(profile'[Home], Without(old, new), settings.sent, HasStored(u))
      BY <3>3, <3>5, <3>6, <3>7, <1>6, KeptAsSent DEF new
    <3> QED BY <3>4, <3>8, <1>1, <2>1
  <2>2. CASE x # r
    <3>1. req[x].from # None /\ req[x].answer \in {"none", "ok"} /\ req'[x] = req[x]
      BY <1>1, <2>2
    <3>2. settings.submitting /\ req[r].from = None
      BY <3>1, <2>2 DEF StoreInv, ListensToOne
    <3>3. Keeps(profile[Home], old, settings.sent, HasStored(req[x]))
      BY <3>1 DEF StoreInv, OwnKept
    <3>4. settings'.others = With(old, new)
      BY <1>4, <3>2
    <3>5. HasStored(req[x]) \in Parts
      BY PartsTypes
    <3> HIDE DEF old
    <3> QED BY <3>1, <3>3, <3>4, <3>5, <1>6, KeptFromOthers
  <2> QED BY <2>1, <2>2
<1>8. SavedKept'
  <2>1. CASE ~settings.saved
    BY <2>1 DEF StoreInv, SavedKept, PageKept
  <2>2. CASE settings.saved
    <3>1. req[r].from = None
      BY <2>2 DEF StoreInv, SavedKept, ListensToOne
    <3>2. settings'.others = With(old, new)
      BY <1>4, <2>2, <3>1
    <3>3. Whole(settings.form) \in Parts
      BY PartsTypes
    <3>4. ~settings.crossed => Keeps(profile[Home], old, settings.form, Whole(settings.form))
      BY <2>2 DEF StoreInv, SavedKept
    <3> HIDE DEF old
    <3>5. ~settings.crossed => Keeps(profile'[Home], settings'.others, settings.form, Whole(settings.form))
      BY <3>2, <3>3, <3>4, <1>6, KeptFromOthers
    <3>6. settings'.form = settings.form /\ settings'.crossed = settings.crossed
      BY DEF PageKept
    <3>7. Whole(settings'.form) = Whole(settings.form)
      BY <3>6
    <3> QED BY <3>5, <3>6, <3>7 DEF StoreInv, SavedKept, PageKept
  <2> QED BY <2>1, <2>2
<1>9. SessionKept'
  BY <1>5 DEF StoreInv, SessionKept, SettingsOpened
<1> QED BY <1>2, <1>3, <1>6, <1>7, <1>8, <1>9 DEF StoreInv

LEMMA Errs ==
  ASSUME NEW q, RequestOK(q)
  PROVE  LET failed == [q EXCEPT !.answer = "error", !.at = "end"]
             ended == [q EXCEPT !.answer = "error", !.at = "end", !.todo = {}]
         IN  /\ Serves(q, failed) /\ failed.answer = "error"
             /\ Serves(q, ended) /\ ended.answer = "error"
BY DEF Serves, RequestOK, Sent, SaveFields, Form

LEMMA FailStep ==
  ASSUME StoreInv, NEW r \in Slots, SaveDayFails(r) \/ CallFails(r),
         UNCHANGED <<settings, profile, session, open>>
  PROVE  StoreInv'
<1> DEFINE q == req[r]
<1>1. RequestOK(q) /\ DOMAIN req = Slots
  BY DEF StoreInv, RequestsOK
<1>2. ASSUME NEW u, Serves(q, u), u.answer = "error", req' = [req EXCEPT ![r] = Settled(u)]
      PROVE  StoreInv'
  <2>1. Serves(q, Settled(u)) /\ (Settled(u).from # None => Settled(u).answer = "error")
    BY <1>2, SettledServes, SettledOK, FreeOK DEF Serves
  <2> QED BY <2>1, <1>2, OneServed
<1>3. CASE SaveDayFails(r)
  <2>1. PICK d \in q.todo :
          req' = [req EXCEPT ![r] = Settled([@ EXCEPT !.todo = q.todo \ {d}, !.at = "end", !.answer = "error"])]
    BY <1>3 DEF SaveDayFails
  <2> DEFINE u == [q EXCEPT !.todo = q.todo \ {d}, !.at = "end", !.answer = "error"]
  <2>2. req' = [req EXCEPT ![r] = Settled(u)]
    BY <2>1, <1>1
  <2>3. Serves(q, u) /\ u.answer = "error"
    BY <1>1 DEF Serves, RequestOK, Sent, SaveFields, Form
  <2> HIDE DEF u
  <2> QED BY <2>2, <2>3, <1>2
<1>4. CASE CallFails(r)
  <2> DEFINE u == [q EXCEPT !.answer = "error", !.at = "end", !.todo = {}]
  <2>1. req' = [req EXCEPT ![r] = Settled(u)]
    BY <1>4, <1>1 DEF CallFails
  <2>2. Serves(q, u) /\ u.answer = "error"
    BY <1>1, Errs
  <2> HIDE DEF u
  <2> QED BY <2>1, <2>2, <1>2
<1> QED BY <1>3, <1>4

-----------------------------------------------------------------------------
(* The steps that store                                                    *)

(* What OneStores asks of a step of save r, to u.                          *)
ServedTo(r, u) ==
  /\ Serves(req[r], u) /\ req' = [req EXCEPT ![r] = u]
  /\ StoredNow(r) \in Parts /\ ProfileShape'
  /\ Storing(profile[Home], profile'[Home], Sent(req[r]), StoredNow(r))
  /\ u.from # None /\ u.answer \in {"none", "ok"} =>
       /\ HasStored(u).name => HasStored(req[r]).name \/ StoredNow(r).name
       /\ HasStored(u).numbers => HasStored(req[r]).numbers \/ StoredNow(r).numbers
       /\ HasStored(u).hours \subseteq HasStored(req[r]).hours \cup StoredNow(r).hours

LEMMA FindServes ==
  ASSUME RequestsOK, ProfileShape, NEW r \in Slots, SaveFind(r)
  PROVE  \E u : ServedTo(r, u)
<1> DEFINE q == req[r]
           u == [q EXCEPT !.at = "write", !.row = IF profile[q.org].name = None THEN 0 ELSE 1]
<1>1. RequestOK(q) /\ DOMAIN req = Slots
  BY DEF RequestsOK
<1>2. req' = [req EXCEPT ![r] = u] /\ UNCHANGED profile /\ q.at = "find" /\ q.answer = "none"
  BY <1>1 DEF SaveFind, Serving
<1>3. Serves(q, u) /\ u.at = "write" /\ u.todo = {} /\ q.todo = {}
  BY <1>1, <1>2 DEF Serves, RequestOK, Sent, SaveFields, Form
<1>4. req'[r] = u
  BY <1>1, <1>2
<1> HIDE DEF u
<1>5. StoredNow(r) = [name |-> FALSE, numbers |-> FALSE, hours |-> {}]
  BY <1>2, <1>3, <1>4 DEF StoredNow
<1>6. ProfileShape' /\ Storing(profile[Home], profile'[Home], Sent(q), StoredNow(r))
  BY <1>2, <1>5 DEF ProfileShape, Storing
<1>7. ~HasStored(u).name /\ ~HasStored(u).numbers /\ HasStored(u).hours = {}
  BY <1>3 DEF HasStored
<1>8. StoredNow(r) \in Parts
  BY <1>5 DEF Parts
<1> QED BY <1>2, <1>3, <1>6, <1>7, <1>8 DEF ServedTo

LEMMA WriteServes ==
  ASSUME RequestsOK, ProfileShape, NEW r \in Slots, SaveWrite(r)
  PROVE  \E u : ServedTo(r, u)
<1> DEFINE q == req[r]
<1>1. RequestOK(q) /\ DOMAIN req = Slots
  BY DEF RequestsOK
<1>2. q.kind = "save" /\ q.org = Home /\ q.at = "write" /\ q.answer = "none" /\ q.todo = {}
  BY <1>1 DEF SaveWrite, Serving, RequestOK
<1>3. CASE Reply(r, "error") /\ UNCHANGED profile
  <2> DEFINE u == Answered(r, "error")
             w == [q EXCEPT !.answer = "error", !.at = "end"]
  <2>1. u = Settled(w) /\ req' = [req EXCEPT ![r] = u]
    BY <1>3 DEF Answered, Reply
  <2>2. Serves(q, w) /\ w.answer = "error" /\ w.at = "end" /\ w.todo = {}
    BY <1>1, <1>2, Errs DEF RequestOK, SaveFields
  <2> HIDE DEF u, w
  <2>3. /\ Serves(q, u) /\ u.at = "end" /\ u.todo = {}
        /\ u.from # None => u.answer = "error"
    BY <2>1, <2>2, SettledServes, SettledOK, FreeOK DEF Serves
  <2>4. StoredNow(r) = [name |-> FALSE, numbers |-> FALSE, hours |-> {}]
    BY <1>1, <1>2, <2>1, <2>3 DEF StoredNow
  <2>5. ProfileShape' /\ Storing(profile[Home], profile'[Home], Sent(q), StoredNow(r))
    BY <1>3, <2>4 DEF ProfileShape, Storing
  <2>6. StoredNow(r) \in Parts
    BY <2>4 DEF Parts
  <2> QED BY <2>1, <2>3, <2>5, <2>6 DEF ServedTo
<1>4. CASE ~(Reply(r, "error") /\ UNCHANGED profile)
  <2> DEFINE u == [q EXCEPT !.at = IF HourDays(q.hours) = {} THEN "numbers" ELSE "days",
                            !.todo = HourDays(q.hours)]
  <2>1. /\ req' = [req EXCEPT ![r] = u]
        /\ profile' = [profile EXCEPT ![Home].name = q.arg]
    BY <1>1, <1>2, <1>4 DEF SaveWrite
  <2>2. /\ Serves(q, u) /\ u.at \in {"numbers", "days"} /\ u.todo = HourDays(q.hours)
        /\ u.hours = q.hours
    BY <1>1, <1>2 DEF Serves, RequestOK, Sent, SaveFields, Form
  <2> HIDE DEF u
  <2>3. StoredNow(r) = [name |-> TRUE, numbers |-> FALSE, hours |-> {}]
    BY <1>1, <1>2, <2>1, <2>2 DEF StoredNow
  <2>4. ProfileShape' /\ Storing(profile[Home], profile'[Home], Sent(q), StoredNow(r))
    BY <2>1, <2>3, HomeAssumption DEF ProfileShape, Storing, Sent, Form
  <2>5. /\ ~HasStored(u).numbers /\ StoredNow(r).name
        /\ HasStored(u).hours = HourDays(u.hours) \ u.todo
    BY <2>2, <2>3, StoredLater
  <2>7. HasStored(u).hours = {}
    BY <2>2, <2>5
  <2>6. StoredNow(r) \in Parts
    BY <2>3 DEF Parts
  <2> QED BY <2>1, <2>2, <2>4, <2>5, <2>7, <2>6 DEF ServedTo
<1> QED BY <1>3, <1>4

LEMMA DayServes ==
  ASSUME RequestsOK, ProfileShape, NEW r \in Slots, SaveDay(r)
  PROVE  \E u : ServedTo(r, u)
<1> DEFINE q == req[r]
<1>1. RequestOK(q) /\ DOMAIN req = Slots
  BY DEF RequestsOK
<1>2. PICK d \in q.todo :
        /\ q.kind = "save"
        /\ profile' = [profile EXCEPT ![q.org].hours[d] = q.hours[d]]
        /\ req' = [req EXCEPT ![r] =
                    Settled([@ EXCEPT !.todo = q.todo \ {d},
                                      !.at = IF q.at = "days" /\ q.todo = {d} THEN "numbers" ELSE q.at])]
  BY DEF SaveDay
<1> DEFINE w == [q EXCEPT !.todo = q.todo \ {d},
                          !.at = IF q.at = "days" /\ q.todo = {d} THEN "numbers" ELSE q.at]
           u == Settled(w)
<1>3. req' = [req EXCEPT ![r] = u] /\ q.org = Home /\ d \in Days /\ d \in HourDays(q.hours)
  BY <1>1, <1>2 DEF RequestOK, HourDays
<1>4. q.at \in {"days", "end"}
  BY <1>1, <1>2 DEF RequestOK
<1>5. /\ Serves(q, w) /\ w.todo = q.todo \ {d} /\ w.hours = q.hours
      /\ w.at \in {"days", "numbers", "end"}
      /\ w.at = "end" => q.at = "end"
      /\ w.at # "read"
  BY <1>1, <1>2, <1>4 DEF Serves, RequestOK, Sent, SaveFields, Form
<1> HIDE DEF w
<1>6. /\ Serves(q, u) /\ u.todo = q.todo \ {d} /\ u.at = w.at
      /\ u.from # None => u = w
  BY <1>5, SettledServes, SettledOK, FreeOK DEF Serves
<1> HIDE DEF u
<1>7. StoredNow(r) = [name |-> FALSE, numbers |-> FALSE, hours |-> {d}]
  BY <1>1, <1>2, <1>3, <1>4, <1>6 DEF StoredNow
<1>8. /\ ProfileShape'
      /\ \A x \in Days : profile'[Home].hours[x] = IF x = d THEN q.hours[d] ELSE profile[Home].hours[x]
      /\ profile'[Home].name = profile[Home].name /\ profile'[Home].numbers = profile[Home].numbers
  BY <1>2, <1>3, HomeAssumption DEF ProfileShape
<1>9. Storing(profile[Home], profile'[Home], Sent(q), StoredNow(r))
  BY <1>7, <1>8 DEF Storing, Sent, Form
<1>10. StoredNow(r) \in Parts
  BY <1>3, <1>7 DEF Parts
<1>11. ASSUME u.from # None
       PROVE  /\ HasStored(u).name => HasStored(q).name
              /\ HasStored(u).numbers => HasStored(q).numbers
              /\ HasStored(u).hours \subseteq HasStored(q).hours \cup {d}
  BY <1>4, <1>5, <1>6, <1>11 DEF HasStored
<1>12. StoredNow(r).hours = {d}
  BY <1>7
<1>13. ServedTo(r, u)
  BY <1>3, <1>6, <1>8, <1>9, <1>10, <1>11, <1>12 DEF ServedTo
<1> QED BY <1>13

LEMMA NumbersServes ==
  ASSUME RequestsOK, ProfileShape, NEW r \in Slots, SaveNumbers(r)
  PROVE  \E u : ServedTo(r, u)
<1> DEFINE q == req[r]
           u == [q EXCEPT !.at = "read"]
<1>1. RequestOK(q) /\ DOMAIN req = Slots
  BY DEF RequestsOK
<1>2. /\ req' = [req EXCEPT ![r] = u] /\ q.at = "numbers" /\ q.answer = "none" /\ q.todo = {}
      /\ q.org = Home /\ profile' = [profile EXCEPT ![Home].numbers = q.numbers]
  BY <1>1 DEF SaveNumbers, Serving, RequestOK
<1>3. Serves(q, u) /\ u.at = "read" /\ u.todo = {} /\ u.hours = q.hours
  BY <1>1, <1>2 DEF Serves, RequestOK, Sent, SaveFields, Form
<1> HIDE DEF u
<1>4. StoredNow(r) = [name |-> FALSE, numbers |-> TRUE, hours |-> {}]
  BY <1>1, <1>2, <1>3 DEF StoredNow
<1>5. ProfileShape' /\ Storing(profile[Home], profile'[Home], Sent(q), StoredNow(r))
  BY <1>2, <1>4, HomeAssumption DEF ProfileShape, Storing, Sent, Form
<1>6. StoredNow(r) \in Parts
  BY <1>4 DEF Parts
<1>7. HasStored(q).name /\ StoredNow(r).numbers
  BY <1>2, <1>4, StoredLater
<1>8. HasStored(u).hours = HourDays(u.hours) \ u.todo /\ HasStored(q).hours = HourDays(q.hours) \ q.todo
  BY <1>2, <1>3, StoredLater
<1> QED BY <1>2, <1>3, <1>5, <1>6, <1>7, <1>8 DEF ServedTo

LEMMA AnswerServes ==
  ASSUME RequestsOK, ProfileShape, NEW r \in Slots, SaveAnswers(r)
  PROVE  \E u : ServedTo(r, u)
<1> DEFINE q == req[r]
           w == [q EXCEPT !.answer = "ok", !.at = "end"]
           u == Settled(w)
<1>1. RequestOK(q) /\ DOMAIN req = Slots
  BY DEF RequestsOK
<1>2. /\ req' = [req EXCEPT ![r] = u] /\ q.at = "read" /\ q.answer = "none" /\ q.todo = {}
      /\ UNCHANGED profile
  BY <1>1 DEF SaveAnswers, Serving, RequestOK, Reply, Answered
<1>3. Serves(q, w) /\ w.at = "end" /\ w.todo = {} /\ w.hours = q.hours
  BY <1>1, <1>2 DEF Serves, RequestOK, Sent, SaveFields, Form
<1> HIDE DEF w
<1>4. Serves(q, u) /\ u.at = "end" /\ u.todo = {} /\ (u.from # None => u = w)
  BY <1>3, SettledServes, SettledOK, FreeOK DEF Serves
<1> HIDE DEF u
<1>5. StoredNow(r) = [name |-> FALSE, numbers |-> FALSE, hours |-> {}]
  BY <1>1, <1>2, <1>4 DEF StoredNow
<1>6. ProfileShape' /\ Storing(profile[Home], profile'[Home], Sent(q), StoredNow(r))
  BY <1>2, <1>5 DEF ProfileShape, Storing
<1>7. StoredNow(r) \in Parts
  BY <1>5 DEF Parts
<1>8. /\ HasStored(q).name /\ HasStored(q).numbers
      /\ u.from # None => HasStored(u).hours = HasStored(q).hours
  BY <1>2, <1>3, <1>4 DEF HasStored
<1> QED BY <1>2, <1>4, <1>6, <1>7, <1>8 DEF ServedTo

LEMMA ServeStep ==
  ASSUME StoreInv, EditsInv, NEW r \in Slots, ServeProfile(r), NoteStored(r), PageKept,
         UNCHANGED <<session, open>>
  PROVE  StoreInv'
<1>1. RequestsOK /\ ProfileShape
  BY DEF StoreInv
<1>2. \E u : ServedTo(r, u)
  BY <1>1, FindServes, WriteServes, DayServes, NumbersServes, AnswerServes DEF ServeProfile
<1> QED BY <1>2, OneStores DEF ServedTo

LEMMA SignedSession ==
  /\ SignedInto(Home).active = Home
  /\ Guard(SignedInto(Home)) = "none"
BY HomeAssumption, NoneAssumption DEF SignedInto, Guard

(* Others save: a request that nobody here listens to.                     *)
LEMMA OthersStep ==
  ASSUME StoreInv, OthersSave, open = "settings", UNCHANGED <<session, open>>
  PROVE  StoreInv'
<1>1. PICK form \in Theirs, r \in Slots :
        req' = [req EXCEPT ![r] =
                 [Ask("save", "find") EXCEPT !.org = session.active, !.arg = form.details,
                                             !.numbers = form.numbers, !.hours = form.hours]]
  BY DEF OthersSave
<1> DEFINE u == [Ask("save", "find") EXCEPT !.org = session.active, !.arg = form.details,
                                            !.numbers = form.numbers, !.hours = form.hours]
<1>2. session.active = Home
  BY SignedSession DEF StoreInv, SessionKept
<1>3. RequestOK(u) /\ u.from = None
  BY <1>2 DEF RequestOK, Ask, Free, SaveFields
<1> HIDE DEF u
<1>4. req' = [req EXCEPT ![r] = u] /\ UNCHANGED <<settings, profile>>
  BY <1>1 DEF u, OthersSave
<1> QED BY <1>3, <1>4, OneServed DEF Serves

-----------------------------------------------------------------------------
(* The tab stops listening.                                                *)

LEMMA UnheardOK ==
  ASSUME RequestsOK, NEW t \in Tabs
  PROVE  /\ DOMAIN Unheard(t) = Slots
         /\ \A r \in Slots : Unheard(t)[r].from = None /\ RequestOK(Unheard(t)[r])
<1>1. DOMAIN Unheard(t) = Slots
  BY DEF Unheard
<1>2. ASSUME NEW r \in Slots PROVE Unheard(t)[r].from = None /\ RequestOK(Unheard(t)[r])
  <2>1. RequestOK(req[r]) /\ req[r].from \in Tabs \cup {None}
    BY DEF RequestsOK, RequestOK
  <2>2. req[r].from = t \/ req[r].from = None
    BY <2>1, TabAssumption
  <2>3. CASE req[r].from = t
    <3> DEFINE u == [req[r] EXCEPT !.from = None]
    <3>1. Unheard(t)[r] = Settled(u)
      BY <2>3 DEF Unheard
    <3>2. RequestOK(u) /\ u.from = None
      BY <2>1 DEF RequestOK, SaveFields
    <3> HIDE DEF u
    <3> QED BY <3>1, <3>2, SettledOK
  <2>4. CASE req[r].from # t
    <3>1. Unheard(t)[r] = req[r]
      BY <2>4 DEF Unheard
    <3> QED BY <3>1, <2>1, <2>2, <2>4
  <2> QED BY <2>3, <2>4
<1> QED BY <1>1, <1>2

(* Then a page without a save sent, and without one shown as stored.       *)
LEMMA QuietStep ==
  ASSUME StoreInv, NEW t \in Tabs, req' = Unheard(t), UNCHANGED profile, SessionKept',
         settings'.others \in Parts, ~settings'.submitting,
         settings'.saved =>
           /\ settings.saved /\ settings'.loaded
           /\ settings'.form = settings.form /\ settings'.crossed = settings.crossed
           /\ settings'.others = settings.others
  PROVE  StoreInv'
<1>1. /\ DOMAIN req' = Slots
      /\ \A r \in Slots : req'[r].from = None /\ RequestOK(req'[r])
  BY UnheardOK DEF StoreInv
<1>2. RequestsOK' /\ ListensToOne' /\ OwnKept' /\ ProfileShape'
  BY <1>1 DEF StoreInv, RequestsOK, ListensToOne, OwnKept, ProfileShape
<1>3. settings'.saved => Whole(settings'.form) = Whole(settings.form)
  OBVIOUS
<1>4. SavedKept'
  BY <1>3 DEF StoreInv, SavedKept
<1> QED BY <1>2, <1>4 DEF StoreInv

(* A save is sent.                                                         *)
NewSave(t, form, answer) ==
  [(IF answer = "none"
    THEN [Ask("save", "find") EXCEPT !.arg = form.details, !.numbers = form.numbers,
                                     !.hours = form.hours]
    ELSE Ask("save", "end"))
   EXCEPT !.from = t, !.org = Home, !.answer = answer]

LEMMA PostedRequest ==
  ASSUME NEW form, IsForm(form), NEW t \in Tabs, NEW answer \in {"none", "invalid"}
  PROVE  LET u == NewSave(t, form, answer) IN
         /\ RequestOK(u) /\ u.from = t /\ u.answer = answer
         /\ answer = "none" => Sent(u) = form /\ u.at = "find"
<1> DEFINE u == NewSave(t, form, answer)
<1>1. /\ SaveFields \subseteq DOMAIN Ask("save", "find") /\ SaveFields \subseteq DOMAIN Ask("save", "end")
      /\ \A at \in {"find", "end"} :
           Ask("save", at).kind = "save" /\ Ask("save", at).todo = {} /\ Ask("save", at).at = at
  BY DEF Ask, Free, SaveFields
<1>2. CASE answer = "none"
  <2>1. u = [[Ask("save", "find") EXCEPT !.arg = form.details, !.numbers = form.numbers,
                                         !.hours = form.hours]
             EXCEPT !.from = t, !.org = Home, !.answer = "none"]
    BY <1>2 DEF NewSave
  <2>2. /\ SaveFields \subseteq DOMAIN u /\ u.kind = "save" /\ u.todo = {}
        /\ u.from = t /\ u.org = Home /\ u.answer = "none" /\ u.at = "find"
        /\ u.arg = form.details /\ u.numbers = form.numbers /\ u.hours = form.hours
    BY <1>1, <2>1 DEF SaveFields
  <2> QED BY <1>2, <2>2 DEF RequestOK, Sent, IsForm
<1>3. CASE answer = "invalid"
  <2>1. u = [Ask("save", "end") EXCEPT !.from = t, !.org = Home, !.answer = "invalid"]
    BY <1>3 DEF NewSave
  <2>2. /\ SaveFields \subseteq DOMAIN u /\ u.kind = "save" /\ u.todo = {}
        /\ u.from = t /\ u.org = Home /\ u.answer = "invalid" /\ u.at = "end"
    BY <1>1, <2>1 DEF SaveFields
  <2> QED BY <1>3, <2>2 DEF RequestOK
<1> QED BY <1>2, <1>3

LEMMA SaveStep ==
  ASSUME StoreInv, EditsInv, NEW t \in Tabs, SaveProfile(t), open = "settings",
         UNCHANGED <<session, open>>
  PROVE  StoreInv'
<1>1. PICK admitted \in BOOLEAN : PostSave(session, t, settings.form, admitted)
  BY DEF SaveProfile
<1>2. session = SignedInto(Home) /\ IsForm(settings.form)
  BY DEF StoreInv, SessionKept, EditsInv, SettingsFields
<1>3. PICK answer \in {"none", "invalid"}, r \in Slots :
        req' = [Unheard(t) EXCEPT ![r] = NewSave(t, settings.form, answer)]
  <2> DEFINE q == [Ask("save", "find") EXCEPT !.arg = settings.form.details,
                                              !.numbers = settings.form.numbers,
                                              !.hours = settings.form.hours]
             answer == IF ~admitted THEN "invalid" ELSE "none"
  <2> HIDE DEF q
  <2>1. Post(session, t, q, admitted)
    BY <1>1 DEF PostSave, q
  <2>2. q.kind = "save"
    BY DEF q, Ask, Free
  <2>3. PICK r \in Slots :
          req' = [Unheard(t) EXCEPT ![r] =
                    [(IF answer = "none" THEN q ELSE Ask("save", "end"))
                     EXCEPT !.from = t, !.org = Home, !.answer = answer]]
    BY <2>1, <2>2, <1>2, SignedSession DEF Post
  <2> QED BY <2>3 DEF q, NewSave
<1> DEFINE u == NewSave(t, settings.form, answer)
<1>4. /\ RequestOK(u) /\ u.from = t /\ u.answer = answer
      /\ answer = "none" => Sent(u) = settings.form /\ u.at = "find"
  BY <1>2, PostedRequest
<1>5. req' = [Unheard(t) EXCEPT ![r] = u]
  BY <1>3
<1> HIDE DEF u
<1>6. /\ DOMAIN req' = Slots /\ req'[r] = u
      /\ \A x \in Slots \ {r} : req'[x].from = None /\ RequestOK(req'[x])
  BY <1>4, <1>5, UnheardOK DEF StoreInv
<1>7. /\ ~settings'.saved /\ settings'.submitting /\ settings'.sent = settings.form
      /\ settings'.loaded /\ settings'.others = NoPart
  BY DEF SaveProfile, EditsInv, SettingsFields, Editable
<1>8. RequestsOK'
  BY <1>4, <1>6 DEF RequestsOK
<1>9. ListensToOne'
  BY <1>4, <1>6, <1>7 DEF ListensToOne
<1>10. OwnKept'
  <2>1. answer = "none" =>
          ~HasStored(u).name /\ ~HasStored(u).numbers /\ HasStored(u).hours = {}
    BY <1>4 DEF HasStored
  <2> QED BY <2>1, <1>4, <1>6 DEF OwnKept, Keeps
<1>11. ProfileShape' /\ SavedKept' /\ SessionKept' /\ settings'.others \in Parts
  BY <1>2, <1>7, PartsTypes DEF SaveProfile, SavedKept, StoreInv, SessionKept, ProfileShape
<1> QED BY <1>8, <1>9, <1>10, <1>11 DEF StoreInv

-----------------------------------------------------------------------------
(* The other steps.                                                        *)

LEMMA OpenStep ==
  ASSUME StoreInv, NEW t \in Tabs, NEW page, Open(page, t),
         session' = SignedInto(Home) \/ page = "sign-in"
  PROVE  StoreInv'
<1>1. req' = Unheard(t) /\ UNCHANGED profile /\ settings' = SettingsOpened /\ open' = page
  BY DEF Open
<1>2. ~settings'.saved /\ ~settings'.submitting /\ settings'.others \in Parts
  BY <1>1, PartsTypes DEF SettingsOpened
<1>3. SessionKept'
  BY <1>1 DEF SessionKept
<1> QED BY <1>1, <1>2, <1>3, QuietStep

(* A step of the settings page that sends and hears nothing of a save.     *)
LEMMA EditStep ==
  ASSUME StoreInv, open = "settings", UNCHANGED <<req, profile, session, open>>,
         settings'.submitting = settings.submitting, settings'.sent = settings.sent,
         settings'.others = settings.others,
         settings'.saved => /\ settings.saved
                            /\ \/ settings'.form = settings.form /\ settings'.crossed = settings.crossed
                               \/ settings'.crossed,
         settings.loaded => settings'.loaded
  PROVE  StoreInv'
<1>1. settings'.form = settings.form => Whole(settings'.form) = Whole(settings.form)
  OBVIOUS
<1>2. SavedKept'
  BY <1>1 DEF StoreInv, SavedKept
<1>3. OwnKept'
  BY DEF StoreInv, OwnKept, HasStored
<1> QED BY <1>2, <1>3 DEF StoreInv, RequestsOK, ListensToOne, ProfileShape, SessionKept

LEMMA HearStep ==
  ASSUME StoreInv, EditsInv, open = "settings", NEW t \in Tabs, HearSaved(t), UNCHANGED <<session, open>>
  PROVE  StoreInv'
<1> DEFINE v == [settings EXCEPT !.submitting = FALSE, !.late = FALSE]
           form == [settings.form EXCEPT !.numbers = settings.sent.numbers]
<1>1. PICK r \in Slots :
        /\ req[r].from = t /\ req[r].answer # "none"
        /\ settings' = IF Stored(req[r])
                       THEN [v EXCEPT !.form.numbers = settings.sent.numbers, !.base = settings.sent,
                                      !.saved = TRUE, !.dirty = FALSE, !.crossed = settings.late]
                       ELSE [v EXCEPT !.saveError = TRUE]
  BY DEF HearSaved, Heard
<1>2. settings.submitting /\ ~settings.saved /\ req' = Unheard(t) /\ UNCHANGED profile
  BY DEF HearSaved, StoreInv, SavedKept
<1>3. settings.loaded /\ req[r].from # None /\ SettingsFields
  BY <1>1, <1>2, NoneAssumption DEF StoreInv, SavedKept, EditsInv
<1>4. SessionKept'
  BY DEF StoreInv, SessionKept
<1>5. CASE ~Stored(req[r])
  <2>1. settings' = [v EXCEPT !.saveError = TRUE]
    BY <1>1, <1>5
  <2>2. ~settings'.saved /\ ~settings'.submitting /\ settings'.others \in Parts
    BY <2>1, <1>2, <1>3 DEF SettingsFields, StoreInv
  <2> QED BY <1>2, <1>3, <1>4, <2>2, QuietStep
<1>6. CASE Stored(req[r])
  <2>1. settings' = [v EXCEPT !.form.numbers = settings.sent.numbers, !.base = settings.sent,
                              !.saved = TRUE, !.dirty = FALSE, !.crossed = settings.late]
    BY <1>1, <1>6
  <2>2. settings'.form = form
    BY <2>1, <1>3 DEF SettingsFields
  <2>3. /\ settings'.crossed = settings.late /\ settings'.loaded = settings.loaded
        /\ settings'.submitting = FALSE /\ settings'.others = settings.others
    BY <2>1, <1>3 DEF SettingsFields
  <2>4. settings.form = settings.sent => form = settings.sent
    BY <1>3, ChangedForms DEF SettingsFields
  <2>5. ~settings.late => settings.form = settings.sent
    BY <1>2 DEF EditsInv, SentUnchanged
  <2> HIDE DEF v, form
  <2>6. DOMAIN req' = Slots /\ \A x \in Slots : req'[x].from = None /\ RequestOK(req'[x])
    BY <1>2, UnheardOK DEF StoreInv
  <2>7. Keeps(profile[Home], settings.others, settings.sent, Whole(settings.sent))
    <3>1. req[r].answer = "ok" /\ req[r].at = "end" /\ req[r].todo = {}
      BY <1>6 DEF Stored, StoreInv, RequestsOK, RequestOK
    <3>2. Sent(req[r]) = settings.sent
      BY <1>3, <3>1 DEF StoreInv, ListensToOne
    <3>3. settings.sent.hours = req[r].hours
      BY <3>2 DEF Sent, Form
    <3>4. HasStored(req[r]) = Whole(settings.sent)
      BY <3>1, <3>3 DEF HasStored, Whole
    <3> QED BY <1>3, <3>1, <3>4 DEF StoreInv, OwnKept
  <2>8. RequestsOK' /\ ListensToOne' /\ OwnKept' /\ ProfileShape'
    BY <1>2, <2>6 DEF StoreInv, RequestsOK, ListensToOne, OwnKept, ProfileShape
  <2>9. ~settings'.crossed => settings'.form = settings.sent
    BY <2>2, <2>3, <2>4, <2>5
  <2>10. SavedKept'
    BY <1>2, <1>3, <2>3, <2>7, <2>9 DEF SavedKept
  <2> QED BY <1>4, <2>3, <2>8, <2>10 DEF StoreInv
<1> QED BY <1>5, <1>6

LEMMA StoreStep ==
  ASSUME StoreInv, EditsInv, [Next]_vars
  PROVE  StoreInv'
<1> USE DEF EditsInv
<1>1. ASSUME UNCHANGED <<req, profile, settings, session, open>> PROVE StoreInv'
  BY <1>1 DEF StoreInv, RequestsOK, ListensToOne, ProfileShape, OwnKept, SavedKept, SessionKept
<1>2. ASSUME NEW t \in Tabs, Navigate(t) PROVE StoreInv'
  <2>1. session' = SignedInto(Home)
    BY <1>2 DEF Navigate, DashboardPages, StoreInv, SessionKept
  <2> QED BY <1>2, <2>1, OpenStep DEF Navigate
<1>3. ASSUME NEW t \in Tabs, SignOut(t) PROVE StoreInv'
  BY <1>3, OpenStep DEF SignOut
<1>4. ASSUME NEW t \in Tabs, OnSettings(t) PROVE StoreInv'
  <2>1. open = "settings" /\ UNCHANGED <<session, open>>
    BY <1>4 DEF OnSettings, Shell
  <2>2. CASE ServeLoad \/ LoadProfile
    BY <2>1, <2>2, <1>1 DEF ServeLoad, LoadProfile
  <2>3. CASE HearLoadedProfile
    BY <2>1, <2>3, EditStep DEF HearLoadedProfile, SettingsFields, StoreInv, SavedKept
  <2>4. CASE UpdateDetails \/ UpdateAuthorityNumbers
    BY <2>1, <2>4, EditStep DEF UpdateDetails, UpdateAuthorityNumbers, Edited, SettingsFields
  <2>5. CASE SaveProfile(t)
    BY <2>1, <2>5, SaveStep
  <2>6. CASE HearSaved(t)
    BY <2>1, <2>6, HearStep
  <2>7. CASE LoseSave(t)
    <3>1. /\ req' = Unheard(t) /\ UNCHANGED profile
          /\ settings'.saved = settings.saved /\ settings'.others = settings.others
          /\ ~settings'.submitting /\ settings.submitting
      BY <2>7 DEF LoseSave, SettingsFields
    <3>2. SessionKept' /\ ~settings.saved /\ settings.others \in Parts
      BY <2>1, <3>1 DEF StoreInv, SessionKept, SavedKept
    <3> QED BY <3>1, <3>2, QuietStep
  <2>8. CASE OthersSave
    BY <2>1, <2>8, OthersStep
  <2> QED BY <1>4, <2>2, <2>3, <2>4, <2>5, <2>6, <2>7, <2>8 DEF OnSettings
<1>5. CASE ServeSaves
  <2>1. PageKept /\ UNCHANGED <<session, open>>
    BY <1>5, ServedForm DEF ServeSaves, Shell
  <2>2. PICK r \in Slots : \/ ServeProfile(r) /\ NoteStored(r) /\ UNCHANGED faults
                           \/ SaveDayFails(r) /\ UNCHANGED settings
                           \/ CallFails(r) /\ UNCHANGED <<profile, whole, settings>>
    BY <1>5 DEF ServeSaves
  <2>3. CASE ServeProfile(r) /\ NoteStored(r)
    BY <2>1, <2>3, ServeStep
  <2>4. CASE SaveDayFails(r) /\ UNCHANGED settings
    BY <2>1, <2>4, FailStep DEF SaveDayFails
  <2>5. CASE CallFails(r) /\ UNCHANGED <<profile, whole, settings>>
    BY <2>1, <2>5, FailStep
  <2> QED BY <2>2, <2>3, <2>4, <2>5
<1>6. CASE OnBookings \/ OnReports
  BY <1>6, <1>1 DEF OnBookings, OnReports, Shell, Editing
<1>7. CASE UNCHANGED vars
  BY <1>7, <1>1 DEF vars
<1> QED BY <1>2, <1>3, <1>4, <1>5, <1>6, <1>7 DEF Next

(* What StartAssumption says of the page that is open first.               *)
LEMMA FirstStart ==
  ASSUME Init
  PROVE  open \in DashboardPages /\ moves \in Nat /\ profile \in [Names -> ProfileRow]
<1>1. open \in FirstPages /\ moves = Moves[open] /\ profile \in Profiles[open]
  BY DEF Init
<1>2. /\ FirstPages \subseteq DashboardPages
      /\ \A page \in FirstPages : Moves[page] \in Nat /\ Profiles[page] \subseteq [Names -> ProfileRow]
  BY StartAssumption
<1> QED BY <1>1, <1>2

LEMMA StoreInit == Init => StoreInv
<1> SUFFICES ASSUME Init PROVE StoreInv
  OBVIOUS
<1>1. /\ DOMAIN req = Slots
      /\ \A r \in Slots : req[r] = Free
      /\ ~settings.saved /\ ~settings.submitting /\ settings.others = NoPart
      /\ session = SignedInto(Home) /\ open # "sign-in"
  BY StartAssumption DEF Init, SettingsOpened, DashboardPages
<1>2. RequestsOK /\ ListensToOne /\ OwnKept
  BY <1>1, FreeOK DEF RequestsOK, ListensToOne, OwnKept
<1>3. SavedKept /\ SessionKept /\ settings.others \in Parts
  BY <1>1, PartsTypes DEF SavedKept, SessionKept
<1>4. ProfileShape
  <2>1. profile \in [Names -> ProfileRow]
    BY FirstStart
  <2> QED BY <2>1, HomeAssumption DEF ProfileShape, ProfileRow
<1> QED BY <1>2, <1>3, <1>4 DEF StoreInv

(* While Saved. is shown, every part of the stored profile is what the     *)
(* form holds, but for those that another save has stored since; unless an *)
(* answer has crossed with edits (SavedIsStored).                          *)
THEOREM SavedCorrect == Spec => []SavedIsStored
<1>1. StoreInv => SavedIsStored
  <2> SUFFICES ASSUME StoreInv, settings.saved, ~settings.crossed
               PROVE  SavedIsStored
    BY DEF SavedIsStored
  <2>1. Keeps(profile[Home], settings.others, settings.form, Whole(settings.form))
    BY DEF StoreInv, SavedKept
  <2>2. session = SignedInto(Home)
    BY DEF StoreInv, SessionKept, SettingsOpened
  <2>3. session.active = Home
    BY <2>2, SignedSession
  <2> QED BY <2>1, <2>3 DEF SavedIsStored, Keeps, Whole
<1> QED BY <1>1, StoreInit, StoreStep, SettingsInit, SettingsStep, PTL DEF Spec

-----------------------------------------------------------------------------
(* The calls page.                                                         *)

(* Latest first, and none after at.                                        *)
LatestFirst(rows, log, at) ==
  /\ rows \in Seq(1 .. Len(log))
  /\ \A i \in DOMAIN rows : log[rows[i]].kind # "inquiry" /\ log[rows[i]].start <= at
  /\ \A i, j \in DOMAIN rows : i < j => log[rows[i]].start >= log[rows[j]].start

LogOK ==
  /\ now \in 1 .. LastTime /\ logged \in Seq(Entry)
  /\ \A i \in DOMAIN logged : logged[i].start <= now

CallsTypes ==
  /\ calls \in [shown : {"skeleton", "error", "empty", "rows"}, rows : Seq(Nat), selected : Nat,
                drawn : 0 .. LastTime]
  /\ callsLoad \in [at : {"none", "sent", "ok", "error"}, rows : Seq(Nat)]
  /\ calls.selected \in Range(calls.rows) \cup {0}

(* Answers are in order, and of the past; no call is selected while there  *)
(* is something under way.                                                 *)
CallsInv ==
  /\ LogOK /\ CallsTypes
  /\ calls.drawn <= now
  /\ LatestFirst(calls.rows, logged, calls.drawn)
  /\ LatestFirst(callsLoad.rows, logged, now)
  /\ callsLoad.at # "none" => calls.shown = "skeleton"
  /\ calls.shown # "rows" => calls.selected = 0

LEMMA LogEntries ==
  ASSUME LogOK
  PROVE  /\ Len(logged) \in Nat /\ DOMAIN logged = 1 .. Len(logged) /\ now \in Nat
         /\ \A i \in 1 .. Len(logged) :
              logged[i] \in Entry /\ logged[i].start \in Nat /\ logged[i].start <= now
<1>1. logged \in Seq(Entry) /\ LastTime \in Nat
  BY ReportsAssumption DEF LogOK
<1>2. \A i \in 1 .. Len(logged) : logged[i] \in Entry
  BY <1>1
<1>3. \A e \in Entry : e.start \in Nat
  BY <1>1 DEF Entry
<1> QED BY <1>1, <1>2, <1>3 DEF LogOK

LEMMA CallsFound ==
  ASSUME LogOK
  PROVE  LatestFirst(FindByOrgId, logged, now)
<1> DEFINE n == Len(logged)
           k == [i \in Calls |-> -logged[i].start]
           Sorted(s) == \A i, j \in DOMAIN s : i < j => logged[s[i]].start >= logged[s[j]].start
<1>1. /\ n \in Nat /\ DOMAIN logged = 1 .. n
      /\ \A i \in 1 .. n : logged[i].start \in Nat /\ logged[i].start <= now
  BY LogEntries
<1>2. Calls \in SUBSET (1 .. n) /\ IsFiniteSet(Calls)
  <2>1. Calls \in SUBSET (1 .. n)
    BY <1>1 DEF Calls
  <2>2. IsFiniteSet(1 .. n)
    BY <1>1, FS_Interval
  <2> HIDE DEF n
  <2> QED BY <2>1, <2>2, FS_Subset
<1>3. k \in [Calls -> Int]
  BY <1>1, <1>2
<1>4. PICK s \in SetToSeqs(Calls) : InOrder(s, k)
  <2> HIDE DEF k
  <2> QED BY <1>2, <1>3, SomeOrder
<1>5. ASSUME NEW t \in SetToSeqs(Calls)
      PROVE  t \in Seq(Calls) /\ \A i \in DOMAIN t : t[i] \in Calls
  BY <1>2, SeqsOfSet
<1>6. Sorted(s)
  <2> SUFFICES ASSUME NEW i \in DOMAIN s, NEW j \in DOMAIN s, i < j
               PROVE  logged[s[i]].start >= logged[s[j]].start
    OBVIOUS
  <2>1. s[i] \in Calls /\ s[j] \in Calls
    BY <1>5
  <2>2. k[s[i]] <= k[s[j]]
    <3> HIDE DEF k
    <3> QED BY <1>4 DEF InOrder
  <2>3. k[s[i]] = -logged[s[i]].start /\ k[s[j]] = -logged[s[j]].start
    BY <2>1
  <2>4. logged[s[i]].start \in Nat /\ logged[s[j]].start \in Nat
    BY <1>1, <1>2, <2>1
  <2> HIDE DEF k
  <2> QED BY <2>2, <2>3, <2>4
<1>7. FindByOrgId \in SetToSeqs(Calls) /\ Sorted(FindByOrgId)
  BY <1>6, ZenonT(30) DEF FindByOrgId
<1>8. FindByOrgId \in Seq(Calls) /\ \A i \in DOMAIN FindByOrgId : FindByOrgId[i] \in Calls
  BY <1>5, <1>7
<1>9. FindByOrgId \in Seq(1 .. n)
  <2> HIDE DEF n
  <2>1. \A T : Calls \subseteq T => Seq(Calls) \subseteq Seq(T)
    OBVIOUS
  <2> QED BY <1>2, <1>8, <2>1
<1>10. \A i \in Calls : logged[i].kind # "inquiry" /\ logged[i].start <= now
  BY <1>1 DEF Calls
<1> QED BY <1>7, <1>8, <1>9, <1>10 DEF LatestFirst

LEMMA LatestStays ==
  ASSUME NEW rows, NEW at \in Int, NEW at2 \in Int, at <= at2, LogOK, LatestFirst(rows, logged, at),
         \/ logged' = logged
         \/ \E e \in Entry : logged' = Append(logged, e)
  PROVE  LatestFirst(rows, logged', at2)
<1>1. logged \in Seq(Entry) /\ Len(logged) \in Nat /\ DOMAIN logged = 1 .. Len(logged)
      /\ \A i \in 1 .. Len(logged) : logged[i].start \in Nat
  BY LogEntries DEF LogOK
<1>2. /\ Len(logged') \in Nat /\ Len(logged) <= Len(logged')
      /\ \A i \in 1 .. Len(logged) : logged'[i] = logged[i]
  <2>1. CASE logged' = logged
    BY <1>1, <2>1
  <2>2. ASSUME NEW e \in Entry, logged' = Append(logged, e)
        PROVE  /\ Len(logged') \in Nat /\ Len(logged) <= Len(logged')
               /\ \A i \in 1 .. Len(logged) : logged'[i] = logged[i]
    <3>1. /\ Len(logged') = Len(logged) + 1
          /\ \A i \in 1 .. Len(logged) : logged'[i] = logged[i]
      <4>1. LET y == Append(logged, e) IN
            Len(y) = Len(logged) + 1 /\ \A i \in 1 .. Len(logged) : y[i] = logged[i]
        BY <1>1, AppendedItem
      <4> QED BY <2>2, <4>1
    <3> QED BY <1>1, <3>1
  <2> QED BY <2>1, <2>2
<1>3. /\ rows \in Seq(1 .. Len(logged))
      /\ \A i \in DOMAIN rows : rows[i] \in 1 .. Len(logged)
  BY <1>1 DEF LatestFirst
<1>4. rows \in Seq(1 .. Len(logged'))
  <2>1. 1 .. Len(logged) \subseteq 1 .. Len(logged')
    BY <1>1, <1>2
  <2> QED BY <1>3, <2>1
<1>5. ASSUME NEW i \in DOMAIN rows PROVE logged'[rows[i]].kind # "inquiry" /\ logged'[rows[i]].start <= at2
  BY <1>1, <1>2, <1>3 DEF LatestFirst
<1>6. ASSUME NEW i \in DOMAIN rows, NEW j \in DOMAIN rows, i < j
      PROVE  logged'[rows[i]].start >= logged'[rows[j]].start
  BY <1>1, <1>2, <1>3, <1>6 DEF LatestFirst
<1> QED BY <1>4, <1>5, <1>6 DEF LatestFirst

LEMMA NoCallsFound ==
  ASSUME NEW log, NEW at, Len(log) \in Nat
  PROVE  LatestFirst(<<>>, log, at)
<1>1. <<>> \in Seq(1 .. Len(log)) /\ DOMAIN <<>> = {}
  OBVIOUS
<1> QED BY <1>1 DEF LatestFirst

LEMMA LogStep ==
  ASSUME LogOK, [Next]_vars
  PROVE  /\ LogOK' /\ now <= now'
         /\ logged' = logged \/ \E e \in Entry : logged' = Append(logged, e)
<1>1. ASSUME UNCHANGED <<now, logged>> PROVE LogOK' /\ now <= now' /\ logged' = logged
  <2>1. now \in Nat
    BY LogEntries
  <2> QED BY <1>1, <2>1 DEF LogOK
<1>2. CASE Tick
  <2>1. logged' = logged /\ now' = now + 1 /\ now < LastTime /\ now \in Nat /\ LastTime \in Nat
    BY <1>2, LogEntries, ReportsAssumption DEF Tick
  <2>2. \A i \in DOMAIN logged : logged[i].start \in Nat /\ logged[i].start <= now + 1
    BY <2>1, LogEntries
  <2> QED BY <2>1, <2>2 DEF LogOK
<1>3. CASE Log
  <2>1. PICK kind \in {"inquiry", "booked", "other"}, start \in {now, now - 1} :
          logged' = Append(logged, [kind |-> kind, start |-> start])
    BY <1>3 DEF Log
  <2> DEFINE e == [kind |-> kind, start |-> start]
  <2>2. now' = now /\ now \in Nat /\ now <= now /\ now \in 1 .. LastTime /\ LastTime \in Nat
    BY <1>3, LogEntries, ReportsAssumption DEF Log, LogOK
  <2>3. e \in Entry /\ e.start \in Nat /\ e.start <= now
    <3>1. start \in 0 .. LastTime /\ start <= now
      BY <2>2
    <3> QED BY <3>1 DEF Entry
  <2> HIDE DEF e
  <2>4. LET y == Append(logged, e) IN
        /\ y \in Seq(Entry) /\ DOMAIN y = 1 .. Len(logged) + 1
        /\ y[Len(logged) + 1] = e /\ \A j \in 1 .. Len(logged) : y[j] = logged[j]
    BY <2>3, AppendedItem DEF LogOK
  <2>5. logged' = Append(logged, e)
    BY <2>1 DEF e
  <2>6. ASSUME NEW i \in DOMAIN logged' PROVE logged'[i].start <= now'
    <3>1. i \in 1 .. Len(logged) + 1 /\ Len(logged) \in Nat
      BY <2>4, <2>5, LogEntries
    <3>2. CASE i = Len(logged) + 1
      BY <2>2, <2>3, <2>4, <2>5, <3>2
    <3>3. CASE i # Len(logged) + 1
      <4>1. i \in 1 .. Len(logged)
        BY <3>1, <3>3
      <4> QED BY <2>2, <2>4, <2>5, <4>1, LogEntries
    <3> QED BY <3>2, <3>3
  <2>7. LogOK'
    BY <2>2, <2>4, <2>5, <2>6 DEF LogOK
  <2> QED BY <2>2, <2>3, <2>5, <2>7
<1>4. CASE OnReports
  BY <1>4, <1>1, <1>2, <1>3
     DEF OnReports, ServeCalls, StartSummary, ServeQuery, ReportFails, HearCalls, HearSummary, RetryCalls,
         SelectCall, CloseCall, RetryCharts, SelectRange
<1>5. ASSUME NEW t \in Tabs, Navigate(t) \/ SignOut(t) PROVE UNCHANGED <<now, logged>>
  BY <1>5 DEF Navigate, SignOut, Open
<1>6. ASSUME NEW t \in Tabs, OnSettings(t) PROVE UNCHANGED <<now, logged>>
  BY <1>6 DEF OnSettings, Reports
<1>7. CASE OnBookings \/ ServeSaves \/ UNCHANGED vars
  BY <1>1, <1>7 DEF OnBookings, ServeSaves, Reports, vars
<1> QED BY <1>1, <1>4, <1>5, <1>6, <1>7 DEF Next

LEMMA CallsStep ==
  ASSUME CallsInv, [Next]_vars
  PROVE  CallsInv'
<1>1. /\ LogOK /\ LogOK' /\ now \in Nat /\ now' \in Nat /\ now <= now'
      /\ calls.drawn \in Nat /\ calls.drawn <= now /\ LastTime \in Nat
      /\ now \in 0 .. LastTime /\ now' \in 0 .. LastTime
  <2>1. LogOK' /\ now <= now'
    BY LogStep DEF CallsInv
  <2>2. now \in 0 .. LastTime /\ now' \in 0 .. LastTime /\ LastTime \in Nat
    BY <2>1, ReportsAssumption DEF LogOK, CallsInv
  <2> QED BY <2>1, <2>2 DEF CallsInv, CallsTypes
<1>2. /\ logged' = logged \/ \E e \in Entry : logged' = Append(logged, e)
      /\ Len(logged') \in Nat
  BY LogStep DEF CallsInv, LogOK
<1>3. /\ LatestFirst(calls.rows, logged', calls.drawn)
      /\ LatestFirst(callsLoad.rows, logged', now)
      /\ LatestFirst(callsLoad.rows, logged', now')
      /\ LatestFirst(calls.rows, logged', now')
  BY <1>1, <1>2, LatestStays DEF CallsInv
<1>4. ASSUME UNCHANGED <<calls, callsLoad>> PROVE CallsInv'
  BY <1>1, <1>3, <1>4 DEF CallsInv, CallsTypes
<1>5. ASSUME NEW page, calls' = CallsOpened, callsLoad' = FirstCalls(page) PROVE CallsInv'
  <2>1. LatestFirst(<<>>, logged', 0) /\ LatestFirst(<<>>, logged', now')
    BY <1>2, NoCallsFound
  <2>2. /\ calls'.rows = <<>> /\ calls'.drawn = 0 /\ calls'.selected = 0
        /\ calls'.shown = "skeleton" /\ callsLoad'.rows = <<>>
    BY <1>5 DEF CallsOpened, FirstCalls, NoCallsLoad
  <2>3. CallsTypes'
    <3>1. <<>> \in Seq(Nat)
      OBVIOUS
    <3>2. CallsOpened \in [shown : {"skeleton", "error", "empty", "rows"}, rows : Seq(Nat),
                           selected : Nat, drawn : 0 .. LastTime]
      BY <1>1, <3>1 DEF CallsOpened
    <3>3. FirstCalls(page) \in [at : {"none", "sent", "ok", "error"}, rows : Seq(Nat)]
      BY <3>1 DEF FirstCalls, NoCallsLoad
    <3> QED BY <1>5, <2>2, <3>2, <3>3 DEF CallsTypes
  <2> QED BY <1>1, <2>1, <2>2, <2>3 DEF CallsInv
<1>6. CASE ServeCalls
  <2>1. LatestFirst(FindByOrgId, logged', now')
    BY <1>1, <1>6, CallsFound DEF ServeCalls
  <2>2. FindByOrgId \in Seq(Nat)
    <3>1. FindByOrgId \in Seq(1 .. Len(logged'))
      BY <2>1 DEF LatestFirst
    <3> QED BY <1>2, <3>1
  <2>3. /\ callsLoad'.rows = FindByOrgId /\ callsLoad'.at = "ok" /\ callsLoad.at = "sent"
        /\ callsLoad' = [at |-> "ok", rows |-> FindByOrgId] /\ UNCHANGED <<now, calls>>
    BY <1>6 DEF ServeCalls
  <2>4. CallsTypes'
    BY <2>2, <2>3 DEF CallsInv, CallsTypes
  <2> QED BY <1>1, <1>3, <2>1, <2>3, <2>4 DEF CallsInv
<1>7. CASE ReportFails
  <2>1. \/ callsLoad' = callsLoad
        \/ callsLoad.at = "sent" /\ callsLoad' = [callsLoad EXCEPT !.at = "error"]
    BY <1>7 DEF ReportFails
  <2>2. UNCHANGED <<now, logged, calls>>
    BY <1>7 DEF ReportFails
  <2>3. callsLoad'.rows = callsLoad.rows /\ (callsLoad'.at # "none" => callsLoad.at # "none") /\ CallsTypes'
    BY <2>1, <2>2 DEF CallsInv, CallsTypes
  <2> QED BY <1>1, <1>3, <2>2, <2>3 DEF CallsInv
<1>8. CASE HearCalls
  <2>1. /\ callsLoad' = NoCallsLoad /\ now' = now
        /\ calls' = [calls EXCEPT !.shown = IF callsLoad.at = "ok" THEN CallsShown(callsLoad.rows) ELSE "error",
                            !.rows = callsLoad.rows, !.drawn = now]
        /\ calls.selected = 0
    BY <1>8 DEF HearCalls, CallsInv
  <2>2. /\ calls'.rows = callsLoad.rows /\ calls'.drawn = now /\ calls'.selected = 0
        /\ callsLoad'.rows = <<>> /\ callsLoad'.at = "none"
    BY <2>1 DEF CallsInv, CallsTypes, NoCallsLoad
  <2>3. CallsTypes'
    <3>1. <<>> \in Seq(Nat)
      OBVIOUS
    <3> QED BY <1>1, <2>1, <2>2, <3>1 DEF CallsInv, CallsTypes, NoCallsLoad, CallsShown
  <2>4. LatestFirst(<<>>, logged', now')
    BY <1>2, NoCallsFound
  <2> QED BY <1>1, <1>3, <2>1, <2>2, <2>3, <2>4 DEF CallsInv
<1>9. CASE RetryCalls
  <2>1. /\ calls' = [calls EXCEPT !.shown = "skeleton", !.rows = <<>>, !.drawn = now] /\ now' = now
        /\ callsLoad' = [NoCallsLoad EXCEPT !.at = "sent"]
        /\ calls.selected = 0
    BY <1>9 DEF RetryCalls, CallsInv
  <2>2. /\ calls'.rows = <<>> /\ calls'.drawn = now /\ calls'.selected = 0
        /\ calls'.shown = "skeleton" /\ callsLoad'.rows = <<>>
    BY <2>1 DEF CallsInv, CallsTypes, NoCallsLoad
  <2>3. CallsTypes'
    <3>1. <<>> \in Seq(Nat)
      OBVIOUS
    <3> QED BY <1>1, <2>1, <2>2, <3>1 DEF CallsInv, CallsTypes, NoCallsLoad
  <2>4. LatestFirst(<<>>, logged', now) /\ LatestFirst(<<>>, logged', now')
    BY <1>2, NoCallsFound
  <2> QED BY <1>1, <2>1, <2>2, <2>3, <2>4 DEF CallsInv
<1>10. CASE SelectCall \/ CloseCall
  <2>1. PICK i \in Range(calls.rows) \cup {0} : calls' = [calls EXCEPT !.selected = i, !.drawn = now]
    BY <1>10 DEF SelectCall, CloseCall
  <2>2. UNCHANGED <<now, logged, callsLoad>>
    BY <1>10 DEF SelectCall, CloseCall
  <2>3. i \in Nat
    BY DEF CallsInv, CallsTypes, Range
  <2>4. /\ calls'.rows = calls.rows /\ calls'.shown = calls.shown /\ calls'.selected = i
        /\ calls'.drawn = now
    BY <2>1 DEF CallsInv, CallsTypes
  <2>5. CallsTypes'
    <3>1. calls' \in [shown : {"skeleton", "error", "empty", "rows"}, rows : Seq(Nat), selected : Nat,
                      drawn : 0 .. LastTime]
      BY <1>1, <2>1, <2>3 DEF CallsInv, CallsTypes
    <3> QED BY <2>2, <2>4, <3>1 DEF CallsInv, CallsTypes
  <2>6. calls'.shown # "rows" => calls'.selected = 0
    BY <1>10, <2>4 DEF SelectCall, CloseCall, CallsInv
  <2> QED BY <1>1, <1>3, <2>2, <2>4, <2>5, <2>6 DEF CallsInv
<1>11. CASE OnReports
  BY <1>4, <1>6, <1>7, <1>8, <1>9, <1>10, <1>11
     DEF OnReports, Log, Tick, StartSummary, ServeQuery, HearSummary, RetryCharts, SelectRange
<1>12. ASSUME NEW t \in Tabs, Navigate(t) \/ SignOut(t) PROVE CallsInv'
  BY <1>5, <1>12 DEF Navigate, SignOut, Open
<1>13. ASSUME NEW t \in Tabs, OnSettings(t) PROVE CallsInv'
  BY <1>4, <1>13 DEF OnSettings, Reports
<1>14. CASE OnBookings \/ ServeSaves \/ UNCHANGED vars
  BY <1>4, <1>14 DEF OnBookings, ServeSaves, Reports, vars
<1> QED BY <1>11, <1>12, <1>13, <1>14 DEF Next

(* Today's calls and the others: one more call at a time.                  *)
GroupPairs == Seq(Nat) \X Seq(Nat)

NextGroups(groups, i, at) ==
  IF LocalDay(logged[i].start) = LocalDay(at)
  THEN <<Append(groups[1], i), groups[2]>>
  ELSE <<groups[1], Append(groups[2], i)>>

LEMMA NextGroupsType ==
  ASSUME NEW x \in GroupPairs, NEW i \in Nat, NEW at
  PROVE  NextGroups(x, i, at) \in GroupPairs
<1>1. x[1] \in Seq(Nat) /\ x[2] \in Seq(Nat)
  BY DEF GroupPairs
<1>2. Append(x[1], i) \in Seq(Nat) /\ Append(x[2], i) \in Seq(Nat)
  BY <1>1
<1> QED BY <1>1, <1>2 DEF GroupPairs, NextGroups

LEMMA GroupsLoop ==
  ASSUME NEW list \in Seq(Nat), NEW at
  PROVE  \E g : /\ g \in [0 .. Len(list) -> GroupPairs]
                /\ g[0] = << <<>>, <<>> >> /\ g[Len(list)] = GroupByDay(list, at)
                /\ \A k \in 0 .. Len(list) : k < Len(list) => g[k + 1] = NextGroups(g[k], list[k + 1], at)
<1> DEFINE n == Len(list)
           X == GroupPairs
           base == << <<>>, <<>> >>
           step == [p \in X \X (1 .. n) |-> NextGroups(p[1], list[p[2]], at)]
           Is(f) == f = [s \in SUBSET DOMAIN list |->
                           IF s = {} THEN base
                           ELSE NextGroups(f[s \ {Max(s)}], list[Max(s)], at)]
           F == CHOOSE f : Is(f)
<1>1. n \in Nat /\ DOMAIN list = 1 .. n /\ base \in X
  <2>1. <<>> \in Seq(Nat) /\ n \in Nat /\ DOMAIN list = 1 .. n
    OBVIOUS
  <2>2. << <<>>, <<>> >> \in Seq(Nat) \X Seq(Nat)
    BY <2>1
  <2> QED BY <2>1, <2>2 DEF GroupPairs
<1>2. step \in [X \X (1 .. n) -> X]
  <2>1. ASSUME NEW p \in X \X (1 .. n) PROVE NextGroups(p[1], list[p[2]], at) \in X
    BY <1>1, <2>1, NextGroupsType
  <2> HIDE DEF X, n
  <2> QED BY <2>1
<1>3. PICK h : h \in [SUBSET (1 .. n) -> X] /\ LoopBy(h, n, X, base, step)
  <2> HIDE DEF X, n, step
  <2> QED BY <1>1, <1>2, SomeLoop
<1>4. Is(h)
  <2>1. ASSUME NEW s \in SUBSET (1 .. n)
        PROVE  h[s] = IF s = {} THEN base ELSE NextGroups(h[s \ {Max(s)}], list[Max(s)], at)
    <3>1. CASE s = {}
      <4> HIDE DEF X, n, step
      <4> QED BY <1>3, <3>1 DEF LoopBy
    <3>2. CASE s # {}
      <4> DEFINE p == <<h[s \ {Max(s)}], Max(s)>>
      <4>1. Max(s) \in 1 .. n /\ h[s \ {Max(s)}] \in X /\ h[s] = step[p]
        <5> HIDE DEF X, n, step
        <5> QED BY <1>3, <3>2 DEF LoopBy
      <4>2. step[p] = NextGroups(p[1], list[p[2]], at)
        <5>1. p \in X \X (1 .. n)
          BY <4>1
        <5> HIDE DEF X, n, p
        <5> QED BY <5>1
      <4> QED BY <3>2, <4>1, <4>2
    <3> QED BY <3>1, <3>2
  <2> HIDE DEF X, step, n
  <2> QED BY <1>1, <1>3, <2>1
<1>5. Is(F)
  <2> HIDE DEF Is
  <2> QED BY <1>4
<1>6. GroupByDay(list, at) = F[DOMAIN list]
  BY DEF GroupByDay, FoldLeft, MapThenFoldSet, NextGroups
<1> DEFINE g == [k \in 0 .. n |-> F[1 .. k]]
<1>7. ASSUME NEW s \in SUBSET (1 .. n)
      PROVE  F[s] = IF s = {} THEN base ELSE NextGroups(F[s \ {Max(s)}], list[Max(s)], at)
  <2> HIDE DEF F, n
  <2> QED BY <1>1, <1>5
<1> HIDE DEF F
<1>8. g[0] = base
  <2>1. 0 \in 0 .. n
    BY <1>1
  <2> HIDE DEF n
  <2>2. g[0] = F[1 .. 0]
    BY <2>1
  <2>3. 1 .. 0 = {} /\ 1 .. 0 \in SUBSET (1 .. n)
    OBVIOUS
  <2>4. F[1 .. 0] = base
    BY <1>7, <2>3
  <2> QED BY <2>2, <2>4
<1>9. ASSUME NEW k \in 0 .. n, k < n
      PROVE  g[k + 1] = NextGroups(g[k], list[k + 1], at)
  <2>1. /\ k + 1 \in 0 .. n /\ 1 .. k + 1 \in SUBSET (1 .. n) /\ k + 1 \in Nat /\ k + 1 # 0
        /\ (k + 1) - 1 = k
    BY <1>1, <1>9
  <2>2. Max(1 .. k + 1) = k + 1 /\ (1 .. k + 1) \ {k + 1} = 1 .. k /\ 1 .. k + 1 # {}
    BY <2>1, LastOfInterval
  <2> HIDE DEF n
  <2> QED BY <1>7, <2>1, <2>2
<1>10. ASSUME NEW k \in 0 .. n PROVE g[k] \in X
  <2> DEFINE P == {j \in 0 .. n : g[j] \in X}
  <2>1. 0 \in P
    <3>1. 0 \in 0 .. n
      BY <1>1
    <3> HIDE DEF g, n, X
    <3> QED BY <1>1, <1>8, <3>1
  <2>2. ASSUME NEW j \in 0 .. n, j < n, j \in P PROVE j + 1 \in P
    <3>1. list[j + 1] \in Nat /\ j + 1 \in 0 .. n
      BY <1>1, <2>2
    <3> HIDE DEF n, g
    <3> QED BY <1>9, <2>2, <3>1, NextGroupsType
  <2> HIDE DEF P, g, X
  <2>3. \A j \in 0 .. n : j \in P
    BY <1>1, <2>1, <2>2, Throughout
  <2> QED BY <2>3 DEF P
<1>11. g \in [0 .. n -> X] /\ g[n] = GroupByDay(list, at)
  <2>1. g[n] = F[1 .. n] /\ g = [k \in 0 .. n |-> g[k]]
    BY <1>1
  <2> HIDE DEF g, n, X
  <2> QED BY <1>1, <1>6, <1>10, <2>1
<1> HIDE DEF g, n, X
<1> QED BY <1>8, <1>9, <1>11 DEF n, X

(* The groups of the first k calls: together those calls, as they come;    *)
(* once one is not of today, the later ones are not.                       *)
GroupsUpTo(x, rows, k, at) ==
  /\ x \in GroupPairs
  /\ x[1] \o x[2] = SubSeq(rows, 1, k)
  /\ x[2] # <<>> => k > 0 /\ LocalDay(logged[rows[k]].start) < LocalDay(at)

LEMMA GroupsGrow ==
  ASSUME LogOK, NEW at \in Nat, NEW rows, LatestFirst(rows, logged, at), NEW k \in Nat, k < Len(rows),
         NEW x, GroupsUpTo(x, rows, k, at)
  PROVE  GroupsUpTo(NextGroups(x, rows[k + 1], at), rows, k + 1, at)
<1> DEFINE i == rows[k + 1]
           day == LocalDay(logged[i].start)
           today == LocalDay(at)
           S == Seq(Nat)
           y == NextGroups(x, i, at)
<1>1. /\ Len(logged) \in Nat /\ \A j \in 1 .. Len(logged) : logged[j].start \in Nat
      /\ rows \in Seq(1 .. Len(logged))
      /\ \A j \in DOMAIN rows : logged[rows[j]].start <= at
      /\ \A j, l \in DOMAIN rows : j < l => logged[rows[j]].start >= logged[rows[l]].start
  BY LogEntries DEF LatestFirst
<1>2. rows \in S /\ DOMAIN rows = 1 .. Len(rows) /\ Len(rows) \in Nat
      /\ \A j \in DOMAIN rows : rows[j] \in 1 .. Len(logged)
  BY <1>1
<1>3. x[1] \in S /\ x[2] \in S /\ i \in Nat /\ k + 1 \in DOMAIN rows
  <2>1. k + 1 \in DOMAIN rows
    BY <1>2
  <2>2. i \in Nat
    BY <1>1, <1>2, <2>1
  <2> QED BY <2>1, <2>2 DEF GroupsUpTo, GroupPairs
<1>4. \A u, v \in Nat : u <= v => LocalDay(u) <= LocalDay(v) /\ LocalDay(u) \in Nat /\ LocalDay(v) \in Nat
  BY DEF LocalDay
<1>5. day \in Nat /\ today \in Nat /\ day <= today
  <2>1. logged[i].start \in Nat /\ logged[i].start <= at
    BY <1>1, <1>2, <1>3
  <2> QED BY <1>4, <2>1
<1>6. y \in GroupPairs
  BY <1>3, NextGroupsType DEF GroupsUpTo
<1>7. SubSeq(rows, 1, k + 1) = Append(SubSeq(rows, 1, k), i)
  <2> HIDE DEF S
  <2> QED BY <1>2, NextPrefix
<1>8. x[1] \o x[2] = SubSeq(rows, 1, k)
  BY DEF GroupsUpTo
<1>9. CASE day = today
  <2>1. y = <<Append(x[1], i), x[2]>>
    BY <1>9 DEF NextGroups
  <2>2. x[2] = <<>>
    <3>1. SUFFICES ASSUME x[2] # <<>> PROVE FALSE
      OBVIOUS
    <3>2. k > 0 /\ LocalDay(logged[rows[k]].start) < today
      BY <3>1 DEF GroupsUpTo
    <3>3. k \in DOMAIN rows /\ k < k + 1
      BY <1>2, <3>2
    <3>4. logged[rows[k]].start \in Nat /\ logged[i].start \in Nat
          /\ logged[i].start <= logged[rows[k]].start
      BY <1>1, <1>2, <1>3, <3>3
    <3>5. day <= LocalDay(logged[rows[k]].start) /\ LocalDay(logged[rows[k]].start) \in Nat
      BY <1>4, <3>4
    <3> QED BY <1>5, <1>9, <3>2, <3>5
  <2>3. y[1] = Append(x[1], i) /\ y[2] = <<>>
    BY <2>1, <2>2
  <2>4. Append(x[1], i) \in S
    BY <1>3
  <2>5. Append(x[1], i) \o <<>> = Append(x[1], i) /\ x[1] \o <<>> = x[1]
    <3>1. <<>> \in S
      OBVIOUS
    <3>2. Appends(x[1], <<>>, i) /\ Appends(Append(x[1], i), <<>>, i)
      <4> HIDE DEF S, i
      <4> QED BY <1>3, <2>4, <3>1, AppendedAfter DEF S
    <3> QED BY <3>2 DEF Appends
  <2>6. y[1] \o y[2] = SubSeq(rows, 1, k + 1)
    BY <1>7, <1>8, <2>2, <2>3, <2>5
  <2> HIDE DEF y
  <2> QED BY <1>6, <2>3, <2>6 DEF GroupsUpTo, y
<1>10. CASE day # today
  <2>1. y = <<x[1], Append(x[2], i)>>
    BY <1>10 DEF NextGroups
  <2>2. y[1] = x[1] /\ y[2] = Append(x[2], i)
    BY <2>1
  <2>3. x[1] \o Append(x[2], i) = Append(x[1] \o x[2], i)
    <3>1. x[1] \in S /\ x[2] \in S /\ i \in Nat
      BY <1>3
    <3> HIDE DEF i
    <3>2. Appends(x[1], x[2], i)
      BY <3>1, AppendedAfter DEF S
    <3> QED BY <3>2 DEF Appends
  <2>4. y[1] \o y[2] = SubSeq(rows, 1, k + 1)
    BY <1>7, <1>8, <2>2, <2>3
  <2>5. k + 1 > 0 /\ LocalDay(logged[rows[k + 1]].start) < today
    BY <1>5, <1>10
  <2> HIDE DEF y
  <2> QED BY <1>6, <2>4, <2>5 DEF GroupsUpTo, y
<1> QED BY <1>9, <1>10

LEMMA GroupsOfCalls ==
  ASSUME LogOK, NEW at \in Nat, NEW rows, LatestFirst(rows, logged, at)
  PROVE  GroupByDay(rows, at)[1] \o GroupByDay(rows, at)[2] = rows
<1> DEFINE n == Len(rows)
<1>1. rows \in Seq(Nat) /\ n \in Nat /\ SubSeq(rows, 1, n) = rows
  <2>1. rows \in Seq(1 .. Len(logged)) /\ Len(logged) \in Nat
    BY LogEntries DEF LatestFirst
  <2> QED BY <2>1
<1>2. PICK g : /\ g \in [0 .. n -> GroupPairs]
               /\ g[0] = << <<>>, <<>> >> /\ g[n] = GroupByDay(rows, at)
               /\ \A k \in 0 .. n : k < n => g[k + 1] = NextGroups(g[k], rows[k + 1], at)
  BY <1>1, GroupsLoop
<1> DEFINE P == {k \in 0 .. n : GroupsUpTo(g[k], rows, k, at)}
<1>3. 0 \in P
  <2>1. 0 \in 0 .. n /\ g[0] \in GroupPairs
    BY <1>1, <1>2
  <2>2. g[0][1] = <<>> /\ g[0][2] = <<>>
    BY <1>2
  <2>3. <<>> \o <<>> = <<>> /\ SubSeq(rows, 1, 0) = <<>>
    BY <1>1
  <2> HIDE DEF n
  <2> QED BY <2>1, <2>2, <2>3 DEF GroupsUpTo
<1>4. ASSUME NEW k \in 0 .. n, k < n, k \in P PROVE k + 1 \in P
  <2>1. GroupsUpTo(g[k], rows, k, at) /\ k \in Nat /\ k + 1 \in 0 .. n
    BY <1>1, <1>4
  <2>2. GroupsUpTo(NextGroups(g[k], rows[k + 1], at), rows, k + 1, at)
    BY <1>4, <2>1, GroupsGrow
  <2> QED BY <1>2, <1>4, <2>1, <2>2
<1>5. GroupsUpTo(g[n], rows, n, at)
  <2> HIDE DEF P, n
  <2>1. \A k \in 0 .. n : k < n /\ k \in P => k + 1 \in P
    BY <1>4
  <2>2. \A k \in 0 .. n : k \in P
    BY <1>1, <1>3, <2>1, Throughout
  <2>3. n \in P
    BY <1>1, <2>2
  <2> QED BY <2>3 DEF P
<1> QED BY <1>1, <1>2, <1>5 DEF GroupsUpTo

LEMMA CallsInit == Init => CallsInv
<1> SUFFICES ASSUME Init PROVE CallsInv
  OBVIOUS
<1>1. /\ now = FirstTime[open] /\ logged = Logged[open] /\ calls = CallsOpened /\ callsLoad = FirstCalls(open)
      /\ FirstTime[open] \in 1 .. LastTime /\ LastTime \in Nat
      /\ Logged[open] \in Seq([kind : {"inquiry", "booked", "other"}, start : 0 .. FirstTime[open]])
  BY StartAssumption, ReportsAssumption DEF Init
<1> DEFINE T == [kind : {"inquiry", "booked", "other"}, start : 0 .. FirstTime[open]]
<1>2. LogOK
  <2>1. T \subseteq Entry /\ \A e \in T : e.start <= FirstTime[open]
    BY <1>1 DEF Entry
  <2>2. Logged[open] \in Seq(T)
    BY <1>1
  <2> HIDE DEF T
  <2>3. Logged[open] \in Seq(Entry) /\ \A i \in DOMAIN Logged[open] : Logged[open][i] \in T
    BY <2>1, <2>2
  <2> QED BY <1>1, <2>1, <2>3 DEF LogOK
<1>3. <<>> \in Seq(Nat)
  OBVIOUS
<1>4. CallsTypes
  <2>1. CallsOpened \in [shown : {"skeleton", "error", "empty", "rows"}, rows : Seq(Nat),
                         selected : Nat, drawn : 0 .. LastTime]
    BY <1>1, <1>3 DEF CallsOpened
  <2>2. FirstCalls(open) \in [at : {"none", "sent", "ok", "error"}, rows : Seq(Nat)]
    BY <1>3 DEF FirstCalls, NoCallsLoad
  <2>3. CallsOpened.selected = 0
    BY DEF CallsOpened
  <2> QED BY <1>1, <2>1, <2>2, <2>3 DEF CallsTypes
<1>5. /\ calls.rows = <<>> /\ calls.drawn = 0 /\ calls.selected = 0 /\ calls.shown = "skeleton"
      /\ callsLoad.rows = <<>>
  BY <1>1 DEF CallsOpened, FirstCalls, NoCallsLoad
<1>6. LatestFirst(<<>>, logged, 0) /\ LatestFirst(<<>>, logged, now) /\ now \in Nat
  BY <1>2, LogEntries, NoCallsFound
<1> QED BY <1>2, <1>4, <1>5, <1>6 DEF CallsInv

(* Cut into today's and the earlier ones, the calls stay as the API orders *)
(* them, latest first (CallsInOrder).                                      *)
THEOREM CallsCorrect == Spec => []CallsInOrder
<1>1. CallsInv => CallsInOrder
  <2> SUFFICES ASSUME CallsInv PROVE CallsInOrder
    OBVIOUS
  <2>1. LogOK /\ calls.drawn \in Nat /\ LatestFirst(calls.rows, logged, calls.drawn)
    BY ReportsAssumption DEF CallsInv, CallsTypes
  <2>2. GroupByDay(calls.rows, calls.drawn)[1] \o GroupByDay(calls.rows, calls.drawn)[2] = calls.rows
    BY <2>1, GroupsOfCalls
  <2> QED BY <2>2 DEF CallsInOrder
<1> QED BY <1>1, CallsInit, CallsStep, PTL DEF Spec

-----------------------------------------------------------------------------
(* The volume chart.                                                       *)

Handled == {"booked", "other"}

(* What the queries of a summary served so far have counted, while nothing *)
(* has been logged since the first of them.                                *)
Counted(s) ==
  LET handled == Since(From(s), Handled) IN
  /\ s.to \in Nat
  /\ "calls" \notin s.todo => s.points = BucketByDay(handled, From(s), s.to)
  /\ "outcomes" \notin s.todo => /\ s.total = Cardinality(handled)
                                 /\ s.late = Cardinality(Later(handled, s.to))

AddsUp(s) == SumFunction(s.points) + s.late = s.total

SummaryFields ==
  /\ {"at", "range", "to", "todo", "points", "total", "booked", "themes", "late", "torn"} \subseteq DOMAIN summary
  /\ {"range", "shown", "data", "blank"} \subseteq DOMAIN charts
  /\ charts.range \in Ranges /\ charts.shown \in {"skeleton", "error", "empty", "charts"}
  /\ summary.todo \subseteq Queries /\ summary.range \in Nat
  /\ summary.at = "none" => summary = NoSummary

VolumeInv ==
  /\ LogOK /\ SummaryFields
  /\ summary.at = "sent" => summary.todo = Queries
  /\ summary.at = "running" /\ ~summary.torn => Counted(summary)
  /\ summary.at = "ok" /\ ~summary.torn => AddsUp(summary)
  /\ charts.shown = "charts" /\ ~charts.data.torn => AddsUp(charts.data)

LEMMA BucketsAddUp ==
  ASSUME LogOK, NEW from \in Int, NEW to \in Nat
  PROVE  LET handled == Since(from, Handled)
         IN  SumFunction(BucketByDay(handled, from, to)) + Cardinality(Later(handled, to))
               = Cardinality(handled)
<1> DEFINE A == Since(from, Handled)
           L == Later(A, to)
           S == {i \in A : UtcDay(logged[i].start) <= UtcDay(to)}
           D == UtcDay(from) .. UtcDay(to)
           k == [i \in S |-> UtcDay(logged[i].start)]
           f == BucketByDay(A, from, to)
<1>1. /\ Len(logged) \in Nat /\ DOMAIN logged = 1 .. Len(logged)
      /\ \A i \in 1 .. Len(logged) : logged[i].start \in Nat
  BY LogEntries
<1>2. /\ A \in SUBSET (1 .. Len(logged)) /\ IsFiniteSet(1 .. Len(logged))
      /\ \A i \in A : from <= logged[i].start /\ logged[i].start \in Nat
  <2>1. A = {i \in 1 .. Len(logged) : logged[i].kind \in Handled /\ logged[i].start >= from}
    BY <1>1 DEF Since
  <2>2. IsFiniteSet(1 .. Len(logged))
    BY <1>1, FS_Interval
  <2> HIDE DEF A
  <2> QED BY <1>1, <2>1, <2>2
<1>3. UtcDay(from) \in Int /\ UtcDay(to) \in Int /\ IsFiniteSet(D)
  <2>1. UtcDay(from) \in Int /\ UtcDay(to) \in Int
    BY DEF UtcDay
  <2> QED BY <2>1, FS_Interval
<1>4. \A i \in A : UtcDay(logged[i].start) \in Int /\ UtcDay(from) <= UtcDay(logged[i].start)
  <2> SUFFICES ASSUME NEW i \in A
               PROVE  UtcDay(logged[i].start) \in Int /\ UtcDay(from) <= UtcDay(logged[i].start)
    OBVIOUS
  <2>1. from <= logged[i].start /\ logged[i].start \in Nat
    BY <1>2
  <2> HIDE DEF A
  <2> QED BY <2>1 DEF UtcDay
<1> HIDE DEF A
<1>5. /\ IsFiniteSet(A) /\ IsFiniteSet(S) /\ IsFiniteSet(L)
      /\ A = S \cup L /\ S \cap L = {}
  <2>1. IsFiniteSet(A)
    BY <1>2, FS_Subset
  <2>2. S \in SUBSET A /\ L \in SUBSET A
    BY DEF Later
  <2>3. A = S \cup L /\ S \cap L = {}
    BY <1>3, <1>4 DEF Later
  <2> QED BY <2>1, <2>2, <2>3, FS_Subset
<1>6. Cardinality(A) = Cardinality(S) + Cardinality(L)
  <2>1. /\ Cardinality(S \cup L) = Cardinality(S) + Cardinality(L) - Cardinality(S \cap L)
        /\ Cardinality({}) = 0
    BY <1>5, FS_Union, FS_EmptySet
  <2>2. Cardinality(S) \in Nat /\ Cardinality(L) \in Nat
    BY <1>5, FS_CardinalityType
  <2>3. Cardinality(A) = Cardinality(S) + Cardinality(L) - 0
    BY <1>5, <2>1, Zenon
  <2> HIDE DEF S, L
  <2> QED BY <2>2, <2>3
<1>7. k \in [S -> D]
  <2>1. ASSUME NEW i \in S PROVE UtcDay(logged[i].start) \in D
    <3>1. /\ UtcDay(logged[i].start) \in Int /\ UtcDay(from) <= UtcDay(logged[i].start)
          /\ UtcDay(logged[i].start) <= UtcDay(to)
      BY <1>4
    <3> QED BY <1>3, <3>1
  <2> HIDE DEF S, D
  <2> QED BY <2>1
<1>8. f = [d \in D |-> Cardinality({i \in S : k[i] = d})]
  <2>1. ASSUME NEW d \in D
        PROVE  {i \in A : UtcDay(logged[i].start) = d} = {i \in S : k[i] = d}
    BY <1>3
  <2> HIDE DEF S, k, D
  <2>2. f = [d \in D |-> Cardinality({i \in A : UtcDay(logged[i].start) = d})]
    BY DEF BucketByDay, D
  <2> QED BY <2>1, <2>2
<1> HIDE DEF S, D, k, f, L
<1>9. SumFunction([d \in D |-> Cardinality({i \in S : k[i] = d})]) = Cardinality(S)
  BY <1>3, <1>5, <1>7, CountsAddUp
<1> QED BY <1>6, <1>8, <1>9 DEF A, L, f

LEMMA AskedSummary ==
  ASSUME NEW s, \/ s \in {NoSummary, SummaryClosed}
                \/ \E range \in Nat : s = AskSummary(range)
  PROVE  /\ {"at", "range", "to", "todo", "points", "total", "booked", "themes", "late", "torn"} \subseteq DOMAIN s
         /\ s.todo \subseteq Queries /\ s.range \in Nat
         /\ s.at = "none" => s = NoSummary
         /\ s.at \notin {"ok", "running"} /\ (s.at = "sent" => s.todo = Queries)
<1>1. CASE s = NoSummary
  BY <1>1 DEF NoSummary
<1>2. CASE s = SummaryClosed
  BY <1>2 DEF SummaryClosed, NoSummary
<1>3. ASSUME NEW range \in Nat, s = AskSummary(range)
      PROVE  /\ {"at", "range", "to", "todo", "points", "total", "booked", "themes", "late", "torn"} \subseteq DOMAIN s
             /\ s.todo = Queries /\ s.range \in Nat /\ s.at = "sent"
  BY <1>3 DEF AskSummary, NoSummary
<1> QED BY <1>1, <1>2, <1>3

LEMMA VolumeAsk ==
  ASSUME LogOK', {"range", "shown", "data", "blank"} \subseteq DOMAIN charts', charts'.range \in Ranges,
         charts'.shown \in {"skeleton", "error", "empty"},
         \/ summary' \in {NoSummary, SummaryClosed}
         \/ \E range \in Nat : summary' = AskSummary(range)
  PROVE  VolumeInv'
<1>1. /\ {"at", "range", "to", "todo", "points", "total", "booked", "themes", "late", "torn"} \subseteq DOMAIN summary'
      /\ summary'.todo \subseteq Queries /\ summary'.range \in Nat
      /\ summary'.at = "none" => summary' = NoSummary
      /\ summary'.at \notin {"ok", "running"} /\ (summary'.at = "sent" => summary'.todo = Queries)
  BY AskedSummary
<1> QED BY <1>1 DEF VolumeInv, SummaryFields, Counted

LEMMA OpenedCharts ==
  /\ {"range", "shown", "data", "blank"} \subseteq DOMAIN ChartsOpened
  /\ ChartsOpened.range \in Ranges /\ ChartsOpened.shown = "skeleton"
BY ReportsAssumption DEF ChartsOpened

LEMMA VolumeStart ==
  ASSUME VolumeInv, LogOK', StartSummary
  PROVE  VolumeInv'
<1>1. /\ summary.at = "sent" /\ summary' = [summary EXCEPT !.at = "running", !.to = now]
      /\ UNCHANGED charts
  BY DEF StartSummary
<1>2. /\ DOMAIN summary' = DOMAIN summary /\ summary'.at = "running" /\ summary'.to = now
      /\ summary'.todo = Queries /\ summary'.range = summary.range
  BY <1>1 DEF VolumeInv, SummaryFields
<1>3. Counted(summary)'
  BY <1>2, ReportsAssumption DEF Counted, Queries, VolumeInv, LogOK
<1> QED BY <1>1, <1>2, <1>3 DEF VolumeInv, SummaryFields, AddsUp

LEMMA VolumeServe ==
  ASSUME VolumeInv, LogOK', ServeQuery
  PROVE  VolumeInv'
<1> DEFINE todo == summary.todo
           from == From(summary)
           to == summary.to
           calls0 == Since(from, Handled)
<1>1. PICK query \in todo :
        LET r == [summary EXCEPT !.todo = @ \ {query}, !.at = IF todo = {query} THEN "ok" ELSE @]
        IN summary' =
             CASE query = "calls" ->
                    [r EXCEPT !.points = BucketByDay(calls0, from, to)]
               [] query = "outcomes" ->
                    [r EXCEPT !.total = Cardinality(calls0),
                              !.booked = Cardinality(Since(from, {"booked"})),
                              !.late = Cardinality(Later(calls0, to))]
               [] query = "themes" ->
                    [r EXCEPT !.themes = Cardinality(Since(from, {"inquiry"}))]
  BY DEF ServeQuery, Handled
<1>2. /\ summary.at = "running" /\ UNCHANGED <<now, logged, charts>>
      /\ {"at", "range", "to", "todo", "points", "total", "booked", "themes", "late", "torn"} \subseteq DOMAIN summary
      /\ todo \subseteq Queries /\ summary.range \in Nat
  BY DEF ServeQuery, VolumeInv, SummaryFields
<1>3. /\ {"at", "range", "to", "todo", "points", "total", "booked", "themes", "late", "torn"} \subseteq DOMAIN summary'
      /\ summary'.todo = todo \ {query} /\ summary'.to = to /\ summary'.range = summary.range
      /\ summary'.torn = summary.torn
      /\ summary'.at = IF todo = {query} THEN "ok" ELSE "running"
      /\ summary'.points = IF query = "calls" THEN BucketByDay(calls0, from, to) ELSE summary.points
      /\ summary'.total = IF query = "outcomes" THEN Cardinality(calls0) ELSE summary.total
      /\ summary'.late = IF query = "outcomes" THEN Cardinality(Later(calls0, to)) ELSE summary.late
  <2> HIDE DEF calls0, from, to
  <2> QED BY <1>1, <1>2 DEF Queries, to
<1>4. From(summary') = from
  BY <1>3 DEF From
<1>5. ASSUME ~summary.torn
      PROVE  /\ to \in Nat
             /\ "calls" \notin summary'.todo => summary'.points = BucketByDay(calls0, from, to)
             /\ "outcomes" \notin summary'.todo => /\ summary'.total = Cardinality(calls0)
                                                   /\ summary'.late = Cardinality(Later(calls0, to))
  <2>1. Counted(summary)
    BY <1>2, <1>5 DEF VolumeInv
  <2> QED BY <1>3, <2>1 DEF Counted
<1>6. \A f, K : Since(f, K)' = Since(f, K)
  BY <1>2 DEF Since
<1>7. \A f, t, T : BucketByDay(T, f, t)' = BucketByDay(T, f, t) /\ Later(T, t)' = Later(T, t)
  BY <1>2 DEF BucketByDay, Later
<1>8. summary'.at = "running" /\ ~summary'.torn => Counted(summary)'
  BY <1>2, <1>3, <1>4, <1>5, <1>6, <1>7 DEF Counted
<1>9. ASSUME summary'.at = "ok", ~summary'.torn PROVE AddsUp(summary)'
  <2>1. summary'.todo = {}
    BY <1>3, <1>9
  <2>2. /\ summary'.points = BucketByDay(calls0, from, to) /\ summary'.total = Cardinality(calls0)
        /\ summary'.late = Cardinality(Later(calls0, to))
    BY <1>3, <1>5, <1>9, <2>1
  <2>3. from \in Int /\ to \in Nat
    BY <1>2, <1>3, <1>5, <1>9 DEF From
  <2> HIDE DEF from, to
  <2>4. SumFunction(BucketByDay(calls0, from, to)) + Cardinality(Later(calls0, to)) = Cardinality(calls0)
    BY <2>3, BucketsAddUp DEF VolumeInv
  <2> QED BY <2>2, <2>4 DEF AddsUp
<1>10. SummaryFields'
  BY <1>2, <1>3 DEF VolumeInv, SummaryFields
<1>11. charts'.shown = "charts" /\ ~charts'.data.torn => AddsUp(charts'.data)
  BY <1>2 DEF VolumeInv
<1> QED BY <1>3, <1>8, <1>9, <1>10, <1>11 DEF VolumeInv, AddsUp

LEMMA VolumeStep ==
  ASSUME VolumeInv, [Next]_vars
  PROVE  VolumeInv'
<1>0. LogOK'
  BY LogStep DEF VolumeInv
<1>1. ASSUME UNCHANGED <<logged, charts, summary>> PROVE VolumeInv'
  BY <1>0, <1>1 DEF VolumeInv, SummaryFields, Counted, Since, BucketByDay, Later, AddsUp
<1>2. ASSUME NEW page, charts' = ChartsOpened, summary' = FirstSummary(page)
      PROVE  VolumeInv'
  <2>1. summary' = SummaryClosed \/ \E range \in Nat : summary' = AskSummary(range)
    BY <1>2, ReportsAssumption DEF FirstSummary
  <2> QED BY <1>0, <1>2, <2>1, VolumeAsk, OpenedCharts
<1>13. CASE StartSummary
  BY <1>0, <1>13, VolumeStart
<1>3. CASE ServeQuery
  BY <1>0, <1>3, VolumeServe
<1>4. CASE ReportFails
  <2>1. summary' = summary \/ summary' = [summary EXCEPT !.at = "error"]
    BY <1>4 DEF ReportFails
  <2>2. UNCHANGED <<logged, charts>>
    BY <1>4 DEF ReportFails
  <2>3. CASE summary' = summary
    BY <1>1, <2>2, <2>3
  <2>4. CASE summary' = [summary EXCEPT !.at = "error"]
    BY <1>0, <2>2, <2>4 DEF VolumeInv, SummaryFields
  <2> QED BY <2>1, <2>3, <2>4
<1>5. CASE Log
  <2> DEFINE torn == summary.torn \/ (summary.at = "running" /\ summary.todo # Queries)
  <2>1. summary' = [summary EXCEPT !.torn = torn] /\ charts' = charts
    BY <1>5 DEF Log
  <2>2. /\ DOMAIN summary' = DOMAIN summary /\ summary'.at = summary.at /\ summary'.range = summary.range
        /\ summary'.todo = summary.todo /\ summary'.points = summary.points
        /\ summary'.total = summary.total /\ summary'.late = summary.late
        /\ summary'.to = summary.to /\ summary'.torn = torn
    <3> HIDE DEF torn
    <3> QED BY <2>1 DEF VolumeInv, SummaryFields
  <2>3. SummaryFields'
    <3>1. ASSUME summary.at = "none" PROVE summary' = NoSummary
      <4>1. summary = NoSummary /\ torn = FALSE
        BY <3>1 DEF VolumeInv, SummaryFields, NoSummary
      <4> HIDE DEF torn
      <4> QED BY <2>1, <4>1 DEF NoSummary
    <3> HIDE DEF torn
    <3> QED BY <2>1, <2>2, <3>1 DEF VolumeInv, SummaryFields
  <2>4. summary'.at = "running" /\ ~summary'.torn => Counted(summary)'
    BY <2>2 DEF Counted, VolumeInv, Queries
  <2>5. summary'.at = "ok" /\ ~summary'.torn => AddsUp(summary)'
    BY <2>2 DEF VolumeInv, AddsUp
  <2> QED BY <1>0, <2>1, <2>2, <2>3, <2>4, <2>5 DEF VolumeInv
<1>6. CASE HearSummary
  <2>1. summary' = NoSummary /\ logged' = logged
    BY <1>6 DEF HearSummary
  <2>2. /\ {"at", "range", "to", "todo", "points", "total", "booked", "themes", "late", "torn"} \subseteq DOMAIN summary'
        /\ summary'.todo \subseteq Queries /\ summary'.range \in Nat /\ summary'.at = "none"
    BY <2>1 DEF NoSummary
  <2>3. CASE summary.at = "ok"
    <3>1. charts' = [charts EXCEPT !.shown = ChartsShown(summary), !.data = summary]
      BY <1>6, <2>3 DEF HearSummary
    <3>2. /\ DOMAIN charts' = DOMAIN charts /\ charts'.data = summary /\ charts'.range = charts.range
          /\ charts'.shown \in {"empty", "charts"}
      BY <3>1 DEF VolumeInv, SummaryFields, ChartsShown
    <3>3. SummaryFields'
      BY <2>1, <2>2, <3>2 DEF VolumeInv, SummaryFields
    <3>4. ~charts'.data.torn => AddsUp(charts'.data)
      BY <2>3, <3>2 DEF VolumeInv
    <3> QED BY <1>0, <2>2, <3>3, <3>4 DEF VolumeInv, AddsUp
  <2>4. CASE summary.at # "ok"
    <3>1. charts' = [charts EXCEPT !.shown = "error"]
      BY <1>6, <2>4 DEF HearSummary
    <3>2. DOMAIN charts' = DOMAIN charts /\ charts'.shown = "error" /\ charts'.range = charts.range
      BY <3>1 DEF VolumeInv, SummaryFields
    <3> QED BY <1>0, <2>1, <3>2, VolumeAsk DEF VolumeInv, SummaryFields
  <2> QED BY <2>3, <2>4
<1>7. CASE RetryCharts
  <2>1. /\ charts' = [charts EXCEPT !.shown = "skeleton", !.data = NoSummary]
        /\ summary' = AskSummary(charts.range)
    BY <1>7 DEF RetryCharts
  <2>2. /\ charts.range \in Nat /\ DOMAIN charts' = DOMAIN charts /\ charts'.shown = "skeleton"
        /\ charts'.range = charts.range
    BY <2>1, ReportsAssumption DEF VolumeInv, SummaryFields
  <2> QED BY <1>0, <2>1, <2>2, VolumeAsk DEF VolumeInv, SummaryFields
<1>8. CASE SelectRange
  <2>1. PICK range \in Ranges :
          /\ charts' = [ChartsOpened EXCEPT !.range = range,
                                         !.blank = (range = charts.range /\ summary.at = "none")]
          /\ summary' = IF range = charts.range THEN summary ELSE AskSummary(range)
    BY <1>8 DEF SelectRange
  <2>2. /\ {"range", "shown", "data", "blank"} \subseteq DOMAIN charts'
        /\ charts'.range = range /\ charts'.shown = "skeleton"
    BY <2>1 DEF ChartsOpened
  <2>3. CASE range = charts.range
    <3>1. summary' = summary /\ logged' = logged
      BY <1>8, <2>1, <2>3 DEF SelectRange
    <3>2. SummaryFields'
      BY <2>2, <3>1 DEF VolumeInv, SummaryFields
    <3>3. Counted(summary)' = Counted(summary) /\ AddsUp(summary)' = AddsUp(summary)
      BY <3>1 DEF Counted, Since, BucketByDay, Later, AddsUp
    <3> QED BY <1>0, <2>2, <3>1, <3>2, <3>3 DEF VolumeInv
  <2>4. CASE range # charts.range
    <3>1. summary' = AskSummary(range) /\ range \in Nat
      BY <2>1, <2>4, ReportsAssumption
    <3> QED BY <1>0, <2>2, <3>1, VolumeAsk
  <2> QED BY <2>3, <2>4
<1>9. CASE OnReports
  BY <1>1, <1>13, <1>3, <1>4, <1>5, <1>6, <1>7, <1>8, <1>9
     DEF OnReports, Tick, ServeCalls, HearCalls, RetryCalls, SelectCall, CloseCall
<1>10. ASSUME NEW t \in Tabs, Navigate(t) \/ SignOut(t) PROVE VolumeInv'
  BY <1>2, <1>10 DEF Navigate, SignOut, Open
<1>11. ASSUME NEW t \in Tabs, OnSettings(t) PROVE VolumeInv'
  BY <1>1, <1>11 DEF OnSettings, Reports
<1>12. CASE OnBookings \/ ServeSaves \/ UNCHANGED vars
  BY <1>1, <1>12 DEF OnBookings, ServeSaves, Reports, vars
<1> QED BY <1>9, <1>10, <1>11, <1>12 DEF Next

LEMMA VolumeInit == Init => VolumeInv
<1> SUFFICES ASSUME Init PROVE VolumeInv
  OBVIOUS
<1>1. LogOK /\ charts = ChartsOpened /\ summary = FirstSummary(open)
  BY CallsInit DEF CallsInv, Init
<1>2. summary = SummaryClosed \/ \E range \in Nat : summary = AskSummary(range)
  BY <1>1, ReportsAssumption DEF FirstSummary
<1>3. /\ {"at", "range", "to", "todo", "points", "total", "booked", "themes", "late", "torn"} \subseteq DOMAIN summary
      /\ summary.todo \subseteq Queries /\ summary.range \in Nat
      /\ summary.at = "none" => summary = NoSummary
      /\ summary.at \notin {"ok", "running"} /\ (summary.at = "sent" => summary.todo = Queries)
  BY <1>2, AskedSummary
<1> QED BY <1>1, <1>3, OpenedCharts DEF VolumeInv, SummaryFields, Counted

(* The volume chart adds up to the total shown beside it but for the calls *)
(* that began after the UTC day of the request, unless something was       *)
(* logged between the queries (VolumeAddsUp).                              *)
THEOREM VolumeCorrect == Spec => []VolumeAddsUp
<1>1. VolumeInv => VolumeAddsUp
  BY DEF VolumeInv, VolumeAddsUp, AddsUp
<1> QED BY <1>1, VolumeInit, VolumeStep, PTL DEF Spec

-----------------------------------------------------------------------------
(* Types.                                                                  *)

FormType == [details : Org, numbers : Org, hours : [Days -> Org]]
LoadType == [at : {"sent", "ok", "error"}, row : ProfileRow]

(* A request, and what it saves is of a form.                              *)
SaveType(q) == q \in Request /\ (q.kind = "save" => q.arg \in Org /\ q.todo \subseteq Days)

(* A save is under way only while none is shown as done or failed.         *)
SettingsTypes ==
  /\ settings.form \in FormType /\ settings.sent \in FormType
  /\ settings.saved => settings.loaded /\ ~settings.saveError /\ ~settings.submitting
  /\ settings.submitting => ~settings.saved /\ ~settings.saveError
  /\ loads \in Seq(LoadType) /\ Len(loads) <= MaxLoads

ShellTypes == open \in DashboardPages \cup {"sign-in"} /\ moves \in Nat /\ faults \in 0 .. MaxFaults

SavesTypes ==
  /\ req \in [Slots -> Request] /\ \A r \in Slots : SaveType(req[r])
  /\ profile \in [Names -> ProfileRow]
  /\ whole \in [Names -> {Mixed} \cup FormType]

PageTypes == ShellTypes /\ SavesTypes /\ SettingsTypes

LEMMA FreeType == SaveType(Free)
BY DEF SaveType, Free, Request, Org, NoHours

LEMMA SettledType ==
  ASSUME NEW q, SaveType(q)
  PROVE  SaveType(Settled(q))
BY FreeType DEF Settled

LEMMA UnheardTypes ==
  ASSUME SavesTypes, NEW t
  PROVE  Unheard(t) \in [Slots -> Request] /\ \A r \in Slots : SaveType(Unheard(t)[r])
<1>1. ASSUME NEW r \in Slots PROVE SaveType([req[r] EXCEPT !.from = None])
  BY DEF SavesTypes, SaveType, Request
<1>2. ASSUME NEW r \in Slots PROVE SaveType(Unheard(t)[r])
  BY <1>1, SettledType DEF Unheard, SavesTypes
<1>3. Unheard(t) \in [Slots -> Request]
  <2>1. \A r \in Slots : Unheard(t)[r] \in Request
    BY <1>2 DEF SaveType
  <2> QED BY <2>1 DEF Unheard
<1> QED BY <1>2, <1>3

LEMMA FormTypes == NoForm \in FormType /\ NoHours \in [Days -> Org] /\ NoProfile \in ProfileRow
BY DEF NoForm, FormType, Form, NoHours, NoProfile, ProfileRow, Org

LEMMA AskedForm ==
  ASSUME NEW form \in FormType, NEW t \in Tabs, NEW answer \in {"none", "unsigned", "no-org", "invalid"},
         NEW org \in Org
  PROVE  LET q == [Ask("save", "find") EXCEPT !.arg = form.details, !.numbers = form.numbers,
                                              !.hours = form.hours]
         IN  /\ q.kind = "save"
             /\ SaveType([q EXCEPT !.from = t, !.org = org, !.answer = answer])
             /\ SaveType([Ask("save", "end") EXCEPT !.from = t, !.org = org, !.answer = answer])
<1>1. form.details \in Org /\ form.numbers \in Org /\ form.hours \in [Days -> Org]
  BY DEF FormType
<1> QED BY <1>1 DEF Ask, Free, SaveType, Request, NoHours, Org

LEMMA SaveTypes ==
  ASSUME SavesTypes, NEW t \in Tabs, NEW admitted \in BOOLEAN, NEW form \in FormType,
         PostSave(SignedInto(Home), t, form, admitted), UNCHANGED profile
  PROVE  SavesTypes'
<1> DEFINE s == SignedInto(Home)
           q == [Ask("save", "find") EXCEPT !.arg = form.details, !.numbers = form.numbers,
                                            !.hours = form.hours]
           answer == IF Guard(s) = "none" /\ ~admitted THEN "invalid" ELSE Guard(s)
           sent == IF answer = "none" THEN q ELSE Ask(q.kind, "end")
           u == [sent EXCEPT !.from = t, !.org = s.active, !.answer = answer]
<1>1. PICK r \in Slots : req' = [Unheard(t) EXCEPT ![r] = u]
  BY DEF PostSave, Post
<1>2. answer \in {"none", "unsigned", "no-org", "invalid"} /\ s.active \in Org
  BY HomeAssumption DEF Guard, SignedInto, Org
<1> HIDE DEF answer, s
<1>3. SaveType(u)
  BY <1>2, AskedForm
<1> HIDE DEF u
<1>4. req' \in [Slots -> Request] /\ \A x \in Slots : SaveType(req'[x])
  BY <1>1, <1>3, UnheardTypes DEF SaveType
<1>5. whole' \in [Names -> {Mixed} \cup FormType]
  <2>1. \/ whole' = whole
        \/ \E w \in {NoForm, Mixed} : whole' = [whole EXCEPT ![Home] = w]
    BY DEF PostSave, SignedInto
  <2> QED BY <2>1, FormTypes, HomeAssumption DEF SavesTypes
<1> QED BY <1>4, <1>5 DEF SavesTypes

(* A request that is being served.                                         *)
LEMMA ServedType ==
  ASSUME NEW q, SaveType(q),
         NEW at \in {"find", "write", "days", "numbers", "read", "profile", "search", "mark", "end"},
         NEW row \in Nat, NEW todo \in SUBSET Days, NEW answer \in {"none", "ok", "error"}
  PROVE  /\ SaveType([q EXCEPT !.at = at])
         /\ SaveType([q EXCEPT !.at = at, !.row = row])
         /\ SaveType([q EXCEPT !.at = at, !.todo = todo])
         /\ SaveType([q EXCEPT !.todo = todo, !.at = at])
         /\ SaveType([q EXCEPT !.answer = answer, !.at = at])
         /\ SaveType([q EXCEPT !.todo = todo, !.at = at, !.answer = answer])
         /\ SaveType([q EXCEPT !.answer = answer, !.at = at, !.todo = todo])
<1> DEFINE K == {"free", "save", "plan", "status", "me", "provision", "verify"}
           T == {"find", "write", "days", "numbers", "read", "profile", "search", "mark", "end"}
           A == {"none", "ok", "error", "unsigned", "no-org", "invalid", "conflict", "missing"}
           R == [kind : K, from : Tabs \cup {None}, org : Org, arg : Org \cup Plans \cup Status,
                 numbers : Org, hours : [Days -> Org], at : T,
                 row : Nat, asked : Nat \cup {None}, seen : SUBSET {"profile", "plan", "number"},
                 todo : SUBSET (Days \cup {"profile", "plan", "number"}), answer : A]
<1>1. Request = R
  BY DEF Request
<1>2. q \in R /\ at \in T /\ answer \in A /\ todo \in SUBSET (Days \cup {"profile", "plan", "number"})
  BY <1>1 DEF SaveType
<1>3. q.kind = "save" => q.arg \in Org /\ q.todo \subseteq Days
  BY DEF SaveType
<1> HIDE DEF K, T, A
<1>4. /\ [q EXCEPT !.at = at] \in R
      /\ [q EXCEPT !.at = at, !.row = row] \in R
  BY <1>2
<1>5. /\ [q EXCEPT !.at = at, !.todo = todo] \in R
      /\ [q EXCEPT !.todo = todo, !.at = at] \in R
  BY <1>2
<1>6. [q EXCEPT !.answer = answer, !.at = at] \in R
  BY <1>2
<1>7. /\ [q EXCEPT !.todo = todo, !.at = at, !.answer = answer] \in R
      /\ [q EXCEPT !.answer = answer, !.at = at, !.todo = todo] \in R
  BY <1>2
<1>8. \A u \in R : u.kind = q.kind /\ u.arg = q.arg /\ u.todo \in {q.todo, todo} => SaveType(u)
  BY <1>1, <1>3 DEF SaveType
<1>9. /\ SaveType([q EXCEPT !.at = at])
      /\ SaveType([q EXCEPT !.at = at, !.row = row])
  BY <1>2, <1>4, <1>8
<1>10. /\ SaveType([q EXCEPT !.at = at, !.todo = todo])
      /\ SaveType([q EXCEPT !.todo = todo, !.at = at])
  BY <1>2, <1>5, <1>8
<1>11. SaveType([q EXCEPT !.answer = answer, !.at = at])
  BY <1>2, <1>6, <1>8
<1>12. /\ SaveType([q EXCEPT !.todo = todo, !.at = at, !.answer = answer])
      /\ SaveType([q EXCEPT !.answer = answer, !.at = at, !.todo = todo])
  BY <1>2, <1>7, <1>8
<1> QED BY <1>9, <1>10, <1>11, <1>12

LEMMA ServesTypes ==
  ASSUME SavesTypes, NEW r \in Slots, NEW u, SaveType(u),
         req' = [req EXCEPT ![r] = Settled(u)] \/ req' = [req EXCEPT ![r] = u],
         profile' \in [Names -> ProfileRow], whole' \in [Names -> {Mixed} \cup FormType]
  PROVE  SavesTypes'
<1>1. SaveType(Settled(u)) /\ Settled(u) \in Request /\ u \in Request
  BY SettledType DEF SaveType
<1> QED BY <1>1 DEF SavesTypes

LEMMA ProfileTypes ==
  ASSUME profile \in [Names -> ProfileRow], NEW o \in Names, NEW x \in Org, NEW d \in Days
  PROVE  /\ [profile EXCEPT ![o].name = x] \in [Names -> ProfileRow]
         /\ [profile EXCEPT ![o].numbers = x] \in [Names -> ProfileRow]
         /\ [profile EXCEPT ![o].hours[d] = x] \in [Names -> ProfileRow]
<1>1. \A p \in ProfileRow : /\ [p EXCEPT !.name = x] \in ProfileRow
                            /\ [p EXCEPT !.numbers = x] \in ProfileRow
                            /\ [p EXCEPT !.hours[d] = x] \in ProfileRow
  BY DEF ProfileRow
<1> QED BY <1>1

LEMMA ServeSaveTypes ==
  ASSUME SavesTypes, RequestsOK, NEW r \in Slots,
         \/ ServeProfile(r) \/ SaveDayFails(r)
         \/ CallFails(r) /\ UNCHANGED <<profile, whole>>
  PROVE  SavesTypes'
<1> DEFINE q == req[r]
<1>1. /\ SaveType(q) /\ DOMAIN req = Slots /\ RequestOK(q)
      /\ profile \in [Names -> ProfileRow] /\ whole \in [Names -> {Mixed} \cup FormType]
  BY DEF SavesTypes, RequestsOK
<1>2. /\ q.row \in Nat /\ q.todo \in SUBSET (Days \cup {"profile", "plan", "number"})
      /\ q.at \in {"find", "write", "days", "numbers", "read", "profile", "search", "mark", "end"}
      /\ q.numbers \in Org /\ q.hours \in [Days -> Org]
      /\ q.kind = "save" => q.org = Home /\ q.arg \in Org /\ q.todo \in SUBSET Days
  BY <1>1 DEF SaveType, Request, RequestOK
<1>3. CASE SaveFind(r)
  <2> DEFINE row == IF profile[q.org].name = None THEN 0 ELSE 1
             u == [q EXCEPT !.at = "write", !.row = row]
  <2>1. req' = [req EXCEPT ![r] = u] /\ UNCHANGED <<profile, whole>>
    BY <1>1, <1>3 DEF SaveFind
  <2>2. row \in Nat
    OBVIOUS
  <2> HIDE DEF row
  <2>3. SaveType(u)
    BY <1>1, <2>2, ServedType
  <2> QED BY <1>1, <2>1, <2>3, ServesTypes
<1>4. CASE SaveWrite(r)
  <2>1. CASE q.row = 0 /\ Reply(r, "error") /\ UNCHANGED <<profile, whole>>
    <3>1. SaveType([q EXCEPT !.answer = "error", !.at = "end"])
      BY <1>1, <1>2, ServedType
    <3> QED BY <1>1, <2>1, <3>1, ServesTypes DEF Reply, Answered
  <2>2. CASE ~(q.row = 0 /\ Reply(r, "error") /\ UNCHANGED <<profile, whole>>)
    <3> DEFINE at == IF HourDays(q.hours) = {} THEN "numbers" ELSE "days"
               todo == HourDays(q.hours)
               u == [q EXCEPT !.at = at, !.todo = todo]
    <3>1. /\ req' = [req EXCEPT ![r] = u] /\ whole' = whole /\ q.kind = "save"
          /\ profile' = [profile EXCEPT ![q.org].name = q.arg]
      BY <1>1, <1>4, <2>2 DEF SaveWrite, Serving
    <3>2. at \in {"numbers", "days"} /\ todo \in SUBSET Days
      BY DEF HourDays
    <3> HIDE DEF at, todo
    <3>3. SaveType(u)
      BY <1>1, <3>2, ServedType
    <3>4. profile' \in [Names -> ProfileRow]
      BY <1>1, <1>2, <3>1, HomeAssumption DEF ProfileRow
    <3> QED BY <1>1, <3>1, <3>3, <3>4, ServesTypes
  <2> QED BY <2>1, <2>2
<1>5. CASE SaveDay(r)
  <2>1. PICK d \in q.todo :
          /\ profile' = [profile EXCEPT ![q.org].hours[d] = q.hours[d]]
          /\ req' = [req EXCEPT ![r] =
                   Settled([@ EXCEPT !.todo = q.todo \ {d},
                                     !.at = IF q.at = "days" /\ q.todo = {d} THEN "numbers" ELSE q.at])]
    BY <1>5 DEF SaveDay
  <2> DEFINE todo == q.todo \ {d}
             at == IF q.at = "days" /\ q.todo = {d} THEN "numbers" ELSE q.at
             u == [q EXCEPT !.todo = todo, !.at = at]
  <2>2. req' = [req EXCEPT ![r] = Settled(u)]
    BY <2>1, <1>1
  <2>3. q.kind = "save" /\ whole' = whole
    BY <1>5 DEF SaveDay
  <2>4. /\ todo \in SUBSET Days /\ d \in Days
        /\ at \in {"find", "write", "days", "numbers", "read", "profile", "search", "mark", "end"}
    BY <1>2, <2>3
  <2> HIDE DEF todo, at
  <2>5. SaveType(u)
    BY <1>1, <2>4, ServedType
  <2>6. profile' \in [Names -> ProfileRow]
    BY <1>1, <1>2, <2>1, <2>3, <2>4, HomeAssumption, ProfileTypes
  <2> HIDE DEF u
  <2> QED BY <1>1, <2>2, <2>3, <2>5, <2>6, ServesTypes
<1>6. CASE SaveNumbers(r)
  <2> DEFINE u == [q EXCEPT !.at = "read"]
  <2>1. /\ req' = [req EXCEPT ![r] = u] /\ whole' = whole /\ q.kind = "save"
        /\ profile' = [profile EXCEPT ![q.org].numbers = q.numbers]
    BY <1>1, <1>6 DEF SaveNumbers, Serving
  <2>2. SaveType(u)
    BY <1>1, ServedType
  <2>3. profile' \in [Names -> ProfileRow]
    BY <1>1, <1>2, <2>1, HomeAssumption DEF ProfileRow
  <2> QED BY <1>1, <2>1, <2>2, <2>3, ServesTypes
<1>7. CASE SaveAnswers(r)
  <2> DEFINE u == [q EXCEPT !.answer = "ok", !.at = "end"]
  <2>1. /\ req' = [req EXCEPT ![r] = Settled(u)] /\ profile' = profile /\ q.kind = "save"
        /\ whole' = [whole EXCEPT ![q.org] = IF @ = NoForm THEN Form(q.arg, q.numbers, q.hours) ELSE @]
    BY <1>1, <1>7 DEF SaveAnswers, Reply, Answered, Serving
  <2>2. SaveType(u)
    BY <1>1, ServedType
  <2>3. Form(q.arg, q.numbers, q.hours) \in FormType
    BY <1>2, <2>1 DEF Form, FormType
  <2>4. whole' \in [Names -> {Mixed} \cup FormType]
    BY <1>1, <1>2, <2>1, <2>3, HomeAssumption
  <2> QED BY <1>1, <2>1, <2>2, <2>4, ServesTypes
<1>8. CASE SaveDayFails(r)
  <2>1. PICK d \in q.todo :
          req' = [req EXCEPT ![r] = Settled([@ EXCEPT !.todo = q.todo \ {d}, !.at = "end", !.answer = "error"])]
    BY <1>8 DEF SaveDayFails
  <2> DEFINE todo == q.todo \ {d}
             u == [q EXCEPT !.todo = todo, !.at = "end", !.answer = "error"]
  <2>2. /\ req' = [req EXCEPT ![r] = Settled(u)] /\ UNCHANGED <<profile, whole>> /\ q.kind = "save"
    BY <1>1, <1>8, <2>1 DEF SaveDayFails
  <2>3. todo \in SUBSET Days
    BY <1>2, <2>2
  <2> HIDE DEF todo
  <2>4. SaveType(u)
    BY <1>1, <2>3, ServedType
  <2> HIDE DEF u
  <2> QED BY <1>1, <2>2, <2>4, ServesTypes
<1>9. CASE CallFails(r) /\ UNCHANGED <<profile, whole>>
  <2> DEFINE u == [q EXCEPT !.answer = "error", !.at = "end", !.todo = {}]
  <2>1. req' = [req EXCEPT ![r] = Settled(u)]
    BY <1>9, <1>1 DEF CallFails
  <2>2. SaveType(u)
    BY <1>1, ServedType
  <2> HIDE DEF u
  <2> QED BY <1>1, <1>9, <2>1, <2>2, ServesTypes
<1> QED BY <1>3, <1>4, <1>5, <1>6, <1>7, <1>8, <1>9 DEF ServeProfile

(* A load and its answer.                                                  *)
LEMMA LoadTypes ==
  ASSUME loads \in Seq(LoadType), NEW i \in DOMAIN loads
  PROVE  /\ loads[i] \in LoadType
         /\ RemoveAt(loads, i) \in Seq(LoadType) /\ Len(RemoveAt(loads, i)) <= Len(loads)
         /\ \A p \in ProfileRow : [loads EXCEPT ![i] = [at |-> "ok", row |-> p]] \in Seq(LoadType)
         /\ \A at \in {"sent", "ok", "error"} : [loads EXCEPT ![i].at = at] \in Seq(LoadType)
<1>1. loads[i] \in LoadType /\ i \in 1 .. Len(loads) /\ Len(loads) \in Nat
  OBVIOUS
<1>2. /\ SubSeq(loads, 1, i - 1) \in Seq(LoadType) /\ Len(SubSeq(loads, 1, i - 1)) = i - 1
      /\ SubSeq(loads, i + 1, Len(loads)) \in Seq(LoadType)
      /\ Len(SubSeq(loads, i + 1, Len(loads))) = Len(loads) - i
  BY <1>1, SubSeqProperties
<1>3. RemoveAt(loads, i) \in Seq(LoadType) /\ Len(RemoveAt(loads, i)) = Len(loads) - 1
  <2> DEFINE a == SubSeq(loads, 1, i - 1)
             b == SubSeq(loads, i + 1, Len(loads))
  <2>1. RemoveAt(loads, i) = a \o b
    BY DEF RemoveAt
  <2>2. a \in Seq(LoadType) /\ b \in Seq(LoadType) /\ Len(a) = i - 1 /\ Len(b) = Len(loads) - i
    BY <1>2
  <2> HIDE DEF a, b
  <2>3. a \o b \in Seq(LoadType) /\ Len(a \o b) = Len(a) + Len(b)
    BY <2>2, ConcatProperties
  <2> QED BY <1>1, <2>1, <2>2, <2>3
<1>4. \A e \in LoadType : [loads EXCEPT ![i] = e] \in Seq(LoadType)
  BY <1>1, ExceptSeq
<1>5. \A p \in ProfileRow : [at |-> "ok", row |-> p] \in LoadType
  BY DEF LoadType
<1>6. \A at \in {"sent", "ok", "error"} : [loads[i] EXCEPT !.at = at] \in LoadType
  BY <1>1 DEF LoadType
<1>7. \A at : [loads EXCEPT ![i].at = at] = [loads EXCEPT ![i] = [loads[i] EXCEPT !.at = at]]
  OBVIOUS
<1> QED BY <1>1, <1>3, <1>4, <1>5, <1>6, <1>7

LEMMA EditedTypes ==
  ASSUME NEW f \in FormType, NEW x \in Org, NEW d
  PROVE  /\ [f EXCEPT !.details = x] \in FormType
         /\ [f EXCEPT !.numbers = x] \in FormType
         /\ [f EXCEPT !.hours[d] = x] \in FormType
BY DEF FormType

LEMMA LoadedTypes ==
  ASSUME NEW p \in ProfileRow
  PROVE  ToForm(p) \in FormType
BY SettingsAssumption DEF ToForm, Form, FormType, ProfileRow, Org

(* A step of the settings page.                                            *)
LEMMA EditTypes ==
  ASSUME PageTypes, StoreInv, EditsInv, NEW t \in Tabs, OnSettings(t)
  PROVE  PageTypes'
<1> USE DEF EditsInv
<1>0. /\ open = "settings" /\ UNCHANGED <<session, open>> /\ session = SignedInto(Home)
      /\ SettingsFields /\ settings.form \in FormType /\ settings.sent \in FormType
  BY DEF OnSettings, Shell, StoreInv, SessionKept, PageTypes, SettingsTypes
<1>1. moves' \in Nat
  BY DEF OnSettings, Move, PageTypes, ShellTypes
<1>2. ASSUME UNCHANGED faults \/ Fault PROVE ShellTypes'
  BY <1>0, <1>1, <1>2, StartAssumption DEF Fault, PageTypes, ShellTypes
<1>3. ASSUME UNCHANGED <<req, profile, whole>> PROVE SavesTypes'
  BY <1>3 DEF PageTypes, SavesTypes
<1>4. ASSUME NEW form \in FormType, settings' = Edited(form), UNCHANGED loads PROVE SettingsTypes'
  BY <1>0, <1>4 DEF Edited, PageTypes, SettingsTypes, SettingsFields, StoreInv, SavedKept
<1>5. CASE LoadProfile
  <2>1. AskProfile \in LoadType
    BY FormTypes DEF AskProfile, LoadType
  <2>2. loads' \in Seq(LoadType) /\ Len(loads') <= MaxLoads
    <3>1. /\ loads \in Seq(LoadType) /\ Len(loads) < MaxLoads /\ MaxLoads \in Nat
          /\ loads' = Append(loads, AskProfile)
      BY <1>5, SettingsAssumption DEF LoadProfile, PageTypes, SettingsTypes
    <3> QED BY <2>1, <3>1, AppendProperties
  <2>3. UNCHANGED <<settings, req, profile, whole, faults>>
    BY <1>5 DEF LoadProfile
  <2>4. SettingsTypes'
    BY <2>2, <2>3 DEF PageTypes, SettingsTypes
  <2> QED BY <1>2, <1>3, <2>3, <2>4 DEF PageTypes
<1>6. CASE ServeLoad
  <2>1. /\ UNCHANGED <<settings, req, profile, whole>> /\ (UNCHANGED faults \/ Fault)
        /\ loads \in Seq(LoadType) /\ profile[Home] \in ProfileRow /\ session.active = Home
    BY <1>0, <1>6, HomeAssumption DEF ServeLoad, PageTypes, SettingsTypes, SavesTypes, SignedInto
  <2>2. PICK i \in DOMAIN loads : \/ loads' = [loads EXCEPT ![i] = [at |-> "ok", row |-> profile[Home]]]
                                  \/ loads' = [loads EXCEPT ![i].at = "error"]
    BY <1>6, <2>1 DEF ServeLoad
  <2>3. loads' \in Seq(LoadType) /\ Len(loads') = Len(loads)
    <3>1. loads' \in Seq(LoadType)
      BY <2>1, <2>2, LoadTypes
    <3> QED BY <2>1, <2>2, <3>1
  <2>4. SettingsTypes'
    BY <2>1, <2>3 DEF PageTypes, SettingsTypes
  <2> QED BY <1>2, <1>3, <2>1, <2>4 DEF PageTypes
<1>7. CASE HearLoadedProfile
  <2>1. PICK i \in DOMAIN loads :
          /\ settings' = IF loads[i].at = "error" THEN [settings EXCEPT !.loadError = TRUE]
                         ELSE [settings EXCEPT !.form = ToForm(loads[i].row), !.base = ToForm(loads[i].row),
                                               !.loaded = TRUE, !.loadError = FALSE,
                                               !.crossed = settings.loaded, !.late = settings.submitting]
          /\ loads' = RemoveAt(loads, i)
    BY <1>7 DEF HearLoadedProfile
  <2>2. UNCHANGED <<req, profile, whole, faults>>
    BY <1>7 DEF HearLoadedProfile
  <2>3. ToForm(loads[i].row) \in FormType /\ loads' \in Seq(LoadType) /\ Len(loads') <= MaxLoads
    <3>1. loads \in Seq(LoadType) /\ Len(loads) <= MaxLoads /\ MaxLoads \in Nat /\ Len(loads) \in Nat
      BY SettingsAssumption DEF PageTypes, SettingsTypes
    <3>2. loads[i].row \in ProfileRow
      BY <3>1, LoadTypes DEF LoadType
    <3>3. loads' \in Seq(LoadType) /\ Len(loads') <= Len(loads)
      BY <2>1, <3>1, LoadTypes
    <3>4. Len(loads') \in Nat
      BY <3>3, LenProperties
    <3> QED BY <3>1, <3>2, <3>3, <3>4, LoadedTypes
  <2>4. SettingsTypes'
    BY <1>0, <2>1, <2>3 DEF PageTypes, SettingsTypes, SettingsFields
  <2> QED BY <1>2, <1>3, <2>2, <2>4 DEF PageTypes
<1>8. CASE UpdateDetails \/ UpdateAuthorityNumbers
  <2>1. /\ UNCHANGED <<loads, req, profile, whole, faults>>
        /\ \E form \in FormType : settings' = Edited(form)
    BY <1>0, <1>8, EditedTypes DEF UpdateDetails, UpdateAuthorityNumbers, Org
  <2> QED BY <1>2, <1>3, <1>4, <2>1 DEF PageTypes
<1>9. CASE SaveProfile(t)
  <2>1. /\ \E admitted \in BOOLEAN : PostSave(SignedInto(Home), t, settings.form, admitted)
        /\ settings' = [settings EXCEPT !.saved = FALSE, !.saveError = FALSE, !.submitting = TRUE,
                                        !.sent = settings.form, !.others = NoPart]
        /\ UNCHANGED <<loads, profile, faults>>
    BY <1>0, <1>9 DEF SaveProfile
  <2>2. SavesTypes'
    BY <1>0, <2>1, SaveTypes DEF PageTypes
  <2>3. SettingsTypes'
    BY <1>0, <2>1 DEF PageTypes, SettingsTypes, SettingsFields
  <2> QED BY <1>2, <2>1, <2>2, <2>3 DEF PageTypes
<1>10. ASSUME req' = Unheard(t), UNCHANGED <<profile, whole>> PROVE SavesTypes'
  BY <1>10, UnheardTypes DEF PageTypes, SavesTypes
<1>11. CASE HearSaved(t)
  <2> DEFINE v == [settings EXCEPT !.submitting = FALSE, !.late = FALSE]
             form == [settings.form EXCEPT !.numbers = settings.sent.numbers]
  <2>1. \/ settings' = [v EXCEPT !.form.numbers = settings.sent.numbers, !.base = settings.sent,
                                 !.saved = TRUE, !.dirty = FALSE, !.crossed = settings.late]
        \/ settings' = [v EXCEPT !.saveError = TRUE]
    BY <1>11 DEF HearSaved
  <2>2. settings.submitting /\ req' = Unheard(t) /\ UNCHANGED <<loads, profile, whole, faults>>
    BY <1>11 DEF HearSaved
  <2>3. settings.loaded /\ ~settings.saved /\ ~settings.saveError
    BY <2>2 DEF PageTypes, SettingsTypes, StoreInv, SavedKept
  <2>4. form \in FormType
    <3>1. settings.sent.numbers \in Org
      BY <1>0 DEF FormType
    <3> QED BY <1>0, <3>1, EditedTypes
  <2>5. /\ settings'.form \in {form, settings.form} /\ settings'.sent = settings.sent
        /\ settings'.loaded /\ settings'.submitting = FALSE
        /\ settings'.saved => ~settings'.saveError
    <3>1. CASE settings' = [v EXCEPT !.saveError = TRUE]
      BY <1>0, <2>3, <3>1 DEF SettingsFields
    <3>2. CASE settings' = [v EXCEPT !.form.numbers = settings.sent.numbers, !.base = settings.sent,
                                     !.saved = TRUE, !.dirty = FALSE, !.crossed = settings.late]
      <4>1. settings'.form = form
        BY <1>0, <3>2 DEF SettingsFields
      <4>2. /\ settings'.sent = settings.sent /\ settings'.loaded = settings.loaded
            /\ settings'.submitting = FALSE /\ settings'.saveError = settings.saveError
        BY <1>0, <3>2 DEF SettingsFields
      <4> HIDE DEF v, form
      <4> QED BY <2>3, <4>1, <4>2
    <3> QED BY <2>1, <3>1, <3>2
  <2> HIDE DEF form
  <2>6. SettingsTypes'
    BY <1>0, <2>2, <2>4, <2>5 DEF PageTypes, SettingsTypes
  <2> QED BY <1>2, <1>10, <2>2, <2>6 DEF PageTypes
<1>12. CASE LoseSave(t)
  <2>1. /\ req' = Unheard(t) /\ UNCHANGED <<loads, profile, whole>> /\ Fault /\ settings.submitting
        /\ settings' = [settings EXCEPT !.submitting = FALSE, !.late = FALSE, !.saveError = TRUE]
    BY <1>12 DEF LoseSave
  <2>2. SettingsTypes'
    BY <1>0, <2>1 DEF PageTypes, SettingsTypes, SettingsFields
  <2> QED BY <1>2, <1>10, <2>1, <2>2 DEF PageTypes
<1>13. CASE OthersSave
  <2>1. /\ UNCHANGED <<settings, loads, profile, faults>>
        /\ whole' = [whole EXCEPT ![Home] = IF Saving(Home) = {} THEN NoForm ELSE Mixed]
    BY <1>0, <1>13, SignedSession DEF OthersSave
  <2>2. PICK form \in FormType, r \in Slots :
          req' = [req EXCEPT ![r] = [Ask("save", "find") EXCEPT
                   !.org = Home, !.arg = form.details, !.numbers = form.numbers, !.hours = form.hours]]
    BY <1>0, <1>13, SignedSession, SettingsAssumption DEF OthersSave, FormType
  <2> DEFINE u == [Ask("save", "find") EXCEPT
                    !.org = Home, !.arg = form.details, !.numbers = form.numbers, !.hours = form.hours]
  <2>3. SaveType(u)
    BY HomeAssumption DEF Ask, Free, FormType, SaveType, Request, NoHours, Org
  <2> HIDE DEF u
  <2>4. whole' \in [Names -> {Mixed} \cup FormType]
    <3>1. \E w \in {NoForm, Mixed} : whole' = [whole EXCEPT ![Home] = w]
      BY <2>1
    <3> QED BY <3>1, FormTypes, HomeAssumption DEF PageTypes, SavesTypes
  <2>5. SavesTypes'
    BY <2>1, <2>2, <2>3, <2>4, ServesTypes DEF PageTypes, SavesTypes, u
  <2>6. SettingsTypes'
    BY <2>1 DEF PageTypes, SettingsTypes
  <2> QED BY <1>2, <2>1, <2>5, <2>6 DEF PageTypes
<1> QED BY <1>5, <1>6, <1>7, <1>8, <1>9, <1>11, <1>12, <1>13 DEF OnSettings

LEMMA OpenTypes ==
  ASSUME PageTypes, NEW page \in DashboardPages \cup {"sign-in"}, NEW t, Open(page, t), moves' \in Nat
  PROVE  PageTypes'
<1>1. SavesTypes'
  BY UnheardTypes DEF Open, PageTypes, SavesTypes
<1>2. SettingsTypes'
  <2>1. AskProfile \in LoadType
    BY FormTypes DEF AskProfile, LoadType
  <2>2. loads' \in Seq(LoadType) /\ Len(loads') <= MaxLoads
    BY <2>1, SettingsAssumption DEF Open, FirstProfile
  <2> QED BY <2>2, FormTypes DEF Open, SettingsOpened, SettingsTypes
<1>3. ShellTypes'
  BY DEF Open, PageTypes, ShellTypes
<1> QED BY <1>1, <1>2, <1>3 DEF PageTypes

LEMMA PageTypesStep ==
  ASSUME PageTypes, StoreInv, EditsInv, [Next]_vars
  PROVE  PageTypes'
<1>1. ASSUME UNCHANGED <<open, req, profile, whole, settings, loads>>, moves' \in Nat,
             UNCHANGED faults \/ Fault
      PROVE  PageTypes'
  <2>1. faults' \in 0 .. MaxFaults
    BY <1>1, StartAssumption DEF Fault, PageTypes, ShellTypes
  <2> QED BY <1>1, <2>1 DEF PageTypes, ShellTypes, SavesTypes, SettingsTypes
<1>2. ASSUME NEW t \in Tabs, Navigate(t) \/ SignOut(t) PROVE PageTypes'
  <2>1. moves' \in Nat
    BY <1>2, StartAssumption, MinOfTwo DEF Navigate, SignOut, Move, PageTypes, ShellTypes
  <2> QED BY <1>2, <2>1, OpenTypes DEF Navigate, SignOut
<1>3. ASSUME NEW t \in Tabs, OnSettings(t) PROVE PageTypes'
  BY <1>3, EditTypes
<1>4. CASE OnReports
  <2>1. moves' \in Nat
    BY <1>4 DEF OnReports, Move, PageTypes, ShellTypes
  <2>2. UNCHANGED faults \/ Fault
    BY <1>4 DEF OnReports, Log, Tick, ServeCalls, StartSummary, ServeQuery, ReportFails, HearCalls, HearSummary,
                RetryCalls, SelectCall, CloseCall, RetryCharts, SelectRange
  <2> QED BY <1>1, <1>4, <2>1, <2>2 DEF OnReports, Shell, Editing
<1>5. CASE OnBookings
  <2>1. moves' \in Nat /\ (UNCHANGED faults \/ Fault)
    <3>1. CASE ChooseScope \/ ChooseStatus \/ Type \/ Retry \/ LoadMore \/ Select \/ ChangeStatus
      BY <3>1 DEF ChooseScope, ChooseStatus, Type, Retry, LoadMore, Select, ChangeStatus, Move,
                  PageTypes, ShellTypes
    <3>2. CASE Debounce \/ ToastExpires \/ HearLoad \/ HearMore \/ CloseDialog \/ HearPatch
                 \/ OthersChange
      BY <3>2 DEF Debounce, ToastExpires, HearLoad, HearMore, CloseDialog, HearPatch, OthersChange,
                  PageTypes, ShellTypes
    <3>3. CASE ServeLists \/ ServePatch
      BY <3>3 DEF ServeLists, ServePatch, PageTypes, ShellTypes
    <3> QED BY <1>5, <3>1, <3>2, <3>3 DEF OnBookings, BookingsNext
  <2> QED BY <1>1, <1>5, <2>1 DEF OnBookings, Shell, Editing
<1>6. CASE ServeSaves
  <2>1. PICK r \in Slots : \/ ServeProfile(r) /\ NoteStored(r) /\ UNCHANGED faults
                           \/ SaveDayFails(r) /\ UNCHANGED settings
                           \/ CallFails(r) /\ UNCHANGED <<profile, whole, settings>>
    BY <1>6 DEF ServeSaves
  <2>2. SavesTypes'
    BY <2>1, ServeSaveTypes DEF PageTypes, StoreInv
  <2>3. UNCHANGED faults \/ Fault
    BY <2>1 DEF SaveDayFails, CallFails
  <2>4. PageKept /\ UNCHANGED <<open, moves, loads>>
    BY <1>6, ServedForm DEF ServeSaves, Shell, EditsInv
  <2>5. ShellTypes'
    BY <2>3, <2>4, StartAssumption DEF Fault, PageTypes, ShellTypes
  <2>6. SettingsTypes'
    BY <2>4 DEF PageTypes, SettingsTypes, PageKept
  <2> QED BY <2>2, <2>5, <2>6 DEF PageTypes
<1>7. CASE UNCHANGED vars
  BY <1>1, <1>7 DEF vars, PageTypes, ShellTypes
<1> QED BY <1>2, <1>3, <1>4, <1>5, <1>6, <1>7 DEF Next

LEMMA PageTypesInit == Init => PageTypes
<1> SUFFICES ASSUME Init PROVE PageTypes
  OBVIOUS
<1>1. ShellTypes
  <2>1. faults = 0 /\ MaxFaults \in Nat
    BY StartAssumption DEF Init
  <2> QED BY <2>1, FirstStart DEF ShellTypes
<1>2. SavesTypes
  <2>1. profile \in [Names -> ProfileRow]
    BY FirstStart
  <2>2. Free \in Request
    BY FreeType DEF SaveType
  <2>3. req \in [Slots -> Request] /\ \A r \in Slots : SaveType(req[r])
    BY <2>2, FreeType DEF Init
  <2>4. whole \in [Names -> {Mixed} \cup FormType]
    BY FormTypes DEF Init
  <2> QED BY <2>1, <2>3, <2>4 DEF SavesTypes
<1>3. SettingsTypes
  <2>1. AskProfile \in LoadType
    BY FormTypes DEF AskProfile, LoadType
  <2>2. loads \in Seq(LoadType) /\ Len(loads) <= MaxLoads
    BY <2>1, SettingsAssumption DEF Init, FirstProfile
  <2> QED BY <2>2, FormTypes DEF Init, SettingsOpened, SettingsTypes
<1> QED BY <1>1, <1>2, <1>3 DEF PageTypes

LEMMA BookingsTyped == BookingsTypes => BookingsTypeOK
BY DEF BookingsTypes, BookingsTypeOK, ViewType, ListRequest, Tables

LEMMA ReportsTyped == CallsInv /\ VolumeInv => ReportsTypeOK
<1> SUFFICES ASSUME CallsInv, VolumeInv PROVE ReportsTypeOK
  OBVIOUS
<1>1. now \in 0 .. LastTime /\ logged \in Seq(Entry)
  BY DEF CallsInv, LogOK
<1>2. Range(calls.rows) \subseteq Calls
  <2>1. /\ calls.rows \in Seq(1 .. Len(logged))
        /\ \A i \in DOMAIN calls.rows : logged[calls.rows[i]].kind # "inquiry"
    BY DEF CallsInv, LatestFirst
  <2>2. \A i \in DOMAIN calls.rows : calls.rows[i] \in 1 .. Len(logged)
    BY <2>1
  <2>3. DOMAIN logged = 1 .. Len(logged)
    BY <1>1
  <2> QED BY <2>1, <2>2, <2>3 DEF Range, Calls
<1>3. /\ calls.shown \in {"skeleton", "error", "empty", "rows"}
      /\ calls.selected \in Range(calls.rows) \cup {0}
  BY DEF CallsInv, CallsTypes
<1> QED BY <1>1, <1>2, <1>3 DEF ReportsTypeOK, VolumeInv, SummaryFields

(* What the dashboard keeps is of its types: its tables and logs, the rows *)
(* of its lists, the requests of its saves and its form (TypeOK).          *)
THEOREM DashboardTypes == Spec => []TypeOK
<1> DEFINE I == /\ ListInv /\ CallsInv /\ VolumeInv /\ EditsInv /\ StoreInv /\ PageTypes
<1>1. Init => I
  BY ListInit, CallsInit, VolumeInit, SettingsInit, StoreInit, PageTypesInit
<1>2. I /\ [Next]_vars => I'
  BY ListStep, CallsStep, VolumeStep, SettingsStep, StoreStep, PageTypesStep
<1>3. I => TypeOK
  <2> SUFFICES ASSUME I PROVE TypeOK
    OBVIOUS
  <2>1. BookingsTypeOK /\ ReportsTypeOK
    BY BookingsTyped, ReportsTyped DEF ListInv
  <2>2. req \in [Slots -> Request]
    BY DEF PageTypes, SavesTypes
  <2>3. ProfileTypeOK /\ SettingsTypeOK
    BY DEF PageTypes, SavesTypes, SettingsTypes, ProfileTypeOK, SettingsTypeOK, FormType
  <2>4. open \in DashboardPages \cup {"sign-in"} /\ moves \in Nat /\ faults \in 0 .. MaxFaults
    BY DEF PageTypes, ShellTypes
  <2> QED BY <2>1, <2>2, <2>3, <2>4 DEF TypeOK
<1> QED BY <1>1, <1>2, <1>3, PTL DEF Spec
=============================================================================
