------------------------------ MODULE Dashboard ------------------------------
(***************************************************************************)
(* The dashboard, composed: its four pages, of which one is open at a time *)
(* (dashboard-shell.tsx), in one tab of the browser, over the API.  A page *)
(* starts from nothing whenever it is opened; what it has asked for is     *)
(* served all the same when it is left.  Other tabs and other members act  *)
(* on the tables: OthersChange, Log, OthersSave.                           *)
(***************************************************************************)
EXTENDS BookingsView, ReportViews, SettingsView

CONSTANTS
  Home,                    \* the organization
  FirstPages,              \* the pages to start on
  MovesAfter,              \* moves when another page has been opened (a bound)
  Books,                   \* the appointments there may be at first
  Moves,                   \* of each first page: moves of the user, or of others (a bound)
  Profiles, Logged,        \* ... the profiles and the log there may be at first
  Changes, FirstTime       \* ... changes of the table so far, and the time

ASSUME HomeAssumption == Home \in Names

ASSUME TabAssumption == \E t \in Tabs : Tabs = {t}

DashboardPages == {"calls", "bookings", "analytics", "settings"}

(* What is there at first is what the tables hold, and of the past.        *)
ASSUME StartAssumption ==
  /\ MovesAfter \in Nat /\ MaxFaults \in Nat
  /\ FirstPages \subseteq DashboardPages
  /\ Books \subseteq [Ids -> Statuses \cup {None}]
  /\ \A page \in FirstPages :
       /\ Moves[page] \in Nat /\ Changes[page] \in Nat /\ FirstTime[page] \in 1 .. LastTime
       /\ Profiles[page] \subseteq [Names -> ProfileRow]
       /\ Logged[page] \in Seq([kind : {"inquiry", "booked", "other"}, start : 0 .. FirstTime[page]])

VARIABLES
  open,        \* the page that is open
  confirmed    \* history: the user was asked before the last page was left

vars == <<session, faults, moves, open, confirmed, req, profile, whole, settings, loads,
          book, changed, view, load, more, patch,
          now, logged, calls, callsLoad, charts, summary>>

(* What each page asks for when it opens.                                  *)
FirstLoad(page) == IF page = "bookings" THEN Asked(Filter(Opened), 0) ELSE Closed
FirstCalls(page) == IF page = "calls" THEN [NoCallsLoad EXCEPT !.at = "sent"] ELSE NoCallsLoad
FirstSummary(page) == IF page = "analytics" THEN AskSummary(DefaultRange) ELSE SummaryClosed
FirstProfile(page) == IF page = "settings" THEN <<AskProfile>> ELSE <<>>

Init ==
  /\ open \in FirstPages
  /\ session = SignedInto(Home) /\ faults = 0 /\ moves = Moves[open] /\ confirmed = FALSE
  /\ book \in Books /\ changed = Changes[open] /\ now = FirstTime[open] /\ logged = Logged[open]
  /\ profile \in Profiles[open] /\ whole = [o \in Names |-> NoForm]
  /\ req = [r \in Slots |-> Free]
  /\ view = Opened /\ load = FirstLoad(open) /\ more = Request0 /\ patch = NoPatch
  /\ calls = CallsOpened /\ callsLoad = FirstCalls(open)
  /\ charts = ChartsOpened /\ summary = FirstSummary(open)
  /\ settings = SettingsOpened /\ loads = FirstProfile(open)

Open(page, t) ==
  /\ open' = page
  /\ view' = Opened /\ load' = FirstLoad(page) /\ more' = Request0 /\ patch' = NoPatch
  /\ calls' = CallsOpened /\ callsLoad' = FirstCalls(page)
  /\ charts' = ChartsOpened /\ summary' = FirstSummary(page)
  /\ settings' = SettingsOpened /\ loads' = FirstProfile(page)
  /\ req' = Unheard(t)
  /\ UNCHANGED <<book, changed, now, logged, profile, whole, faults>>

(* A link of the navigation or of the account menu, or a reload.           *)
Navigate(t) ==
  /\ open \in DashboardPages
  /\ moves > 0 /\ moves' = Min({moves - 1, MovesAfter})
  /\ \E page \in DashboardPages : Open(page, t)
  /\ confirmed' = (open = "settings" /\ AsksToLeave)
  /\ UNCHANGED session

(* handleSignOut: not a link, so that nothing is asked.                    *)
SignOut(t) ==
  /\ open \in DashboardPages
  /\ Move
  /\ Open("sign-in", t)
  /\ session' = SignedOut /\ confirmed' = FALSE

-----------------------------------------------------------------------------
Shell == <<session, open, confirmed>>
Bookings == <<book, changed, view, load, more, patch>>
Reports == <<now, logged, calls, callsLoad, charts, summary>>
Editing == <<settings, loads, req, profile, whole>>

(* Tables change while the page that reads them is open: a change before   *)
(* that is one before its first answer.                                    *)
OnBookings ==
  /\ open = "bookings"
  /\ BookingsNext \/ OthersChange
  /\ UNCHANGED <<Shell, Reports, Editing>>

OnReports ==
  /\ \/ open \in {"calls", "analytics"} /\ Log /\ UNCHANGED moves
     \/ open \in {"calls", "bookings", "analytics"} /\ Tick /\ UNCHANGED moves
     \/ (ServeCalls \/ StartSummary \/ ServeQuery \/ ReportFails \/ HearCalls \/ HearSummary) /\ UNCHANGED moves
     \/ open = "calls" /\ (RetryCalls \/ SelectCall \/ CloseCall) /\ Move
     \/ open = "analytics" /\ (RetryCharts \/ SelectRange) /\ Move
  /\ UNCHANGED <<Shell, Bookings, Editing>>

OnSettings(t) ==
  /\ open = "settings"
  /\ \/ (ServeLoad \/ HearLoadedProfile \/ HearSaved(t) \/ LoseSave(t)) /\ UNCHANGED moves
     \/ (LoadProfile \/ UpdateDetails \/ UpdateAuthorityNumbers \/ SaveProfile(t) \/ OthersSave) /\ Move
  /\ UNCHANGED <<Shell, Bookings, Reports>>

(* Saves are served whatever page is open.                                 *)
ServeSaves ==
  /\ \E r \in Slots : \/ ServeProfile(r) /\ NoteStored(r) /\ UNCHANGED faults
                      \/ SaveDayFails(r) /\ UNCHANGED settings
                      \/ CallFails(r) /\ UNCHANGED <<profile, whole, settings>>
  /\ UNCHANGED <<Shell, Bookings, Reports, loads, moves>>

Next ==
  \/ \E t \in Tabs : Navigate(t) \/ SignOut(t) \/ OnSettings(t)
  \/ OnBookings
  \/ OnReports
  \/ ServeSaves

Spec == Init /\ [][Next]_vars

-----------------------------------------------------------------------------
TypeOK ==
  /\ open \in DashboardPages \cup {"sign-in"} /\ moves \in Nat
  /\ req \in [Slots -> Request] /\ faults \in 0 .. MaxFaults
  /\ BookingsTypeOK /\ ReportsTypeOK /\ ProfileTypeOK /\ SettingsTypeOK

(* Edits never go with the settings page unasked: when its form is gone,   *)
(* whether by a link or a reload and also while a save is under way, and   *)
(* held something not stored, the user was asked or has signed out, or an  *)
(* answer had crossed with edits.                                          *)
EditsGoKnowingly ==
  [][settings.loaded /\ ~settings'.loaded /\ settings.form # settings.base =>
       confirmed' \/ ~session'.signed \/ settings.crossed]_vars
=============================================================================
