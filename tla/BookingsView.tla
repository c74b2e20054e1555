---------------------------- MODULE BookingsView ----------------------------
(***************************************************************************)
(* The bookings page (bookings-view.tsx) over the list and status routes   *)
(* of the appointments API.  The table changes under it: the voice agent   *)
(* books, other tabs change statuses, and midnight passes.  Appointments   *)
(* are numbers, several of which may be of one time; PAGE_SIZE is Page.    *)
(***************************************************************************)
EXTENDS Clock, DashboardApi, SequencesExt

CONSTANTS
  ScheduledAt,  \* of each appointment there may be
  Found,        \* those a search for Word finds
  Word,
  Statuses,     \* AppointmentStatus
  Page,
  MaxChanges    \* changes of the table (a bound)

Ids == DOMAIN ScheduledAt

ASSUME BookingsAssumption ==
  /\ ScheduledAt \in [Ids -> Nat] /\ Ids \subseteq Nat \ {0} /\ IsFiniteSet(Ids)
  /\ "CONFIRMED" \in Statuses /\ None \notin Statuses /\ None \notin [table : Nat, day : Nat]
  /\ Page \in Nat \ {0}

VARIABLES
  book,        \* status of each appointment, None of one not made yet
  changed,     \* changes of the table so far
  view,        \* the page's state
  load, more, patch,  \* its three kinds of request
  moves        \* moves the user has left on the dashboard (a bound)

Row == [id : Ids, status : Statuses]
NoRow == [id |-> 0, status |-> None]

(* scopeToRange, from the clock at each query.                             *)
InScope(id, scope, day) ==
  \/ scope = "past" /\ UtcDay(ScheduledAt[id]) < day
  \/ scope = "today" /\ UtcDay(ScheduledAt[id]) = day
  \/ scope = "upcoming" /\ UtcDay(ScheduledAt[id]) > day

MatchesOn(id, f, day) ==
  /\ InScope(id, f.scope, day)
  /\ book[id] # None
  /\ f.status = None \/ book[id] = f.status
  /\ f.q = None \/ id \in Found

Matching(f) == {id \in Ids : MatchesOn(id, f, UtcDay(now))}

(* findByOrgId: past reads most recent first, the others soonest first.    *)
(* Appointments of one time come in any order, anew at each query.         *)
Precedes(scope, x, y) ==
  IF scope = "past" THEN ScheduledAt[x] > ScheduledAt[y] ELSE ScheduledAt[x] < ScheduledAt[y]

Orders(ids, scope) ==
  {s \in SetToSeqs(ids) : \A i, j \in DOMAIN s : i < j => ~Precedes(scope, s[j], s[i])}

(* Mutant: skip is not passed on.                                          *)
FaultyPageOf(ids, skip) == SubSeq(ids, 1, Min({Page, Len(ids)}))
PageOf(ids, skip) == SubSeq(ids, skip + 1, Min({skip + Page, Len(ids)}))

Rows(ids) == [i \in DOMAIN ids |-> [id |-> ids[i], status |-> book[ids[i]]]]

(* Mutant: an appointment is compared with the first section only.         *)
FaultySameSection(sections, row) ==
  sections # <<>> /\ LocalDay(ScheduledAt[Head(sections)[1].id]) = LocalDay(ScheduledAt[row.id])
SameSection(sections, row) ==
  sections # <<>> /\ LocalDay(ScheduledAt[Last(sections)[1].id]) = LocalDay(ScheduledAt[row.id])

(* groupByDay: the rows as they come, cut where the day changes.           *)
Sections(list) ==
  FoldLeft(LAMBDA sections, row :
             IF SameSection(sections, row)
             THEN [sections EXCEPT ![Len(sections)] = Append(@, row)]
             ELSE Append(sections, <<row>>),
           <<>>, list)

-----------------------------------------------------------------------------
(* list is shown when loaded, the skeleton otherwise.  of (history): the   *)
(* state of the table and the day the list is of, None when it is of       *)
(* several or none.                                                        *)
(* blank (history): the timer has taken the list away for nothing.         *)
Request0 == [at |-> "none", f |-> None, skip |-> 0, data |-> <<>>, of |-> None]

Closed == [Request0 EXCEPT !.at = "closed"]

Filter(v) == [scope |-> v.scope, status |-> v.status, q |-> v.debounced]
Asked(f, skip) == [Request0 EXCEPT !.at = "sent", !.f = f, !.skip = skip]

Opened ==
  [scope |-> "today", status |-> None, search |-> None, debounced |-> None, typing |-> TRUE,
   loaded |-> FALSE, list |-> <<>>, more |-> FALSE, loadingMore |-> FALSE, updating |-> FALSE,
   toast |-> FALSE, selected |-> NoRow, of |-> None, blank |-> FALSE]

(* The effect on a changed filter or reloadToken: the list goes, the       *)
(* earlier load is not listened to any more, a new one is sent.            *)
Reload(v) ==
  /\ view' = [v EXCEPT !.loaded = FALSE, !.list = <<>>, !.of = None, !.blank = FALSE]
  /\ load' = Asked(Filter(v), 0)

Table == <<book, changed>>
Move == moves > 0 /\ moves' = moves - 1

(* Mutant: the earlier load is still listened to.                          *)
FaultyChooseScope ==
  /\ Move
  /\ \E scope \in {"past", "today", "upcoming"} \ {view.scope} :
       /\ view' = [view EXCEPT !.scope = scope, !.loaded = FALSE, !.list = <<>>, !.of = None]
       /\ load' = IF load.at = "none" THEN Asked(Filter([view EXCEPT !.scope = scope]), 0) ELSE load
  /\ UNCHANGED <<Table, more, patch, faults>>

ChooseScope ==
  /\ Move
  /\ \E scope \in {"past", "today", "upcoming"} \ {view.scope} : Reload([view EXCEPT !.scope = scope])
  /\ UNCHANGED <<Table, more, patch, faults>>

(* Mutant: the list goes, but nothing is sent.                             *)
FaultyChooseStatus ==
  /\ Move
  /\ \E status \in (Statuses \cup {None}) \ {view.status} :
       view' = [view EXCEPT !.status = status, !.loaded = FALSE, !.list = <<>>, !.of = None]
  /\ UNCHANGED <<Table, load, more, patch, faults>>

ChooseStatus ==
  /\ Move
  /\ \E status \in (Statuses \cup {None}) \ {view.status} : Reload([view EXCEPT !.status = status])
  /\ UNCHANGED <<Table, more, patch, faults>>

Type ==
  /\ Move
  /\ \E text \in {None, Word} : view' = [view EXCEPT !.search = text, !.typing = TRUE]
  /\ UNCHANGED <<Table, load, more, patch, faults>>

(* The timer also runs once after the page is opened.  When the trimmed    *)
(* text is what it was, the list goes and nothing is sent.                 *)
Debounce ==
  /\ view.typing
  /\ LET v == [view EXCEPT !.typing = FALSE, !.debounced = view.search] IN
     IF view.debounced # view.search THEN Reload(v)
     ELSE /\ view' = [v EXCEPT !.loaded = FALSE, !.list = <<>>, !.of = None,
                               !.blank = (load.at = "none")]
          /\ UNCHANGED load
  /\ UNCHANGED <<Table, more, patch, moves, faults>>

Retry ==
  /\ view.toast /\ Move
  /\ Reload([view EXCEPT !.toast = FALSE])
  /\ UNCHANGED <<Table, more, patch, faults>>

ToastExpires ==
  /\ view.toast
  /\ view' = [view EXCEPT !.toast = FALSE]
  /\ UNCHANGED <<Table, load, more, patch, moves, faults>>

-----------------------------------------------------------------------------
(* Answers                                                                 *)

Present == [table |-> changed, day |-> UtcDay(now)]

(* The API serves a list request; it may also fail, or its answer be lost. *)
Answers(q) ==
  {[q EXCEPT !.at = "ok", !.data = Rows(PageOf(ids, q.skip)), !.of = Present] :
     ids \in Orders(Matching(q.f), q.f.scope)}

ServeLists ==
  /\ \/ load.at = "sent" /\ load' \in Answers(load) /\ UNCHANGED <<more, faults>>
     \/ more.at = "sent" /\ more' \in Answers(more) /\ UNCHANGED <<load, faults>>
     \/ load.at = "sent" /\ Fault /\ load' = [load EXCEPT !.at = "error"] /\ UNCHANGED more
     \/ more.at = "sent" /\ Fault /\ more' = [more EXCEPT !.at = "error"] /\ UNCHANGED load
  /\ UNCHANGED <<Table, view, patch, moves>>

(* setHasMore(data.length === PAGE_SIZE)                                   *)
MayBeMore(data) == Len(data) = Page

(* A failed load shows an empty list, and leaves hasMore as it was.        *)
HearLoad ==
  /\ \/ /\ load.at = "ok"
        /\ view' = [view EXCEPT !.loaded = TRUE, !.list = load.data, !.of = load.of,
                                !.more = MayBeMore(load.data)]
     \/ /\ load.at = "error"
        /\ view' = [view EXCEPT !.loaded = TRUE, !.list = <<>>, !.of = None, !.toast = TRUE]
  /\ load' = Request0
  /\ UNCHANGED <<Table, more, patch, moves, faults>>

LoadMore ==
  /\ view.loaded /\ view.more /\ ~view.loadingMore
  /\ Move
  /\ more' = Asked(Filter(view), Len(view.list))
  /\ view' = [view EXCEPT !.loadingMore = TRUE]
  /\ UNCHANGED <<Table, load, patch, faults>>

(* The answer is appended to whatever list there is by then, of whatever   *)
(* filter.                                                                 *)
HearMore ==
  /\ \/ /\ more.at = "ok"
        /\ view' = [view EXCEPT
             !.loaded = TRUE, !.list = @ \o more.data, !.more = MayBeMore(more.data),
             !.loadingMore = FALSE, !.blank = FALSE,
             !.of = IF view.loaded /\ @ = more.of /\ more.f = Filter(view) /\ more.skip = Len(view.list)
                    THEN @ ELSE None]
     \/ /\ more.at = "error"
        /\ view' = [view EXCEPT !.loadingMore = FALSE, !.toast = TRUE]
  /\ more' = Request0
  /\ UNCHANGED <<Table, load, patch, moves, faults>>

-----------------------------------------------------------------------------
(* The status of an appointment, in the list or the dialog                 *)

Shown == Range(view.list) \cup ({view.selected} \ {NoRow})

Select ==
  /\ Move
  /\ \E i \in DOMAIN view.list : view' = [view EXCEPT !.selected = view.list[i]]
  /\ UNCHANGED <<Table, load, more, patch, faults>>

CloseDialog ==
  /\ view.selected # NoRow
  /\ view' = [view EXCEPT !.selected = NoRow]
  /\ UNCHANGED <<Table, load, more, patch, moves, faults>>

ChangeStatus ==
  /\ ~view.updating
  /\ Move
  /\ \E row \in Shown : \E status \in Statuses \ {row.status} :
       patch' = [at |-> "sent", row |-> [row EXCEPT !.status = status], of |-> None]
  /\ view' = [view EXCEPT !.updating = TRUE]
  /\ UNCHANGED <<Table, load, more, faults>>

NoPatch == [at |-> "none", row |-> NoRow, of |-> None]

(* updateStatusForOrg; an answer may be lost after the update.             *)
ServePatch ==
  /\ patch.at = "sent"
  /\ \/ /\ book' = [book EXCEPT ![patch.row.id] = patch.row.status]
        /\ changed' = changed + 1
        /\ \/ patch' = [patch EXCEPT !.at = "ok", !.of = changed + 1] /\ UNCHANGED faults
           \/ patch' = [patch EXCEPT !.at = "error"] /\ Fault
     \/ Fault /\ patch' = [patch EXCEPT !.at = "error"] /\ UNCHANGED Table
  /\ UNCHANGED <<view, load, more, moves>>

Patched(row) == IF row.id = patch.row.id THEN patch.row ELSE row

PatchedList(list) == [i \in DOMAIN list |-> Patched(list[i])]

HearPatch ==
  /\ \/ /\ patch.at = "ok"
        /\ view' = [view EXCEPT
             !.updating = FALSE, !.list = PatchedList(@), !.selected = Patched(@),
             !.of = IF @ = None THEN None
                    ELSE IF @.table = patch.of \/ \A i \in DOMAIN view.list : view.list[i].id # patch.row.id THEN @
                    ELSE IF @.table = patch.of - 1 /\ view.status = None THEN [@ EXCEPT !.table = patch.of]
                    ELSE None]
     \/ /\ patch.at = "error"
        /\ view' = [view EXCEPT !.updating = FALSE, !.toast = TRUE]
  /\ patch' = NoPatch
  /\ UNCHANGED <<Table, load, more, moves, faults>>

(* The agent books and cancels; other tabs change statuses, and so may a   *)
(* change of this page's that was under way when it was left.              *)
OthersChange ==
  /\ changed < MaxChanges /\ changed' = changed + 1
  /\ \E id \in Ids :
       \E status \in IF book[id] = None THEN {"CONFIRMED"} ELSE Statuses \ {book[id]} :
         book' = [book EXCEPT ![id] = status]
  /\ UNCHANGED <<view, load, more, patch, moves, faults>>

BookingsNext ==
  \/ ChooseScope \/ ChooseStatus \/ Type \/ Debounce \/ Retry \/ ToastExpires
  \/ ServeLists \/ HearLoad \/ LoadMore \/ HearMore
  \/ Select \/ CloseDialog \/ ChangeStatus \/ ServePatch \/ HearPatch

-----------------------------------------------------------------------------
BookingsTypeOK ==
  /\ book \in [Ids -> Statuses \cup {None}] /\ changed \in Nat
  /\ view.list \in Seq(Row) /\ view.selected \in Row \cup {NoRow}
  /\ load.at \in {"closed", "none", "sent", "ok", "error"} /\ more.at \in {"none", "sent", "ok", "error"}
  /\ view.loadingMore <=> more.at # "none"
  /\ view.updating <=> patch.at # "none"

(* The i-th row belongs there: fewer than i appointments come before it in *)
(* time, and at least i do not come after it.                              *)
InPlace(id, i, ids, scope) ==
  /\ Cardinality({x \in ids : Precedes(scope, x, id)}) < i
  /\ i <= Cardinality({x \in ids : ~Precedes(scope, id, x)})

(* A list that is of the table and the day as they stand, however many     *)
(* pages it came in, has rows of what the chosen filter gives only, each   *)
(* where its time belongs and with its status as stored, also one changed  *)
(* here; and as many as there are once there is no Load more.  So it has   *)
(* no gaps or repeats, but among appointments of one time cut by a page.   *)
ListIsCurrent ==
  LET ids == Matching(Filter(view)) IN
  view.loaded /\ view.of = Present =>
    /\ \A i \in DOMAIN view.list :
         /\ view.list[i].id \in ids /\ view.list[i].status = book[view.list[i].id]
         /\ InPlace(view.list[i].id, i, ids, view.scope)
    /\ ~view.more => Len(view.list) = Cardinality(ids)

(* A list that is of one state of the table and one day, however old,      *)
(* holds only rows of the chosen scope, status and search: an answer for   *)
(* an earlier filter is never shown under a new one (but see HearMore).    *)
RowsMatchFilter ==
  view.loaded /\ view.of # None =>
    \A i \in DOMAIN view.list :
      /\ InScope(view.list[i].id, view.scope, view.of.day)
      /\ view.status = None \/ view.list[i].status = view.status
      /\ view.debounced = None \/ view.list[i].id \in Found

(* Such a list has one heading for each of its days: what the API orders   *)
(* by time, in pages, is cut into sections without repeating one.          *)
OneSectionPerDay ==
  view.loaded /\ view.of # None =>
    LET sections == Sections(view.list) IN
    \A i, j \in DOMAIN sections :
      i # j => LocalDay(ScheduledAt[sections[i][1].id]) # LocalDay(ScheduledAt[sections[j][1].id])

(* The skeleton is shown only while a load is under way, except after the  *)
(* timer has run on an unchanged text with no load under way.              *)
SkeletonIsLoading == ~view.loaded /\ load.at = "none" => view.blank
=============================================================================
