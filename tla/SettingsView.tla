----------------------------- MODULE SettingsView -----------------------------
(***************************************************************************)
(* The settings page (settings-view.tsx): the business profile, loaded     *)
(* into a form, edited and saved.  A save is a request of DashboardApi; a  *)
(* load reads the profile in one step and is kept here.                    *)
(***************************************************************************)
EXTENDS Profile, SequencesExt

CONSTANTS
  Usual,       \* the hours of defaultBusinessHours
  Theirs,      \* the forms that others save (a bound)
  MaxLoads     \* loads under way at once (a bound)

ASSUME SettingsAssumption ==
  /\ Usual \in Names /\ MaxLoads \in Nat \ {0}
  /\ Theirs \subseteq [details : Org, numbers : Org, hours : [Days -> Org]]

VARIABLES
  settings,    \* the page's state
  loads        \* loads under way, each with the profile it has read

(* form is details (null until loaded, see loaded) with authorityNumbers.  *)
(* base (history): the form as last loaded or stored.  late (history): it  *)
(* has changed since the save under way was sent.  crossed (history): an    *)
(* answer has come over edits it does not know of, that of a save or of    *)
(* one load too many.  others (history): the parts of the profile that,    *)
(* since this page's last save was sent, another save has stored and it    *)
(* has not stored again.                                                   *)
NoPart == [name |-> FALSE, numbers |-> FALSE, hours |-> {}]
SettingsOpened ==
  [form |-> NoForm, loaded |-> FALSE, loadError |-> FALSE, saved |-> FALSE, saveError |-> FALSE,
   dirty |-> FALSE, submitting |-> FALSE, sent |-> NoForm, base |-> NoForm,
   late |-> FALSE, crossed |-> FALSE, others |-> NoPart]

AskProfile == [at |-> "sent", row |-> NoProfile]

(* toDetails: hours are taken from the profile as soon as it has some, and *)
(* then a day it lacks is not in the form, where no day can be added.      *)
ToForm(p) ==
  Form(p.name, p.numbers, IF HourDays(p.hours) = {} THEN [d \in Days |-> Usual] ELSE p.hours)

-----------------------------------------------------------------------------
(* Loading                                                                 *)

(* Try again stays on the page until an answer, so there may be several    *)
(* loads.                                                                  *)
LoadProfile ==
  /\ settings.loadError
  /\ Len(loads) < MaxLoads
  /\ loads' = Append(loads, AskProfile)
  /\ UNCHANGED <<settings, req, profile, whole, faults>>

ServeLoad ==
  /\ \E i \in DOMAIN loads :
       /\ loads[i].at = "sent"
       /\ \/ /\ loads' = [loads EXCEPT ![i] = [at |-> "ok", row |-> profile[session.active]]]
             /\ UNCHANGED faults
          \/ loads' = [loads EXCEPT ![i].at = "error"] /\ Fault
  /\ UNCHANGED <<settings, req, profile, whole>>

HearLoadedProfile ==
  \E i \in DOMAIN loads :
    LET form == ToForm(loads[i].row) IN
    /\ loads[i].at # "sent"
    /\ settings' = IF loads[i].at = "error" THEN [settings EXCEPT !.loadError = TRUE]
                   ELSE [settings EXCEPT !.form = form, !.base = form, !.loaded = TRUE,
                                         !.loadError = FALSE, !.crossed = settings.loaded,
                                         !.late = settings.submitting]
    /\ loads' = RemoveAt(loads, i)
    /\ UNCHANGED <<req, profile, whole, faults>>

-----------------------------------------------------------------------------
(* Editing and saving                                                      *)

Editable == settings.loaded /\ ~settings.loadError

Edited(form) ==
  [settings EXCEPT !.form = form, !.saved = FALSE, !.dirty = TRUE, !.late = settings.submitting]

UpdateDetails ==
  /\ Editable
  /\ \/ \E x \in Names \ {settings.form.details} :
          settings' = Edited([settings.form EXCEPT !.details = x])
     \/ \E d \in HourDays(settings.form.hours) : \E x \in Names \ {settings.form.hours[d]} :
          settings' = Edited([settings.form EXCEPT !.hours[d] = x])
  /\ UNCHANGED <<loads, req, profile, whole, faults>>

(* Mutant: the authority numbers do not count as changes.                  *)
FaultyUpdateAuthorityNumbers ==
  /\ Editable
  /\ \E x \in Org \ {settings.form.numbers} :
       settings' = [Edited([settings.form EXCEPT !.numbers = x]) EXCEPT !.dirty = settings.dirty]
  /\ UNCHANGED <<loads, req, profile, whole, faults>>

UpdateAuthorityNumbers ==
  /\ Editable
  /\ \E x \in Org \ {settings.form.numbers} : settings' = Edited([settings.form EXCEPT !.numbers = x])
  /\ UNCHANGED <<loads, req, profile, whole, faults>>

(* Mutant: the error of an earlier save stays.                             *)
FaultySaveProfile(t) ==
  /\ Editable /\ ~settings.submitting
  /\ \E admitted \in BOOLEAN : PostSave(session, t, settings.form, admitted)
  /\ settings' = [settings EXCEPT !.saved = FALSE, !.submitting = TRUE, !.sent = settings.form]
  /\ UNCHANGED <<loads, profile, faults>>

(* Save changes, or Try again after a failure.  A time that was cleared or *)
(* an authority number without a name makes it a form the DTO refuses.     *)
SaveProfile(t) ==
  /\ Editable /\ ~settings.submitting
  /\ \E admitted \in BOOLEAN : PostSave(session, t, settings.form, admitted)
  /\ settings' = [settings EXCEPT !.saved = FALSE, !.saveError = FALSE, !.submitting = TRUE,
                                  !.sent = settings.form, !.others = NoPart]
  /\ UNCHANGED <<loads, profile, faults>>

(* Mutant: any answer is taken for a success.                              *)
FaultyStored(q) == TRUE
Stored(q) == q.answer = "ok"

HearSaved(t) ==
  \E r \in Heard(t) :
    LET v == [settings EXCEPT !.submitting = FALSE, !.late = FALSE] IN
    /\ settings.submitting
    /\ settings' = IF Stored(req[r])
                   THEN [v EXCEPT !.form.numbers = settings.sent.numbers, !.base = settings.sent,
                                  !.saved = TRUE, !.dirty = FALSE, !.crossed = settings.late]
                   ELSE [v EXCEPT !.saveError = TRUE]
    /\ req' = Unheard(t)
    /\ UNCHANGED <<loads, profile, whole, faults>>

(* The answer is lost; the save goes on.                                   *)
LoseSave(t) ==
  /\ settings.submitting
  /\ Fault
  /\ settings' = [settings EXCEPT !.submitting = FALSE, !.late = FALSE, !.saveError = TRUE]
  /\ req' = Unheard(t)
  /\ UNCHANGED <<loads, profile, whole>>

-----------------------------------------------------------------------------
(* Other savers                                                            *)

(* Another tab, or another member, saves the profile: a form loaded there. *)
OthersSave ==
  /\ \E form \in Theirs, r \in Slots :
       /\ req[r].kind = "free"
       /\ req' = [req EXCEPT ![r] =
                    [Ask("save", "find") EXCEPT !.org = session.active, !.arg = form.details,
                                                !.numbers = form.numbers, !.hours = form.hours]]
  /\ whole' = [whole EXCEPT ![session.active] = IF Saving(session.active) = {} THEN NoForm ELSE Mixed]
  /\ UNCHANGED <<settings, loads, profile, faults>>

(* The parts that the step of save r stores.                               *)
StoredNow(r) ==
  [name |-> req[r].at = "write" /\ req'[r].at # "end", numbers |-> req[r].at = "numbers",
   hours |-> req[r].todo \ req'[r].todo]

(* The page's own save is the one it listens to.                           *)
NoteStored(r) ==
  LET old == settings.others
      new == StoredNow(r)
  IN  settings' =
        IF ~settings.submitting /\ ~settings.saved THEN settings
        ELSE [settings EXCEPT !.others =
                IF req[r].from # None
                THEN [name |-> old.name /\ ~new.name, numbers |-> old.numbers /\ ~new.numbers,
                      hours |-> old.hours \ new.hours]
                ELSE [name |-> old.name \/ new.name, numbers |-> old.numbers \/ new.numbers,
                      hours |-> old.hours \cup new.hours]]

-----------------------------------------------------------------------------
(* Mutant: nothing is asked while a save is under way.                     *)
FaultyAsksToLeave == settings.dirty /\ ~settings.submitting
(* A link of the page, or a reload, first asks whether to leave.           *)
AsksToLeave == settings.dirty

SettingsTypeOK ==
  /\ settings.form \in [details : Org, numbers : Org, hours : [Days -> Org]]
  /\ settings.saved => settings.loaded /\ ~settings.saveError /\ ~settings.submitting
  /\ Len(loads) <= MaxLoads

(* While Saved. is shown, every part of the stored profile, details, hours *)
(* and authority numbers alike, is what the form holds, but for those that *)
(* another save (of an earlier page, another tab or another member) has    *)
(* stored since; unless an answer has crossed with edits.                  *)
SavedIsStored ==
  LET stored == profile[session.active]
      form == settings.form
  IN  settings.saved /\ ~settings.crossed =>
        /\ stored.name = form.details \/ settings.others.name
        /\ stored.numbers = form.numbers \/ settings.others.numbers
        /\ \A d \in HourDays(form.hours) :
             stored.hours[d] = form.hours[d] \/ d \in settings.others.hours

(* A form that does not count as edited holds what was last loaded or      *)
(* stored, unless an answer has crossed with edits.                        *)
CleanIsUntouched ==
  settings.loaded /\ ~settings.dirty /\ ~settings.crossed => settings.form = settings.base
=============================================================================
