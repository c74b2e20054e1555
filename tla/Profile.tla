------------------------------- MODULE Profile -------------------------------
(***************************************************************************)
(* Saves of the business profile (business-profile.controller.ts): a read, *)
(* a create or an update, an upsert per weekday, all at once, and the      *)
(* replacement of the authority numbers, with no transaction around them.  *)
(* Details, the hours of a day and the authority numbers are each named    *)
(* for the form they are from.                                             *)
(***************************************************************************)
EXTENDS DashboardApi

VARIABLES
  profile,     \* rows of business_profiles, business_hours, authority_numbers
  whole        \* history: the form of the last save that met no other, if it
               \* was answered well

ProfileRow == [name : Org, numbers : Org, hours : [Days -> Org]]
NoProfile == [name |-> None, numbers |-> None, hours |-> NoHours]

(* What a form holds: details, authority numbers, and hours for some days. *)
Form(details, numbers, hours) == [details |-> details, numbers |-> numbers, hours |-> hours]
NoForm == Form(None, None, NoHours)
Mixed == Form("mixed", "mixed", NoHours)

ASSUME MixedAssumption == None # "mixed"

HourDays(hours) == {d \in Days : hours[d] # None}

Saving(o) ==
  {r \in Slots : /\ req[r].kind = "save" /\ req[r].org = o
                 /\ (req[r].answer = "none" \/ req[r].todo # {})}

(* The client always sends hours and authority numbers; a half-filled row  *)
(* of the latter is not admitted.                                          *)
PostSave(s, t, form, admitted) ==
  /\ Post(s, t, [Ask("save", "find") EXCEPT !.arg = form.details, !.numbers = form.numbers,
                                            !.hours = form.hours], admitted)
  /\ whole' = IF s.active = None THEN whole
              ELSE [whole EXCEPT ![s.active] = IF Saving(s.active) = {} THEN NoForm ELSE Mixed]

SaveFind(r) ==
  /\ Serving(r, "save", "find")
  /\ req' = [req EXCEPT ![r].at = "write",
                        ![r].row = IF profile[req[r].org].name = None THEN 0 ELSE 1]
  /\ UNCHANGED <<profile, whole>>

(* business_profiles.org_id is unique: a second create is rejected.        *)
SaveWrite(r) ==
  LET o == req[r].org IN
  /\ Serving(r, "save", "write")
  /\ \/ /\ req[r].row = 0 /\ profile[o].name # None
        /\ Reply(r, "error")
        /\ UNCHANGED profile
     \/ /\ req[r].row = 1 \/ profile[o].name = None
        /\ profile' = [profile EXCEPT ![o].name = req[r].arg]
        /\ req' = [req EXCEPT ![r].at = IF HourDays(req[r].hours) = {} THEN "numbers" ELSE "days",
                              ![r].todo = HourDays(req[r].hours)]
  /\ UNCHANGED whole

(* Mutant: the answer does not wait for the upserts that are still running.*)
FaultySaveDay(r) ==
  \E d \in req[r].todo :
    /\ req[r].kind = "save"
    /\ profile' = [profile EXCEPT ![req[r].org].hours[d] = req[r].hours[d]]
    /\ req' = [req EXCEPT ![r] = Settled([@ EXCEPT !.todo = {},
                                   !.at = IF @ = "days" THEN "numbers" ELSE @])]
    /\ UNCHANGED whole

(* The upserts run together; one goes on after another has failed.         *)
SaveDay(r) ==
  \E d \in req[r].todo :
    /\ req[r].kind = "save"
    /\ profile' = [profile EXCEPT ![req[r].org].hours[d] = req[r].hours[d]]
    /\ req' = [req EXCEPT ![r] =
                 Settled([@ EXCEPT !.todo = req[r].todo \ {d},
                                   !.at = IF req[r].at = "days" /\ req[r].todo = {d} THEN "numbers"
                                          ELSE req[r].at])]
    /\ UNCHANGED whole

SaveDayFails(r) ==
  \E d \in req[r].todo :
    /\ req[r].kind = "save"
    /\ Fault
    /\ req' = [req EXCEPT ![r] =
                 Settled([@ EXCEPT !.todo = req[r].todo \ {d}, !.at = "end", !.answer = "error"])]
    /\ UNCHANGED <<profile, whole>>

(* One transaction: delete all, create all.                                *)
SaveNumbers(r) ==
  /\ Serving(r, "save", "numbers")
  /\ profile' = [profile EXCEPT ![req[r].org].numbers = req[r].numbers]
  /\ req' = [req EXCEPT ![r].at = "read"]
  /\ UNCHANGED whole

SaveAnswers(r) ==
  /\ Serving(r, "save", "read")
  /\ Reply(r, "ok")
  /\ whole' = [whole EXCEPT ![req[r].org] =
                           IF @ = NoForm THEN Form(req[r].arg, req[r].numbers, req[r].hours) ELSE @]
  /\ UNCHANGED profile

ServeProfile(r) ==
  SaveFind(r) \/ SaveWrite(r) \/ SaveDay(r) \/ SaveNumbers(r) \/ SaveAnswers(r)

ProfileTypeOK ==
  /\ profile \in [Names -> ProfileRow]
  /\ whole \in [Names -> {Mixed} \cup [details : Org, numbers : Org, hours : [Days -> Org]]]

(* A save that was answered well and met no other left all of its form:    *)
(* name, the hours of each of its days and the authority numbers are of    *)
(* one save, whatever earlier saves failed half way.  (upsert, without a   *)
(* transaction.)                                                           *)
LoneSaveIsWhole ==
  \A o \in Names :
    whole[o] \notin {NoForm, Mixed} =>
      /\ profile[o].name = whole[o].details
      /\ profile[o].numbers = whole[o].numbers
      /\ \A d \in HourDays(whole[o].hours) : profile[o].hours[d] = whole[o].hours[d]
=============================================================================
