---------------------------- MODULE Organization ----------------------------
(***************************************************************************)
(* Organizations, the user's membership of them and their plan             *)
(* (better-auth's organization plugin, organization.service.ts), and the   *)
(* onboarding status, which three reads made at once go into.              *)
(***************************************************************************)
EXTENDS PhoneNumbers

ASSUME PlansAssumption == Plans # {} /\ None \notin Plans

VARIABLES
  account,     \* the user has an account
  orgs,        \* organizations there are, by slug (unique)
  member,      \* those the user is a member of
  plan,        \* planTier
  chosen       \* history: the plans an organization ever had

SetPlan(r) ==
  LET o == req[r].org IN
  /\ Serving(r, "plan", "write")
  /\ plan' = [plan EXCEPT ![o] = req[r].arg]
  /\ chosen' = [chosen EXCEPT ![o] = @ \cup {req[r].arg}]
  /\ Reply(r, "ok")

(* Promise.all: the reads come in any order, other requests in between.    *)
(* seen is what was found complete; the tier that was read goes to arg.    *)
StatusRead(r) ==
  LET o == req[r].org
      holds(part, found) == IF found THEN req[r].seen \cup {part} ELSE req[r].seen
      next(part, found, tier) ==
        req' = [req EXCEPT ![r] =
                  Settled([@ EXCEPT !.seen = holds(part, found), !.arg = tier,
                                    !.todo = req[r].todo \ {part},
                                    !.at = IF req[r].todo = {part} THEN "end" ELSE "read",
                                    !.answer = IF req[r].todo = {part} THEN "ok" ELSE "none"])]
  IN /\ Serving(r, "status", "read")
     /\ \/ /\ "profile" \in req[r].todo
           /\ next("profile", profile[o].name # None, req[r].arg)
        \/ /\ "plan" \in req[r].todo
           /\ next("plan", plan[o] # None, plan[o])
        \/ /\ "number" \in req[r].todo
           /\ \E i \in FindFirst(o) \cup {0} :
                /\ i = 0 => FindFirst(o) = {}
                /\ next("number", i # 0 /\ number[o][i].status = "PURCHASED", req[r].arg)
     /\ UNCHANGED <<plan, chosen>>

StatusReads == {"profile", "plan", "number"}

(* The answer: complete, nextStep.                                         *)
Complete(q) == q.seen = StatusReads
(* Mutant: the plan comes before the profile.                              *)
FaultyNextStep(q) ==
  IF "plan" \notin q.seen THEN 2 ELSE IF "profile" \notin q.seen THEN 1 ELSE 3
NextStep(q) ==
  IF "profile" \notin q.seen THEN 1 ELSE IF "plan" \notin q.seen THEN 2 ELSE 3

PostStatus(s, t) == Post(s, t, [Ask("status", "read") EXCEPT !.todo = StatusReads], TRUE)

OrganizationTypeOK ==
  /\ account \in BOOLEAN
  /\ orgs \subseteq Names /\ member \subseteq orgs
  /\ plan \in [Names -> Plans \cup {None}]
  /\ chosen \in [Names -> SUBSET Plans]
=============================================================================
