------------------------------- MODULE Scripts -------------------------------
(***************************************************************************)
(* The scripts that set up a development database: seed.ts,                *)
(* create-test-account.ts and set-test-account-plan-and-number.ts.  Each   *)
(* may be started again at any time, and may die between two of its calls. *)
(***************************************************************************)
EXTENDS Organization

CONSTANT Samples   \* rows of each kind of sample data

ASSUME SamplesAssumption == Samples # {}

VARIABLES
  seed,        \* where seed.ts is, and the rows it has still to upsert there
  sample,      \* sample rows stored
  owner,       \* where create-test-account.ts is
  setup,       \* where set-test-account-plan-and-number.ts is
  ran,         \* history: scripts that ran to their end
  starts       \* starts and deaths left (a bound)

Kinds == {"services", "appointment", "transcripts", "inquiries"}
SeedRows(at) == IF at = "appointment" THEN {CHOOSE x \in Samples : TRUE} ELSE Samples
After ==
  [services |-> "hours", hours |-> "appointment", appointment |-> "transcripts",
   transcripts |-> "inquiries", inquiries |-> "end"]
SeedAt(at) ==
  [at |-> at, todo |-> IF at \in Kinds THEN SeedRows(at) ELSE IF at = "hours" THEN Days ELSE {}]
SeedIdle == SeedAt("end")

(* What the seed gives the organization; its hours too.                    *)
Seeded == Demo

(* Upserts with an empty update: what is there stays.                      *)
SeedOrg ==
  /\ seed.at = "org"
  /\ orgs' = orgs \cup {Demo}
  /\ seed' = SeedAt("business")
  /\ UNCHANGED <<profile, sample, ran>>

(* Mutant: the update resets the profile.                                  *)
FaultySeedBusiness ==
  /\ seed.at = "business"
  /\ profile' = [profile EXCEPT ![Demo].name = Seeded, ![Demo].hours = [d \in Days |-> Seeded]]
  /\ seed' = SeedAt("services")
  /\ UNCHANGED <<orgs, sample, ran>>

SeedBusiness ==
  /\ seed.at = "business"
  /\ profile' = [profile EXCEPT ![Demo].name = IF @ = None THEN Seeded ELSE @]
  /\ seed' = SeedAt("services")
  /\ UNCHANGED <<orgs, sample, ran>>

(* Mutant: the next part begins when the first of the upserts is done.     *)
FaultySeedRow ==
  \E x \in seed.todo :
    LET at == seed.at IN
    /\ IF at = "hours"
       THEN /\ profile' = [profile EXCEPT ![Demo].hours[x] = IF @ = None THEN Seeded ELSE @]
            /\ UNCHANGED sample
       ELSE /\ sample' = [sample EXCEPT ![at] = @ \cup {x}]
            /\ UNCHANGED profile
    /\ seed' = SeedAt(After[at])
    /\ ran' = IF After[at] = "end" THEN ran \cup {"seed"} ELSE ran
    /\ UNCHANGED orgs

(* Promise.all of upserts; the next part when all are done.                *)
SeedRow ==
  \E x \in seed.todo :
    LET at == seed.at
        rest == seed.todo \ {x}
    IN /\ IF at = "hours"
          THEN /\ profile' = [profile EXCEPT ![Demo].hours[x] = IF @ = None THEN Seeded ELSE @]
               /\ UNCHANGED sample
          ELSE /\ sample' = [sample EXCEPT ![at] = @ \cup {x}]
               /\ UNCHANGED profile
       /\ seed' = IF rest = {} THEN SeedAt(After[at]) ELSE [seed EXCEPT !.todo = rest]
       /\ ran' = IF rest = {} /\ After[at] = "end" THEN ran \cup {"seed"} ELSE ran
       /\ UNCHANGED orgs

Seed == SeedOrg \/ SeedBusiness \/ SeedRow

(* create-test-account.ts: with an account there already it throws, also   *)
(* when an earlier run died before it added the member.                    *)
SignUpOwner ==
  /\ owner = "sign-up"
  /\ account' = TRUE
  /\ owner' = IF account THEN "idle" ELSE "add-member"
  /\ UNCHANGED <<member, ran>>

AddMember ==
  /\ owner = "add-member"
  /\ member' = member \cup {Demo}
  /\ owner' = "idle" /\ ran' = ran \cup {"owner"}
  /\ UNCHANGED account

Owner == SignUpOwner \/ AddMember

(* set-test-account-plan-and-number.ts                                     *)
Tier == CHOOSE p \in Plans : TRUE

SetupPlan ==
  /\ setup = "plan" /\ Demo \in orgs
  /\ plan' = [plan EXCEPT ![Demo] = Tier]
  /\ chosen' = [chosen EXCEPT ![Demo] = @ \cup {Tier}]
  /\ setup' = "find"
  /\ UNCHANGED <<number, hand, overlapped, ran>>

SetupFind ==
  /\ setup = "find"
  /\ \E i \in FindFirst(Demo) \cup {0} : (i = 0 => FindFirst(Demo) = {}) /\ hand' = i
  /\ overlapped' = IF Provisioning(Demo) # {} THEN overlapped \cup {Demo} ELSE overlapped
  /\ setup' = "write"
  /\ UNCHANGED <<number, plan, chosen, ran>>

(* Mutant: a new row is left with the column's default.                    *)
UnsetSetupWrite ==
  /\ setup = "write"
  /\ number' = [number EXCEPT ![Demo] =
                  IF hand = 0 THEN Append(@, NewRow("PENDING"))
                              ELSE [@ EXCEPT ![hand].status = "PURCHASED"]]
  /\ hand' = None
  /\ setup' = "idle" /\ ran' = ran \cup {"setup"}
  /\ UNCHANGED <<plan, chosen, overlapped>>

(* phone_number is unique: if another row holds the number, it throws.     *)
SetupWrite ==
  /\ setup = "write"
  /\ \/ /\ number' = [number EXCEPT ![Demo] =
                        IF hand = 0 THEN Append(@, NewRow("PURCHASED"))
                                    ELSE [@ EXCEPT ![hand].status = "PURCHASED"]]
        /\ ran' = ran \cup {"setup"}
     \/ /\ \E i \in DOMAIN number[Demo] \ {hand} : number[Demo][i].status = "PURCHASED"
        /\ UNCHANGED <<number, ran>>
  /\ hand' = None
  /\ setup' = "idle"
  /\ UNCHANGED <<plan, chosen, overlapped>>

Setup == SetupPlan \/ SetupFind \/ SetupWrite

(* A script is started when it is not running; it finds the organization,  *)
(* or throws at once.                                                      *)
StartScript ==
  /\ starts > 0 /\ starts' = starts - 1
  /\ \/ seed.at = "end" /\ seed' = SeedAt("org") /\ UNCHANGED <<owner, setup>>
     \/ owner = "idle" /\ Demo \in orgs /\ owner' = "sign-up" /\ UNCHANGED <<seed, setup>>
     \/ setup = "idle" /\ Demo \in orgs /\ setup' = "plan" /\ UNCHANGED <<seed, owner>>
  /\ UNCHANGED hand

ScriptDies ==
  /\ starts > 0 /\ starts' = starts - 1
  /\ \/ seed.at # "end" /\ seed' = SeedIdle /\ UNCHANGED <<owner, setup, hand>>
     \/ owner # "idle" /\ owner' = "idle" /\ UNCHANGED <<seed, setup, hand>>
     \/ setup # "idle" /\ setup' = "idle" /\ hand' = None /\ UNCHANGED <<seed, owner>>

-----------------------------------------------------------------------------
ScriptsTypeOK ==
  /\ seed.at \in Kinds \cup {"org", "business", "hours", "end"}
  /\ sample \in [Kinds -> SUBSET Samples]
  /\ owner \in {"idle", "sign-up", "add-member"}
  /\ setup \in {"idle", "plan", "find", "write"}
  /\ ran \subseteq {"seed", "owner", "setup"}
  /\ starts \in Nat

(* Once each script has run to its end the test account is a member of an  *)
(* organization that is set up, with hours for every day and all the       *)
(* sample rows, whatever runs died before and in whatever order; unless a  *)
(* provision overlapped the last script.                                   *)
DemoReady ==
  ran = {"seed", "owner", "setup"} =>
    /\ account /\ Demo \in member
    /\ profile[Demo].name # None /\ \A d \in Days : profile[Demo].hours[d] # None
    /\ \A kind \in Kinds : sample[kind] = SeedRows(kind)
    /\ plan[Demo] # None
    /\ Demo \in overlapped \/ \E i \in DOMAIN number[Demo] : number[Demo][i].status = "PURCHASED"

(* Hours and names that are stored change only by a save: a seed run again *)
(* keeps what the owner has edited since.                                  *)
SeedKeepsEdits ==
  \A o \in Names :
    Saving(o) = {} =>
      /\ profile[o].name # None => profile'[o].name = profile[o].name
      /\ \A d \in Days : profile[o].hours[d] # None => profile'[o].hours[d] = profile[o].hours[d]
=============================================================================
