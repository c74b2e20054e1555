---------------------------- MODULE PhoneNumbers ----------------------------
(***************************************************************************)
(* An organization's phone number (phone-numbers.service.ts): the owner    *)
(* asks for one, staff buy it, and the owner has the forwarding verified   *)
(* by a call.  Nothing keeps an organization to one row: provision and the *)
(* script that sets a test account's number each read the row and then     *)
(* update or create one.                                                   *)
(***************************************************************************)
EXTENDS Profile

CONSTANTS
  Demo,        \* the organization the scripts set up
  MaxCalls     \* calls that reach an organization (a bound)

ASSUME DemoAssumption == Demo \in Names

VARIABLES
  number,      \* rows of org_phone_numbers
  calls,       \* call transcripts of the organization's business, counted
  ringing,     \* organizations on whose number a call is under way
  staff,       \* the row whose number staff have bought, not yet marked
  hand,        \* the row the test account's script found (0: none), until it writes
  overlapped   \* history: organizations of which two writers overlapped

(* An instant is told by the transcripts there are.  asked:                *)
(* verificationRequestedAt; first: the earliest it ever was (history).     *)
NumberRow ==
  [status : Status, asked : Nat \cup {None}, first : Nat \cup {None}, verified : BOOLEAN]

NewRow(status) == [status |-> status, asked |-> None, first |-> None, verified |-> FALSE]

StaffIdle == [org |-> None, row |-> 0]

(* toStatusResponse: of a row the wizard goes by its provisioningStatus.   *)
Shown(row) == row.status

(* findFirst without an order: any row of the organization.                *)
FindFirst(o) == DOMAIN number[o]

-----------------------------------------------------------------------------
(* provision                                                               *)

Provisioning(o) == {r \in Slots : Serving(r, "provision", "write") /\ req[r].org = o}

Overlap(o) ==
  IF Provisioning(o) # {} \/ (o = Demo /\ hand # None) THEN overlapped \cup {o} ELSE overlapped

(* Mutant: a number that is there already is no conflict.                  *)
FaultyConflicts(row) == row.status = "AWAITING_APPROVAL"
Conflicts(row) == row.status \in {"PURCHASED", "AWAITING_APPROVAL"}

ProvisionFind(r) ==
  LET o == req[r].org IN
  /\ Serving(r, "provision", "find")
  /\ \/ /\ \E i \in FindFirst(o) : Conflicts(number[o][i])
        /\ Reply(r, "conflict")
        /\ UNCHANGED overlapped
     \/ \E i \in FindFirst(o) \cup {0} :
          /\ IF i = 0 THEN FindFirst(o) = {} ELSE ~Conflicts(number[o][i])
          /\ req' = [req EXCEPT ![r].at = "write", ![r].row = i]
          /\ overlapped' = Overlap(o)
  /\ UNCHANGED number

Requested(r) ==
  req' = [req EXCEPT ![r] =
            Settled([@ EXCEPT !.answer = "ok", !.at = "end", !.arg = "AWAITING_APPROVAL"])]

(* Mutant: a failed request is not taken up again, a new row is made.      *)
FaultyProvisionWrite(r) ==
  /\ Serving(r, "provision", "write")
  /\ number' = [number EXCEPT ![req[r].org] = Append(@, NewRow("AWAITING_APPROVAL"))]
  /\ Requested(r)
  /\ UNCHANGED overlapped

(* The price is read on the way.  An update keeps the stamps.              *)
ProvisionWrite(r) ==
  /\ Serving(r, "provision", "write")
  /\ number' = [number EXCEPT ![req[r].org] =
                  IF req[r].row = 0 THEN Append(@, NewRow("AWAITING_APPROVAL"))
                                    ELSE [@ EXCEPT ![req[r].row].status = "AWAITING_APPROVAL"]]
  /\ Requested(r)
  /\ UNCHANGED overlapped

(* GET me, with which the wizard also reads the price list.                *)
Me(r) ==
  LET o == req[r].org IN
  /\ Serving(r, "me", "read")
  /\ \/ number[o] = <<>> /\ Reply(r, "missing")
     \/ \E i \in FindFirst(o) :
          req' = [req EXCEPT ![r] =
                    Settled([@ EXCEPT !.answer = "ok", !.at = "end", !.arg = Shown(number[o][i])])]
  /\ UNCHANGED <<number, overlapped>>

-----------------------------------------------------------------------------
(* verify                                                                  *)

(* The row's stamps are read here and used below, after other awaits.      *)
VerifyFind(r) ==
  LET o == req[r].org IN
  /\ Serving(r, "verify", "find")
  /\ \/ FindFirst(o) = {} /\ Reply(r, "missing")
     \/ \E i \in FindFirst(o) :
          /\ number[o][i].status # "PURCHASED"
          /\ Reply(r, "missing")
     \/ \E i \in FindFirst(o) :
          /\ number[o][i].status = "PURCHASED"
          /\ req' = [req EXCEPT ![r].at = "profile", ![r].row = i, ![r].asked = number[o][i].asked,
                                ![r].seen = IF number[o][i].verified THEN {"number"} ELSE {}]
  /\ UNCHANGED number

(* The stamp is taken here and stored below: another request may store its *)
(* later one in between.                                                   *)
VerifyProfile(r) ==
  LET o == req[r].org IN
  /\ Serving(r, "verify", "profile")
  /\ \/ profile[o].name = None /\ Reply(r, "invalid")
     \/ profile[o].name # None /\ "number" \in req[r].seen /\ Reply(r, "ok")
     \/ /\ profile[o].name # None /\ "number" \notin req[r].seen
        /\ req' = IF req[r].asked = None
                  THEN [req EXCEPT ![r].at = "write", ![r].asked = calls[o]]
                  ELSE [req EXCEPT ![r].at = "search"]
  /\ UNCHANGED number

Earliest(first, asked) == IF first = None \/ asked < first THEN asked ELSE first
Stamped(row, asked) == [row EXCEPT !.asked = asked, !.first = Earliest(@, asked)]

VerifyStamp(r) ==
  /\ Serving(r, "verify", "write")
  /\ number' = [number EXCEPT ![req[r].org][req[r].row] = Stamped(@, req[r].asked)]
  /\ Reply(r, "ok")

(* Mutant: any call counts, one from before the stamp too.                 *)
FaultyVerifySearch(r) ==
  /\ Serving(r, "verify", "search")
  /\ IF calls[req[r].org] >= req[r].asked THEN req' = [req EXCEPT ![r].at = "mark"] ELSE Reply(r, "ok")
  /\ UNCHANGED number

(* A call from after the stamp that was read.                              *)
VerifySearch(r) ==
  /\ Serving(r, "verify", "search")
  /\ IF calls[req[r].org] > req[r].asked THEN req' = [req EXCEPT ![r].at = "mark"] ELSE Reply(r, "ok")
  /\ UNCHANGED number

VerifyMark(r) ==
  /\ Serving(r, "verify", "mark")
  /\ number' = [number EXCEPT ![req[r].org][req[r].row].verified = TRUE]
  /\ Reply(r, "ok")

ServeVerify(r) ==
  \/ VerifyFind(r)
  \/ VerifyProfile(r)
  \/ VerifyStamp(r)
  \/ VerifySearch(r)
  \/ VerifyMark(r)

-----------------------------------------------------------------------------
(* The fulfilment by staff that the service's comments describe, and calls *)
(* (attemptRouting, which fulfilment is to call, has no caller yet.)       *)

StaffPurchase ==
  \E o \in Names : \E i \in DOMAIN number[o] :
    /\ staff.row = 0 /\ number[o][i].status = "AWAITING_APPROVAL"
    /\ \/ staff' = [org |-> o, row |-> i] /\ UNCHANGED number
       \/ number' = [number EXCEPT ![o][i].status = "FAILED"] /\ UNCHANGED staff

StaffMark ==
  /\ staff.row # 0
  /\ number' = [number EXCEPT ![staff.org][staff.row].status = "PURCHASED"]
  /\ staff' = StaffIdle

Staff == StaffPurchase \/ StaffMark

(* A call on a number in use.                                              *)
CallBegins ==
  \E o \in Names \ ringing :
    /\ profile[o].name # None /\ calls[o] < MaxCalls
    /\ \E i \in DOMAIN number[o] : number[o][i].status = "PURCHASED"
    /\ ringing' = ringing \cup {o}
    /\ UNCHANGED calls

(* The transcript is created, and stamped, at the end of the call, unless  *)
(* its POST is lost.                                                       *)
CallEnds ==
  \E o \in ringing :
    /\ \/ calls' = [calls EXCEPT ![o] = @ + 1]
       \/ UNCHANGED calls
    /\ ringing' = ringing \ {o}

Calls == CallBegins \/ CallEnds

-----------------------------------------------------------------------------
NumbersTypeOK ==
  /\ number \in [Names -> Seq(NumberRow)]
  /\ calls \in [Names -> 0 .. MaxCalls]
  /\ ringing \subseteq {o \in Names : calls[o] < MaxCalls}
  /\ staff \in [org : Org, row : Nat]
  /\ hand \in Nat \cup {None}
  /\ overlapped \subseteq Names

(* An organization has two numbers only if two writers overlapped: each    *)
(* read that there was none, or a failed one, before the other wrote.      *)
(* (provision and the script, which read and then write unguarded.)        *)
TwoRowsOnlyOverlapping == \A o \in Names \ overlapped : Len(number[o]) <= 1

(* No step takes a purchased number back to another status, unless two     *)
(* writers overlapped: a retry of a failed request cannot undo what staff  *)
(* have fulfilled since.                                                   *)
PurchasedKept ==
  \A o \in Names \ overlapped' : \A i \in DOMAIN number[o] :
    number[o][i].status = "PURCHASED" => number'[o][i].status = "PURCHASED"

(* A verified number had a call recorded after the owner first asked for   *)
(* the check, however verifications interleave, restamp the row, with a    *)
(* stamp older than the one stored, or fail half way.  (verifyForwarding   *)
(* goes by the transcript's createdAt: the call may have begun before.)    *)
VerifiedByACall ==
  \A o \in Names : \A i \in DOMAIN number[o] :
    number[o][i].verified => number[o][i].first # None /\ calls[o] > number[o][i].first
=============================================================================
