------------------------------ MODULE VoiceCall ------------------------------
(***************************************************************************)
(* Phone calls of the voice agent: run_bot and its clean-up (bot.py), the  *)
(* call's session in Redis (session_store.py), the tool handlers with      *)
(* their retries (tools.py), and the transcripts the API keeps of calls    *)
(* (call-transcripts.service.ts).                                          *)
(*                                                                         *)
(* A run is one invocation of run_bot: one WebSocket of one call.  When    *)
(* the WebSocket is cut and Exotel connects again, a second run has the    *)
(* call id of the first.  A tool call is one function call the language    *)
(* model makes; its n-th POST is the request <<t, n>> of Booking, so the   *)
(* calls compose with the API step by step.                                *)
(***************************************************************************)
EXTENDS Booking

CONSTANTS
  Run,            \* invocations of run_bot
  Call,           \* call ids
  CallOf,         \* the call of a run
  PhoneOf,        \* the number a call comes from
  Home,           \* BUSINESS_ID
  AuthorityPhone, \* registered numbers of the business
  CheckTool,      \* calls of check_availability
  BookTool,       \* calls of book_appointment
  CancelTool,     \* calls of cancel_appointment
  InquiryTool,    \* calls of log_inquiry
  Nobody,
  NoSession,
  NoSlot,
  NoTranscript,
  MayCall,        \* the tool calls each run may make (a bound)
  Crashing,       \* runs whose process may crash (a bound)
  Flaky,          \* runs for which Redis may fail (a bound)
  MaxAttempts     \* _MAX_ATTEMPTS

PostTool == CheckTool \cup BookTool \cup CancelTool
Tool == PostTool \cup InquiryTool

(* Every booking request of the API comes from a tool call.                *)
ASSUME ToolAssumption ==
  /\ MaxAttempts \in Nat \ {0}
  /\ Checker = CheckTool \X (1 .. MaxAttempts)
  /\ Booker = BookTool \X (1 .. MaxAttempts)
  /\ Canceller = CancelTool \X (1 .. MaxAttempts)
  /\ PostTool \cap InquiryTool = {}

ASSUME CallAssumption ==
  /\ CallOf \in [Run -> Call]
  /\ PhoneOf \in [Call -> Phone]
  /\ Home \in BusinessId
  /\ Nobody \notin Run
  /\ MayCall \in [Run -> SUBSET Tool]
  /\ Crashing \subseteq Run
  /\ Flaky \subseteq Run

VARIABLES
  phase,       \* the await each run is at
  ctx,         \* each run's CallContext: what the call has come to
  session,     \* the hashes in Redis
  caller,      \* the run that made each tool call
  stage,       \* the await each tool call is at
  args,        \* its payload
  tries,       \* the POSTs it has sent
  result,      \* what its handler has made of the answer
  heard,       \* what result_callback has handed to the model
  filed,       \* inquiries in the API's table
  mail,        \* runs whose transcript is on its way to the API
  transcript,  \* rows of call_transcripts
  trouble      \* history: what has befallen each call's session

runVars  == <<phase, ctx>>
toolVars == <<caller, stage, args, tries, result, heard>>
filing   == <<filed, mail, transcript>>
redis    == <<session, trouble>>
callVars == <<phase, ctx, session, caller, stage, args, tries, result,
              heard, filed, mail, transcript, trouble>>
allVars  == <<vars, callVars>>

Fresh == [authority |-> FALSE, inquiry |-> FALSE,
          booking |-> NoReference, cancelled |-> NoReference]

Underway(r) == phase[r] \notin {"idle", "ended", "crashed"}
Abandoned(c) == \A r \in Run : CallOf[r] = c => ~Underway(r)

ToolInit ==
  /\ caller = [t \in Tool |-> Nobody]
  /\ stage = [t \in Tool |-> "idle"]
  /\ args = [t \in Tool |-> NoDto]
  /\ tries = [t \in Tool |-> 0]
  /\ result = [t \in Tool |-> "none"]
  /\ heard = [t \in Tool |-> "none"]

CallInit ==
  /\ Init
  /\ ToolInit
  /\ phase = [r \in Run |-> "idle"]
  /\ ctx = [r \in Run |-> Fresh]
  /\ session = [c \in Call |-> NoSession]
  /\ filed = {}
  /\ mail = {}
  /\ transcript = [c \in Call |-> NoTranscript]
  /\ trouble = [c \in Call |-> {}]

-----------------------------------------------------------------------------
(* Redis.  A hash keeps its expiry, and its other fields, when fields are  *)
(* written.                                                                *)

Hset(c, slot) ==
  LET s == session[c]
  IN  [session EXCEPT ![c] =
         IF s = NoSession THEN [slot |-> slot, expires |-> FALSE]
         ELSE [slot |-> IF slot = NoSlot THEN s.slot ELSE slot,
               expires |-> s.expires]]

(* The refresh of the expiry forgotten.                                    *)
FaultySetExpiry(c) == session

SetExpiry(c) ==
  LET s == session[c]
  IN  [session EXCEPT ![c] = IF s = NoSession THEN NoSession
                             ELSE [slot |-> s.slot, expires |-> TRUE]]

Delete(c) == [session EXCEPT ![c] = NoSession]

(* History.  "failure": a crash or a failed command.  "torn": fields may    *)
(* have been written by an upsert that never came to its expire.           *)
Befalls(c, what) == trouble' = [trouble EXCEPT ![c] = @ \cup what]

RedisDoes(after) == session' = after /\ UNCHANGED trouble

(* A command that fails may have taken effect; the store only logs it.     *)
RedisFails(r, after, what) ==
  /\ r \in Flaky
  /\ session' \in {session, after}
  /\ Befalls(CallOf[r], {"failure"} \cup what)

-----------------------------------------------------------------------------
(* run_bot, up to the conversation.                                        *)

Move(r, p) == phase' = [phase EXCEPT ![r] = p]

Start(r) ==
  /\ phase[r] = "idle"
  /\ Move(r, "lookup")
  /\ UNCHANGED <<vars, ctx, redis, toolVars, filing>>

(* lookup_authority: when both attempts fail the caller is a customer.     *)
LookupAuthority(r) ==
  /\ phase[r] = "lookup"
  /\ \E known \in BOOLEAN :
       /\ known => PhoneOf[CallOf[r]] \in AuthorityPhone
       /\ ctx' = [ctx EXCEPT ![r].authority = known]
       /\ Move(r, IF known THEN "live" ELSE "get")
  /\ UNCHANGED <<vars, redis, toolVars, filing>>

(* session_store.get: the session of an earlier run of the call, if any.   *)
GetSession(r) ==
  /\ phase[r] = "get"
  /\ \/ session[CallOf[r]] # NoSession /\ Move(r, "live")
        /\ UNCHANGED redis
     \/ session[CallOf[r]] = NoSession /\ Move(r, "hset")
        /\ UNCHANGED redis
     \/ RedisFails(r, session, {}) /\ Move(r, "hset")
  /\ UNCHANGED <<vars, ctx, toolVars, filing>>

(* session_store.upsert of the call's id, number and time: hset, expire.   *)
CreateSession(r) ==
  /\ phase[r] = "hset"
  /\ LET after == Hset(CallOf[r], NoSlot)
     IN  \/ RedisDoes(after) /\ Move(r, "expire")
         \/ RedisFails(r, after, {"torn"}) /\ Move(r, "live")
  /\ UNCHANGED <<vars, ctx, toolVars, filing>>

ExpireSession(r) ==
  /\ phase[r] = "expire"
  /\ LET after == SetExpiry(CallOf[r])
     IN  RedisDoes(after) \/ RedisFails(r, after, {"torn"})
  /\ Move(r, "live")
  /\ UNCHANGED <<vars, ctx, toolVars, filing>>

-----------------------------------------------------------------------------
(* The end of a run.                                                       *)

Working(t) == stage[t] \notin {"idle", "done", "dropped"}
ToolsOf(r) == {t \in Tool : caller[t] = r /\ Working(t)}

(* The pipeline's handlers end with it.                                    *)
DropTools(r) ==
  stage' = [t \in Tool |-> IF t \in ToolsOf(r) THEN "dropped"
                                                   ELSE stage[t]]

TornBy(r) ==
  IF phase[r] = "expire" \/ \E t \in ToolsOf(r) : stage[t] = "expire"
    THEN {"torn"} ELSE {}

(* The caller hangs up, stays silent, or the WebSocket is cut: runner.run  *)
(* returns and post_call_transcript sends the transcript, once.            *)
End(r) ==
  /\ phase[r] = "live"
  /\ Move(r, "transcript")
  /\ DropTools(r)
  /\ mail' = mail \cup {r}
  /\ Befalls(CallOf[r], TornBy(r))
  /\ UNCHANGED <<vars, ctx, session, caller, args, tries, result, heard,
                 filed, transcript>>

(* post_call_transcript's outcome, and the reference create stores.        *)
OutcomeOf(x) ==
  IF x.authority THEN "AUTHORITY_QUERY"
  ELSE IF x.booking # NoReference THEN "BOOKED"
  ELSE IF x.cancelled # NoReference THEN "CANCELLED"
  ELSE IF x.inquiry THEN "INQUIRY"
  ELSE "NO_OUTCOME"

RecordOf(r) ==
  [run |-> r, outcome |-> OutcomeOf(ctx[r]),
   ref |-> IF OutcomeOf(ctx[r]) = "BOOKED" THEN ctx[r].booking
                                           ELSE NoReference]

(* The API upserts the row of the call id, whenever the POST arrives.      *)
RecordTranscript(r) ==
  /\ r \in mail
  /\ mail' = mail \ {r}
  /\ transcript' = IF Home \in Business
                     THEN [transcript EXCEPT ![CallOf[r]] = RecordOf(r)]
                     ELSE transcript
  /\ UNCHANGED <<vars, runVars, redis, toolVars, filed>>

(* An error of the POST skips the rest of the clean-up.                    *)
FaultyLeaveTranscript(r) ==
  /\ phase[r] = "transcript"
  /\ Move(r, "delete") \/ Move(r, "ended")
  /\ UNCHANGED <<vars, ctx, redis, toolVars, filing>>

(* The POST is answered, fails or times out: either way the run goes on to *)
(* session_store.delete.                                                   *)
LeaveTranscript(r) ==
  /\ phase[r] = "transcript"
  /\ Move(r, "delete")
  /\ UNCHANGED <<vars, ctx, redis, toolVars, filing>>

EraseSession(r) ==
  /\ phase[r] = "delete"
  /\ LET after == Delete(CallOf[r])
     IN  RedisDoes(after) \/ RedisFails(r, after, {})
  /\ Move(r, "ended")
  /\ UNCHANGED <<vars, ctx, toolVars, filing>>

(* The process dies: no finally block runs.                                *)
Crash(r) ==
  /\ r \in Crashing
  /\ Underway(r)
  /\ Move(r, "crashed")
  /\ DropTools(r)
  /\ Befalls(CallOf[r], {"failure"} \cup TornBy(r))
  /\ UNCHANGED <<vars, ctx, session, caller, args, tries, result, heard,
                 filing>>

(* The expiry of a session nobody has written to for an hour.              *)
Lapse(c) ==
  /\ session[c] # NoSession
  /\ session[c].expires
  /\ Abandoned(c)
  /\ RedisDoes(Delete(c))
  /\ UNCHANGED <<vars, runVars, toolVars, filing>>

-----------------------------------------------------------------------------
(* Tool calls.                                                             *)

(* The payloads a tool call may post: the model chooses the service, the   *)
(* date and the time, the call the business and the number.                *)
Payloads(r, t) ==
  LET phone == PhoneOf[CallOf[r]]
  IN  IF t \in CheckTool THEN {d \in CheckDto : d.business = Home}
      ELSE IF t \in BookTool
        THEN {d \in BookDto : d.business = Home /\ d.phone = phone}
      ELSE IF t \in CancelTool
        THEN {d \in CancelDto : d.business = Home /\ d.phone = phone}
      ELSE {NoDto}

(* Only BOOKING_TOOLS act: an authority call has none of them.             *)
Invoke(r, t) ==
  /\ phase[r] = "live"
  /\ ~ctx[r].authority
  /\ t \in MayCall[r]
  /\ stage[t] = "idle"
  /\ stage' = [stage EXCEPT ![t] = "post"]
  /\ caller' = [caller EXCEPT ![t] = r]
  /\ tries' = [tries EXCEPT ![t] = 1]
  /\ \E d \in Payloads(r, t) : args' = [args EXCEPT ![t] = d]
  /\ UNCHANGED <<vars, runVars, redis, result, heard, filing>>

(* A POST reaches the API, perhaps after its client has given up on it.    *)
Deliver(t, n) ==
  /\ n <= tries[t]
  /\ \/ t \in CheckTool \cup BookTool /\ ReceiveSlot(<<t, n>>)
     \/ t \in CancelTool /\ ReceiveCancel(<<t, n>>)
  /\ dto'[<<t, n>>] = args[t]
  /\ UNCHANGED callVars

(* logInquiry.                                                             *)
FileInquiry(t) ==
  /\ t \in InquiryTool \ filed
  /\ tries[t] = 1
  /\ Home \in Business
  /\ filed' = filed \cup {t}
  /\ UNCHANGED <<vars, runVars, redis, toolVars, mail, transcript>>

(* result_callback: the model hears the result, and the handler returns.   *)
CallBack(t, outcome) ==
  /\ stage' = [stage EXCEPT ![t] = "done"]
  /\ heard' = [heard EXCEPT ![t] = outcome]

Finish(t, outcome) ==
  /\ result' = [result EXCEPT ![t] = outcome]
  /\ CallBack(t, outcome)

(* One attempt too many: the last attempt is retried as well.              *)
LateTryAgain(t) ==
  /\ stage[t] = "post"
  /\ \/ /\ t \in PostTool
        /\ tries[t] <= MaxAttempts
        /\ tries' = [tries EXCEPT ![t] = @ + 1]
        /\ UNCHANGED <<stage, result, heard>>
     \/ /\ t \in InquiryTool \/ tries[t] > MaxAttempts
        /\ Finish(t, "backend_unavailable")
        /\ UNCHANGED tries
  /\ UNCHANGED <<vars, runVars, redis, caller, args, filing>>

(* A POST fails, or times out whatever the API makes of it: one more try,  *)
(* then backend_unavailable; log_inquiry tries once.                       *)
TryAgain(t) ==
  /\ stage[t] = "post"
  /\ \/ /\ t \in PostTool
        /\ tries[t] < MaxAttempts
        /\ tries' = [tries EXCEPT ![t] = @ + 1]
        /\ UNCHANGED <<stage, result, heard>>
     \/ /\ t \in InquiryTool \/ tries[t] = MaxAttempts
        /\ Finish(t, "backend_unavailable")
        /\ UNCHANGED tries
  /\ UNCHANGED <<vars, runVars, redis, caller, args, filing>>

(* _KNOWN_BACKEND_ERROR_CODES; the rest becomes backend_unavailable.       *)
KnownCodes == {"ambiguous_service", "service_not_found",
               "appointment_not_found", "ambiguous_appointment"}

(* A 4xx is raised at once.                                                *)
HearRefusal(t) ==
  LET a == answer[<<t, tries[t]>>]
  IN  /\ t \in PostTool
      /\ stage[t] = "post"
      /\ a.status \in Refusals \ {"unavailable"}
      /\ Finish(t, IF a.status \in KnownCodes THEN a.status
                                              ELSE "backend_unavailable")
      /\ UNCHANGED <<vars, runVars, redis, caller, args, tries, filing>>

(* With its result in hand a cancellation calls back at once; the other    *)
(* two await Redis first, where they may be interrupted.                   *)
GoOn(t, outcome) ==
  IF t \in CancelTool THEN CallBack(t, outcome)
  ELSE /\ stage' = [stage EXCEPT ![t] = IF t \in CheckTool THEN "hset"
                                                          ELSE "delete"]
       /\ UNCHANGED heard

(* The reference of a cancellation kept where a booking's is.              *)
FaultyHearSuccess(t) ==
  LET r == caller[t]
      a == answer[<<t, tries[t]>>]
  IN  /\ t \in PostTool
      /\ stage[t] = "post"
      /\ a.status \in {"available", "unavailable", "confirmed", "cancelled"}
      /\ result' = [result EXCEPT ![t] = a.status]
      /\ GoOn(t, a.status)
      /\ ctx' = IF a.status \in {"confirmed", "cancelled"}
                  THEN [ctx EXCEPT ![r].booking = a.ref] ELSE ctx
      /\ UNCHANGED <<vars, phase, redis, caller, args, tries, filing>>

(* A 2xx of the last POST sent.  A check saves the slot, a booking forgets *)
(* the session whether it was confirmed or not.                            *)
HearSuccess(t) ==
  LET r == caller[t]
      a == answer[<<t, tries[t]>>]
  IN  /\ t \in PostTool
      /\ stage[t] = "post"
      /\ a.status \in {"available", "unavailable", "confirmed", "cancelled"}
      /\ result' = [result EXCEPT ![t] = a.status]
      /\ GoOn(t, a.status)
      /\ ctx' = CASE a.status = "confirmed" ->
                       [ctx EXCEPT ![r].booking = a.ref]
                  [] a.status = "cancelled" ->
                       [ctx EXCEPT ![r].cancelled = a.ref]
                  [] OTHER -> ctx
      /\ UNCHANGED <<vars, phase, redis, caller, args, tries, filing>>

(* The status of the response not looked at.                               *)
FaultyHearLogged(t) ==
  /\ t \in InquiryTool
  /\ stage[t] = "post"
  /\ Finish(t, "logged")
  /\ ctx' = [ctx EXCEPT ![caller[t]].inquiry = TRUE]
  /\ UNCHANGED <<vars, phase, redis, caller, args, tries, filing>>

HearLogged(t) ==
  /\ t \in filed
  /\ stage[t] = "post"
  /\ Finish(t, "logged")
  /\ ctx' = [ctx EXCEPT ![caller[t]].inquiry = TRUE]
  /\ UNCHANGED <<vars, phase, redis, caller, args, tries, filing>>

SlotOf(d) == [service |-> d.service, date |-> d.date, time |-> d.time]

(* The session writes of check_availability and book_appointment.          *)
SaveSlot(t) ==
  LET r == caller[t]
      after == Hset(CallOf[r], SlotOf(args[t]))
  IN  /\ stage[t] = "hset"
      /\ \/ /\ RedisDoes(after)
            /\ stage' = [stage EXCEPT ![t] = "expire"]
            /\ UNCHANGED heard
         \/ RedisFails(r, after, {"torn"}) /\ CallBack(t, result[t])
      /\ UNCHANGED <<vars, runVars, caller, args, tries, result, filing>>

ExpireSlot(t) ==
  /\ stage[t] = "expire"
  /\ LET after == SetExpiry(CallOf[caller[t]])
     IN  RedisDoes(after) \/ RedisFails(caller[t], after, {"torn"})
  /\ CallBack(t, result[t])
  /\ UNCHANGED <<vars, runVars, caller, args, tries, result, filing>>

ForgetSession(t) ==
  /\ stage[t] = "delete"
  /\ LET after == Delete(CallOf[caller[t]])
     IN  RedisDoes(after) \/ RedisFails(caller[t], after, {})
  /\ CallBack(t, result[t])
  /\ UNCHANGED <<vars, runVars, caller, args, tries, result, filing>>

(* The caller interrupts, and the pipeline cancels the handler: whatever   *)
(* it has made of the answer, the model does not hear it.                  *)
Interrupt(t) ==
  /\ Working(t)
  /\ stage' = [stage EXCEPT ![t] = "dropped"]
  /\ Befalls(CallOf[caller[t]], IF stage[t] = "expire" THEN {"torn"} ELSE {})
  /\ UNCHANGED <<vars, runVars, session, caller, args, tries, result, heard,
                 filing>>

-----------------------------------------------------------------------------
(* What a handler does by itself.                                          *)
Handle(t) ==
  \/ TryAgain(t)
  \/ HearRefusal(t)
  \/ HearSuccess(t)
  \/ HearLogged(t)
  \/ SaveSlot(t)
  \/ ExpireSlot(t)
  \/ ForgetSession(t)

(* What run_bot does once it is called, its hang-up included.              *)
Proceed(r) ==
  \/ LookupAuthority(r)
  \/ GetSession(r)
  \/ CreateSession(r)
  \/ ExpireSession(r)
  \/ End(r)
  \/ LeaveTranscript(r)
  \/ EraseSession(r)

(* The steps of the API between the arrival of a request and its answer,   *)
(* and those the dashboard causes.                                         *)
ApiStep ==
  /\ \/ \E q \in Updater : ReceiveStatus(q)
     \/ \E q \in Request : Serve(q) \/ Fail(q)
     \/ \E b \in Business, day \in OpeningDay, o \in Opening :
            UpsertHours(b, day, o)
     \/ Tick
  /\ UNCHANGED callVars

CallNext ==
  \/ \E r \in Run : Start(r) \/ Proceed(r) \/ RecordTranscript(r) \/ Crash(r)
  \/ \E r \in Run, t \in Tool : Invoke(r, t)
  \/ \E t \in Tool : Handle(t) \/ FileInquiry(t) \/ Interrupt(t)
  \/ \E t \in PostTool, n \in 1 .. MaxAttempts : Deliver(t, n)
  \/ \E c \in Call : Lapse(c)
  \/ ApiStep

CallSpec == CallInit /\ [][CallNext]_allVars

(* A run goes on until its call ends: the caller hangs up or stays silent, *)
(* and idle_timeout_secs ends what is stuck.  Redis expires keys.          *)
FairCallSpec ==
  /\ CallSpec
  /\ \A r \in Run : WF_allVars(Proceed(r))
  /\ \A t \in Tool : WF_allVars(Handle(t))
  /\ \A c \in Call : WF_allVars(Lapse(c))

-----------------------------------------------------------------------------
(* Properties.                                                             *)

Phases == {"idle", "lookup", "get", "hset", "expire", "live", "transcript",
           "delete", "ended", "crashed"}
Stages == {"idle", "post", "hset", "expire", "delete", "done", "dropped"}
Results == {"none", "available", "unavailable", "confirmed", "cancelled",
            "logged", "backend_unavailable"} \cup KnownCodes
Outcomes == {"AUTHORITY_QUERY", "BOOKED", "CANCELLED", "INQUIRY",
             "NO_OUTCOME"}
References == Reference \cup {NoReference}
Contexts == [authority : BOOLEAN, inquiry : BOOLEAN,
             booking : References, cancelled : References]
Slots == [service : ServiceText, date : Date, time : Time]
Sessions == [slot : Slots \cup {NoSlot}, expires : BOOLEAN]
Records == [run : Run, outcome : Outcomes, ref : References]

CallVariableTypes ==
  /\ phase \in [Run -> Phases]
  /\ ctx \in [Run -> Contexts]
  /\ session \in [Call -> Sessions \cup {NoSession}]
  /\ caller \in [Tool -> Run \cup {Nobody}]
  /\ stage \in [Tool -> Stages]
  /\ args \in [Tool -> Dtos]
  /\ tries \in [Tool -> 0 .. MaxAttempts]
  /\ result \in [Tool -> Results]
  /\ heard \in [Tool -> Results]
  /\ filed \subseteq InquiryTool
  /\ mail \subseteq Run
  /\ transcript \in [Call -> Records \cup {NoTranscript}]
  /\ trouble \in [Call -> SUBSET {"failure", "torn"}]

HandlerTypes ==
  \A t \in Tool :
    /\ stage[t] = "idle" => tries[t] = 0
    /\ stage[t] # "idle" =>
         /\ caller[t] \in Run
         /\ tries[t] > 0
         /\ args[t] \in Payloads(caller[t], t)
    /\ stage[t] \in {"hset", "expire"} => t \in CheckTool
    /\ stage[t] = "delete" => t \in BookTool
    /\ Working(t) => phase[caller[t]] = "live"

(* Every variable has its type, and only a live run has handlers at work,  *)
(* each at an await of its own tool.                                       *)
CallTypeOK == CallVariableTypes /\ HandlerTypes

(* The tool calls of a run whose handler came to a result, and those whose *)
(* result the model heard.                                                 *)
Got(r, outcome) == {t \in Tool : caller[t] = r /\ result[t] = outcome}
Told(r, outcome) == {t \in Got(r, outcome) : heard[t] = outcome}

(* What the record of a call claims is what its run did.                   *)
RecordTrue(c) ==
  LET record == transcript[c]
      r == record.run
  IN  /\ record.outcome = "BOOKED" <=> Got(r, "confirmed") # {}
      /\ \A t \in Got(r, "confirmed") \ Told(r, "confirmed") :
           stage[t] = "dropped"
      /\ record.outcome = "BOOKED" =>
           \E i \in Existing :
             /\ appointment[i].ref = record.ref
             /\ appointment[i].business = Home
             /\ appointment[i].phone = PhoneOf[c]
             /\ caller[i[1]] = r
      /\ record.outcome = "CANCELLED" =>
           \E q \in Canceller :
             caller[q[1]] = r /\ answer[q].status = "cancelled"
      /\ record.outcome = "INQUIRY" => /\ Told(r, "logged") # {}
                                       /\ Told(r, "logged") \subseteq filed

(* The record of a call says what its run did: BOOKED exactly when a       *)
(* handler of it read a confirmation, with the reference of an appointment *)
(* in the table for the caller's own number, which the model heard of      *)
(* unless the handler was cut off as it forgot the session; CANCELLED and  *)
(* INQUIRY only when the API did so for this run, and the model heard that *)
(* its inquiry was logged (post_call_transcript, create, tools.py).        *)
RecordsTrue ==
  \A c \in Call : transcript[c] # NoTranscript => RecordTrue(c)

(* A retry that reaches the API when an earlier POST of the same tool call *)
(* has booked does not book again: at most one of the two appointments is  *)
(* active, however long the answers took (_post_with_retry over            *)
(* bookAppointment).                                                       *)
RetryBooksOnce ==
  \A t \in BookTool : \A m, n \in 1 .. MaxAttempts :
    /\ m # n
    /\ <<t, m>> \in before[<<t, n>>]
    /\ Active(<<t, m>>)
    /\ Active(<<t, n>>)
    => <<t, m>> \in revived

(* When no run of a call is under way Redis holds nothing of it, however   *)
(* its runs overlapped: the clean-up of a run comes after every write of   *)
(* its own handlers.  A crash or a Redis failure may leave a session.      *)
NothingLeftBehind ==
  \A c \in Call :
    Abandoned(c) /\ "failure" \notin trouble[c] => session[c] = NoSession

(* Somebody is between the two commands of an upsert of this session.      *)
UpsertUnderway(c) ==
  \/ \E r \in Run : CallOf[r] = c /\ phase[r] = "expire"
  \/ \E t \in Tool : stage[t] = "expire" /\ CallOf[caller[t]] = c

(* A session that Redis holds will expire, or a handler is about to make   *)
(* it, unless an upsert was torn: also when one run of the call deletes    *)
(* between the two commands of another's upsert, and whichever handlers    *)
(* are interrupted (CallSessionStore.upsert and delete).                   *)
SessionsExpire ==
  \A c \in Call :
    session[c] # NoSession /\ "torn" \notin trouble[c] =>
      session[c].expires \/ UpsertUnderway(c)

(* A session is forgotten in the end, by a run's clean-up or, when a crash *)
(* leaves none, by its expiry, unless an upsert was torn between its two   *)
(* commands (run_bot, CallSessionStore.upsert).                            *)
SessionsForgotten ==
  \A c \in Call :
    session[c] # NoSession ~> session[c] = NoSession \/ "torn" \in trouble[c]

-----------------------------------------------------------------------------
(* What comments of the voice agent say, and the code does not always do.  *)

(* tools.py: a cancellation is "idempotent server-side ... so retrying a   *)
(* lost response is safe".                                                 *)
RetryOfCancelIsSafe ==
  [][\A t \in CancelTool :
       heard[t] = "none" /\ heard'[t] = "appointment_not_found" =>
         \A n \in 1 .. MaxAttempts :
           answer[<<t, n>>].status # "cancelled"]_allVars

(* A check of some run of the call has saved its slot.                     *)
SlotSaved(c) ==
  \E t \in CheckTool :
    /\ caller[t] # Nobody
    /\ CallOf[caller[t]] = c
    /\ stage[t] = "done"
    /\ heard[t] \in {"available", "unavailable"}

(* session_store.py: a run that reconnects "can look up the same call_sid  *)
(* here and pick up where the last invocation left off".                   *)
ReconnectResumes ==
  [][\A r \in Run : phase[r] = "get" /\ SlotSaved(CallOf[r]) =>
       phase'[r] \in {"get", "live"}]_allVars
=============================================================================
