-------------------------- MODULE VoiceCallProofs ---------------------------
(***************************************************************************)
(* Calls run on the API as Booking specifies it, so its theorems hold      *)
(* under them; and what calls add of their own: a retry does not book      *)
(* again what has been booked, no session outlives its call, and the       *)
(* record of a call says what its run did, as a run's context follows      *)
(* what its tool calls came to, what they came to is what the API did, and *)
(* neither changes once the run has ended.                                 *)
(***************************************************************************)
EXTENDS VoiceCall, BookingProofs

-----------------------------------------------------------------------------
(* Every step of a call is a step of the API or leaves it alone.           *)

LEMMA PostIsRequest ==
  ASSUME NEW t \in PostTool, NEW n \in 1 .. MaxAttempts
  PROVE  /\ <<t, n>> \in Request
         /\ t \in CheckTool \cup BookTool => <<t, n>> \in Booker \cup Checker
         /\ t \in CancelTool => <<t, n>> \in Canceller
BY ToolAssumption DEF PostTool, Request

LEMMA RunsLeaveApi ==
  ASSUME NEW r \in Run,
         \/ Start(r) \/ Proceed(r) \/ RecordTranscript(r) \/ Crash(r)
         \/ \E t \in Tool : Invoke(r, t)
  PROVE  UNCHANGED vars
BY DEF Start, Proceed, RecordTranscript, Crash, Invoke, LookupAuthority,
       GetSession, CreateSession, ExpireSession, End, LeaveTranscript,
       EraseSession

LEMMA ToolsLeaveApi ==
  ASSUME NEW t \in Tool, Handle(t) \/ FileInquiry(t) \/ Interrupt(t)
  PROVE  UNCHANGED vars
BY DEF Handle, FileInquiry, Interrupt, TryAgain, HearRefusal, HearSuccess,
       HearLogged, SaveSlot, ExpireSlot, ForgetSession

LEMMA DeliverIsApi ==
  ASSUME NEW t \in PostTool, NEW n \in 1 .. MaxAttempts, Deliver(t, n)
  PROVE  Next
BY PostIsRequest DEF Deliver, Next

LEMMA ApiStepIsApi == ApiStep => Next
BY DEF ApiStep, Next

LEMMA CallNextIsApi == [CallNext]_allVars => [Next]_vars
<1> SUFFICES ASSUME [CallNext]_allVars PROVE [Next]_vars
  OBVIOUS
<1>1. ASSUME NEW c \in Call, Lapse(c) PROVE UNCHANGED vars
  BY <1>1 DEF Lapse
<1>2. CASE UNCHANGED allVars
  BY <1>2 DEF allVars
<1> QED BY <1>1, <1>2, RunsLeaveApi, ToolsLeaveApi, DeliverIsApi, ApiStepIsApi
        DEF CallNext

(* The voice agent drives the API within its specification: whatever the   *)
(* tool handlers post, retry or give up is a behaviour of Booking, so      *)
(* every theorem about Booking is one about calls.                         *)
THEOREM CallsRunOnApi == CallSpec => Spec
<1>1. CallInit => Init
  BY DEF CallInit
<1> QED BY <1>1, CallNextIsApi, PTL DEF CallSpec, Spec

-----------------------------------------------------------------------------
(* Types.                                                                  *)

LEMMA PayloadTypesOfTools ==
  ASSUME NEW r \in Run, NEW t \in Tool, NEW d \in Payloads(r, t)
  PROVE  d \in Dtos /\ (t \in CheckTool => d \in CheckDto)
BY DEF Payloads, Dtos

LEMMA SlotTypes ==
  ASSUME NEW d \in CheckDto
  PROVE  SlotOf(d) \in Slots
BY DEF CheckDto, SlotOf, Slots

LEMMA CallInitTypes == CallInit => CallTypeOK
<1> SUFFICES ASSUME CallInit PROVE CallTypeOK
  OBVIOUS
<1>1. Fresh \in Contexts
  BY DEF Fresh, Contexts, References
<1>2. CallVariableTypes
  BY <1>1, CallAssumption, ToolAssumption
     DEF CallInit, ToolInit, CallVariableTypes, Phases, Stages, Results, Dtos
<1>3. HandlerTypes
  BY DEF CallInit, ToolInit, HandlerTypes, Working
<1> QED BY <1>2, <1>3 DEF CallTypeOK

(* The session after a command, whether it succeeds or not.                *)
LEMMA RedisTypes ==
  ASSUME CallVariableTypes, NEW r \in Run, NEW after,
         NEW what, what \subseteq {"failure", "torn"},
         after \in [Call -> Sessions \cup {NoSession}],
         RedisDoes(after) \/ RedisFails(r, after, what)
  PROVE  /\ session' \in [Call -> Sessions \cup {NoSession}]
         /\ trouble' \in [Call -> SUBSET {"failure", "torn"}]
<1>1. CASE RedisDoes(after)
  BY <1>1 DEF RedisDoes, CallVariableTypes
<1>2. CASE RedisFails(r, after, what)
  <2>1. trouble' \in [Call -> SUBSET {"failure", "torn"}]
    BY <1>2, CallAssumption DEF RedisFails, Befalls, CallVariableTypes
  <2>2. session' \in [Call -> Sessions \cup {NoSession}]
    BY <1>2 DEF RedisFails, CallVariableTypes
  <2> QED BY <2>1, <2>2
<1> QED BY <1>1, <1>2

LEMMA AfterTypes ==
  ASSUME CallVariableTypes, NEW c \in Call,
         NEW slot, slot \in Slots \cup {NoSlot}
  PROVE  /\ Hset(c, slot) \in [Call -> Sessions \cup {NoSession}]
         /\ SetExpiry(c) \in [Call -> Sessions \cup {NoSession}]
         /\ Delete(c) \in [Call -> Sessions \cup {NoSession}]
<1> DEFINE s == session[c]
<1>1. session \in [Call -> Sessions \cup {NoSession}]
  BY DEF CallVariableTypes
<1>2. [slot |-> slot, expires |-> FALSE] \in Sessions
  BY DEF Sessions
<1>3. ASSUME s # NoSession
      PROVE  /\ s.slot \in Slots \cup {NoSlot}
             /\ s.expires \in BOOLEAN
  BY <1>1, <1>3 DEF Sessions
<1>4. Hset(c, slot) \in [Call -> Sessions \cup {NoSession}]
  BY <1>1, <1>2, <1>3 DEF Hset, Sessions
<1>5. SetExpiry(c) \in [Call -> Sessions \cup {NoSession}]
  BY <1>1, <1>3 DEF SetExpiry, Sessions
<1>6. Delete(c) \in [Call -> Sessions \cup {NoSession}]
  BY <1>1 DEF Delete
<1> QED BY <1>4, <1>5, <1>6

(* What an action leaves alone keeps its type; each action accounts for    *)
(* what it writes.                                                         *)
LEMMA RunVariableTypes ==
  ASSUME CallVariableTypes, NEW r \in Run,
         \/ Start(r) \/ Proceed(r) \/ RecordTranscript(r) \/ Crash(r)
  PROVE  CallVariableTypes'
<1>1. CallOf[r] \in Call
  BY CallAssumption
<1>2. ASSUME NEW p \in Phases, Move(r, p) PROVE phase' \in [Run -> Phases]
  BY <1>2 DEF Move, CallVariableTypes
<1>3. ASSUME DropTools(r) PROVE stage' \in [Tool -> Stages]
  BY <1>3 DEF DropTools, CallVariableTypes, Stages
<1>4. ASSUME NEW what, what \subseteq {"failure", "torn"}, Befalls(CallOf[r], what)
      PROVE  trouble' \in [Call -> SUBSET {"failure", "torn"}]
  BY <1>1, <1>4 DEF Befalls, CallVariableTypes
<1>5. TornBy(r) \subseteq {"failure", "torn"}
  BY DEF TornBy
<1>6. session \in [Call -> Sessions \cup {NoSession}]
  BY DEF CallVariableTypes
<1>7. CASE Start(r)
  BY <1>2, <1>7 DEF Start, CallVariableTypes, Phases, redis, toolVars, filing
<1>8. CASE LookupAuthority(r)
  <2>1. PICK known \in BOOLEAN :
          /\ ctx' = [ctx EXCEPT ![r].authority = known]
          /\ Move(r, IF known THEN "live" ELSE "get")
    BY <1>8, Zenon DEF LookupAuthority
  <2>2. ctx' \in [Run -> Contexts]
    <3>1. ctx[r] \in Contexts
      BY DEF CallVariableTypes
    <3>2. [ctx[r] EXCEPT !.authority = known] \in Contexts
      BY <3>1 DEF Contexts
    <3>3. ctx' = [ctx EXCEPT ![r] = [ctx[r] EXCEPT !.authority = known]]
      BY <2>1, Zenon
    <3> QED BY <3>2, <3>3 DEF CallVariableTypes
  <2>3. phase' \in [Run -> Phases]
    BY <2>1, <1>2 DEF Phases
  <2> QED BY <1>8, <2>2, <2>3
          DEF LookupAuthority, CallVariableTypes, redis, toolVars, filing
<1>9. CASE GetSession(r)
  <2>1. phase' \in [Run -> Phases]
    BY <1>2, <1>9 DEF GetSession, Phases
  <2>2. CASE UNCHANGED redis
    BY <1>9, <2>1, <2>2
       DEF GetSession, CallVariableTypes, redis, toolVars, filing
  <2>3. CASE RedisFails(r, session, {})
    BY <1>9, <1>6, <2>1, <2>3, RedisTypes
       DEF GetSession, CallVariableTypes, toolVars, filing
  <2> QED BY <1>9, <2>2, <2>3 DEF GetSession
<1>10. CASE CreateSession(r)
  <2>1. phase' \in [Run -> Phases]
    BY <1>2, <1>10 DEF CreateSession, Phases
  <2>2. Hset(CallOf[r], NoSlot) \in [Call -> Sessions \cup {NoSession}]
    BY <1>1, AfterTypes
  <2>3. \/ RedisDoes(Hset(CallOf[r], NoSlot))
        \/ RedisFails(r, Hset(CallOf[r], NoSlot), {"torn"})
    BY <1>10 DEF CreateSession
  <2>4. /\ session' \in [Call -> Sessions \cup {NoSession}]
        /\ trouble' \in [Call -> SUBSET {"failure", "torn"}]
    BY <2>2, <2>3, RedisTypes
  <2> QED BY <1>10, <2>1, <2>4
          DEF CreateSession, CallVariableTypes, toolVars, filing
<1>11. CASE ExpireSession(r)
  <2>1. phase' \in [Run -> Phases]
    BY <1>2, <1>11 DEF ExpireSession, Phases
  <2>2. SetExpiry(CallOf[r]) \in [Call -> Sessions \cup {NoSession}]
    BY <1>1, AfterTypes
  <2>3. \/ RedisDoes(SetExpiry(CallOf[r]))
        \/ RedisFails(r, SetExpiry(CallOf[r]), {"torn"})
    BY <1>11 DEF ExpireSession
  <2>4. /\ session' \in [Call -> Sessions \cup {NoSession}]
        /\ trouble' \in [Call -> SUBSET {"failure", "torn"}]
    BY <2>2, <2>3, RedisTypes
  <2> QED BY <1>11, <2>1, <2>4
          DEF ExpireSession, CallVariableTypes, toolVars, filing
<1>12. CASE End(r)
  BY <1>2, <1>3, <1>4, <1>5, <1>12 DEF End, CallVariableTypes, Phases
<1>13. CASE LeaveTranscript(r)
  BY <1>2, <1>13
     DEF LeaveTranscript, CallVariableTypes, Phases, redis, toolVars, filing
<1>14. CASE EraseSession(r)
  <2>1. phase' \in [Run -> Phases]
    BY <1>2, <1>14 DEF EraseSession, Phases
  <2>2. Delete(CallOf[r]) \in [Call -> Sessions \cup {NoSession}]
    BY <1>1, AfterTypes
  <2>3. \/ RedisDoes(Delete(CallOf[r]))
        \/ RedisFails(r, Delete(CallOf[r]), {})
    BY <1>14 DEF EraseSession
  <2>4. /\ session' \in [Call -> Sessions \cup {NoSession}]
        /\ trouble' \in [Call -> SUBSET {"failure", "torn"}]
    BY <2>2, <2>3, RedisTypes
  <2> QED BY <1>14, <2>1, <2>4
          DEF EraseSession, CallVariableTypes, toolVars, filing
<1>15. CASE RecordTranscript(r)
  <2>1. RecordOf(r) \in Records
    BY DEF RecordOf, Records, OutcomeOf, Outcomes, CallVariableTypes,
           Contexts, References
  <2>2. transcript' \in [Call -> Records \cup {NoTranscript}]
    BY <1>1, <1>15, <2>1 DEF RecordTranscript, CallVariableTypes
  <2> QED BY <1>15, <2>2
          DEF RecordTranscript, CallVariableTypes, runVars, redis, toolVars
<1>16. CASE Crash(r)
  BY <1>2, <1>3, <1>4, <1>5, <1>16
     DEF Crash, CallVariableTypes, Phases, filing
<1> QED
  BY <1>7, <1>8, <1>9, <1>10, <1>11, <1>12, <1>13, <1>14, <1>15, <1>16
     DEF Proceed
LEMMA ToolVariableTypes ==
  ASSUME CallTypeOK, TypeOK, NEW t \in Tool,
         \/ Handle(t) \/ FileInquiry(t) \/ Interrupt(t)
  PROVE  CallVariableTypes'
<1> USE DEF CallTypeOK
<1>1. ASSUME NEW s \in Stages, stage' = [stage EXCEPT ![t] = s]
      PROVE  stage' \in [Tool -> Stages]
  BY <1>1 DEF CallVariableTypes
<1>14. ASSUME NEW h \in Results, CallBack(t, h)
       PROVE  stage' \in [Tool -> Stages] /\ heard' \in [Tool -> Results]
  BY <1>14 DEF CallBack, CallVariableTypes, Stages
<1>2. ASSUME NEW h \in Results, Finish(t, h)
      PROVE  /\ stage' \in [Tool -> Stages]
             /\ result' \in [Tool -> Results]
             /\ heard' \in [Tool -> Results]
  <2>1. result' \in [Tool -> Results] /\ CallBack(t, h)
    BY <1>2 DEF Finish, CallBack, CallVariableTypes
  <2> QED BY <2>1, <1>14
<1>3. ASSUME stage[t] # "idle" PROVE caller[t] \in Run /\ CallOf[caller[t]] \in Call
  BY <1>3, CallAssumption DEF HandlerTypes
<1>4. ASSUME t \in PostTool, tries[t] > 0
      PROVE  answer[<<t, tries[t]>>] \in Answers
  <2>1. tries[t] \in 1 .. MaxAttempts
    BY <1>4, ToolAssumption DEF CallVariableTypes
  <2> QED BY <1>4, <2>1, PostIsRequest DEF TypeOK, VariableTypes
<1>5. CASE TryAgain(t)
  <2>1. tries' \in [Tool -> 0 .. MaxAttempts]
    BY <1>5, ToolAssumption DEF TryAgain, CallVariableTypes
  <2>2. /\ stage' \in [Tool -> Stages]
        /\ result' \in [Tool -> Results]
        /\ heard' \in [Tool -> Results]
    BY <1>2, <1>5 DEF TryAgain, Results, CallVariableTypes
  <2> QED BY <1>5, <2>1, <2>2
          DEF TryAgain, CallVariableTypes, runVars, redis, filing
<1>6. CASE HearRefusal(t)
  <2> DEFINE a == answer[<<t, tries[t]>>]
             h == IF a.status \in KnownCodes THEN a.status
                                             ELSE "backend_unavailable"
  <2>1. h \in Results
    BY DEF Results
  <2>2. Finish(t, h)
    BY <1>6 DEF HearRefusal
  <2> HIDE DEF h
  <2> QED BY <1>2, <1>6, <2>1, <2>2
          DEF HearRefusal, CallVariableTypes, runVars, redis, filing
<1>7. CASE HearSuccess(t)
  <2> DEFINE r == caller[t]
             a == answer[<<t, tries[t]>>]
  <2>1. /\ t \in PostTool
        /\ tries[t] > 0
        /\ r \in Run
        /\ a.status \in {"available", "unavailable", "confirmed", "cancelled"}
    BY <1>7 DEF HearSuccess, HandlerTypes
  <2>2. a.ref \in References
    BY <1>4, <2>1 DEF Answers, References
  <2>3. result' \in [Tool -> Results]
    BY <1>7, <2>1 DEF HearSuccess, CallVariableTypes, Results
  <2>4. stage' \in [Tool -> Stages] /\ heard' \in [Tool -> Results]
    BY <1>7, <1>14, <2>3 DEF HearSuccess, GoOn, CallVariableTypes, Stages
  <2>5. ctx' \in [Run -> Contexts]
    <3>1. ctx[r] \in Contexts
      BY <2>1 DEF CallVariableTypes
    <3>2. [ctx[r] EXCEPT !.booking = a.ref] \in Contexts
      BY <2>2, <3>1 DEF Contexts
    <3>3. [ctx[r] EXCEPT !.cancelled = a.ref] \in Contexts
      BY <2>2, <3>1 DEF Contexts
    <3>4. \/ ctx' = [ctx EXCEPT ![r] = [ctx[r] EXCEPT !.booking = a.ref]]
          \/ ctx' = [ctx EXCEPT ![r] = [ctx[r] EXCEPT !.cancelled = a.ref]]
          \/ ctx' = ctx
      BY <1>7 DEF HearSuccess
    <3> QED BY <3>2, <3>3, <3>4 DEF CallVariableTypes
  <2> QED BY <1>7, <2>3, <2>4, <2>5
          DEF HearSuccess, CallVariableTypes, redis, filing
<1>8. CASE HearLogged(t)
  <2> DEFINE r == caller[t]
  <2>1. r \in Run
    BY <1>8 DEF HearLogged, HandlerTypes
  <2>2. ctx' \in [Run -> Contexts]
    <3>1. ctx[r] \in Contexts
      BY <2>1 DEF CallVariableTypes
    <3>2. [ctx[r] EXCEPT !.inquiry = TRUE] \in Contexts
      BY <3>1 DEF Contexts
    <3>3. ctx' = [ctx EXCEPT ![r] = [ctx[r] EXCEPT !.inquiry = TRUE]]
      BY <1>8, Zenon DEF HearLogged
    <3> QED BY <3>2, <3>3 DEF CallVariableTypes
  <2>3. /\ stage' \in [Tool -> Stages]
        /\ result' \in [Tool -> Results]
        /\ heard' \in [Tool -> Results]
    BY <1>2, <1>8 DEF HearLogged, Results
  <2> QED BY <1>8, <2>2, <2>3
          DEF HearLogged, CallVariableTypes, redis, filing
<1>9. CASE SaveSlot(t)
  <2> DEFINE after == Hset(CallOf[caller[t]], SlotOf(args[t]))
  <2>1. /\ caller[t] \in Run
        /\ CallOf[caller[t]] \in Call
        /\ SlotOf(args[t]) \in Slots
    BY <1>3, <1>9, PayloadTypesOfTools, SlotTypes DEF SaveSlot, HandlerTypes
  <2>2. after \in [Call -> Sessions \cup {NoSession}]
    BY <2>1, AfterTypes
  <2>3. RedisDoes(after) \/ RedisFails(caller[t], after, {"torn"})
    BY <1>9 DEF SaveSlot
  <2> HIDE DEF after
  <2>4. /\ session' \in [Call -> Sessions \cup {NoSession}]
        /\ trouble' \in [Call -> SUBSET {"failure", "torn"}]
    BY <2>1, <2>2, <2>3, RedisTypes
  <2>5. /\ stage' \in [Tool -> Stages]
        /\ result' \in [Tool -> Results]
        /\ heard' \in [Tool -> Results]
    BY <1>1, <1>9, <1>14 DEF SaveSlot, CallVariableTypes, Stages
  <2> QED BY <1>9, <2>4, <2>5
          DEF SaveSlot, CallVariableTypes, runVars, filing
<1>10. CASE ExpireSlot(t)
  <2> DEFINE after == SetExpiry(CallOf[caller[t]])
  <2>1. caller[t] \in Run /\ CallOf[caller[t]] \in Call
    BY <1>3, <1>10 DEF ExpireSlot
  <2>2. after \in [Call -> Sessions \cup {NoSession}]
    BY <2>1, AfterTypes
  <2>3. RedisDoes(after) \/ RedisFails(caller[t], after, {"torn"})
    BY <1>10 DEF ExpireSlot
  <2> HIDE DEF after
  <2>4. /\ session' \in [Call -> Sessions \cup {NoSession}]
        /\ trouble' \in [Call -> SUBSET {"failure", "torn"}]
    BY <2>1, <2>2, <2>3, RedisTypes
  <2>5. /\ stage' \in [Tool -> Stages]
        /\ result' \in [Tool -> Results]
        /\ heard' \in [Tool -> Results]
    BY <1>1, <1>10, <1>14 DEF ExpireSlot, CallVariableTypes, Stages
  <2> QED BY <1>10, <2>4, <2>5
          DEF ExpireSlot, CallVariableTypes, runVars, filing
<1>11. CASE ForgetSession(t)
  <2> DEFINE after == Delete(CallOf[caller[t]])
  <2>1. caller[t] \in Run /\ CallOf[caller[t]] \in Call
    BY <1>3, <1>11 DEF ForgetSession
  <2>2. after \in [Call -> Sessions \cup {NoSession}]
    BY <2>1, AfterTypes
  <2>3. RedisDoes(after) \/ RedisFails(caller[t], after, {})
    BY <1>11 DEF ForgetSession
  <2> HIDE DEF after
  <2>4. /\ session' \in [Call -> Sessions \cup {NoSession}]
        /\ trouble' \in [Call -> SUBSET {"failure", "torn"}]
    BY <2>1, <2>2, <2>3, RedisTypes
  <2>5. /\ stage' \in [Tool -> Stages]
        /\ result' \in [Tool -> Results]
        /\ heard' \in [Tool -> Results]
    BY <1>1, <1>11, <1>14 DEF ForgetSession, CallVariableTypes, Stages
  <2> QED BY <1>11, <2>4, <2>5
          DEF ForgetSession, CallVariableTypes, runVars, filing
<1>12. CASE FileInquiry(t)
  BY <1>12 DEF FileInquiry, CallVariableTypes, runVars, redis, toolVars
<1>13. CASE Interrupt(t)
  <2>1. CallOf[caller[t]] \in Call
    BY <1>3, <1>13 DEF Interrupt, Working
  <2>2. trouble' \in [Call -> SUBSET {"failure", "torn"}]
    BY <1>13, <2>1 DEF Interrupt, Befalls, CallVariableTypes
  <2>3. stage' \in [Tool -> Stages]
    BY <1>1, <1>13 DEF Interrupt, Stages
  <2> QED BY <1>13, <2>2, <2>3
          DEF Interrupt, CallVariableTypes, runVars, filing
<1> QED
  BY <1>5, <1>6, <1>7, <1>8, <1>9, <1>10, <1>11, <1>12, <1>13 DEF Handle

LEMMA InvokeVariableTypes ==
  ASSUME CallVariableTypes, NEW r \in Run, NEW t \in Tool, Invoke(r, t)
  PROVE  CallVariableTypes'
<1>1. PICK d \in Payloads(r, t) : args' = [args EXCEPT ![t] = d]
  BY DEF Invoke
<1>2. d \in Dtos
  BY PayloadTypesOfTools
<1>3. tries' \in [Tool -> 0 .. MaxAttempts]
  BY ToolAssumption DEF Invoke, CallVariableTypes
<1> QED BY <1>1, <1>2, <1>3
        DEF Invoke, CallVariableTypes, Stages, runVars, redis, filing

-----------------------------------------------------------------------------
(* Only live runs have handlers at work.                                   *)

HandlerFits(t) ==
  /\ stage[t] = "idle" => tries[t] = 0
  /\ stage[t] # "idle" =>
       /\ caller[t] \in Run
       /\ tries[t] > 0
       /\ args[t] \in Payloads(caller[t], t)
  /\ stage[t] \in {"hset", "expire"} => t \in CheckTool
  /\ stage[t] = "delete" => t \in BookTool
  /\ Working(t) => phase[caller[t]] = "live"

LEMMA SameHandlerFits ==
  ASSUME CallVariableTypes, NEW t \in Tool, HandlerFits(t),
         stage'[t] = stage[t] \/ (stage'[t] = "dropped" /\ Working(t)),
         caller'[t] = caller[t],
         tries'[t] = tries[t],
         args'[t] = args[t],
         Working(t)' => phase'[caller[t]] = "live"
  PROVE  HandlerFits(t)'
BY DEF HandlerFits, Working, Payloads

LEMMA RunHandlers ==
  ASSUME CallTypeOK, NEW r \in Run,
         \/ Start(r) \/ Proceed(r) \/ RecordTranscript(r) \/ Crash(r)
  PROVE  HandlerTypes'
<1> SUFFICES ASSUME NEW t \in Tool PROVE HandlerFits(t)'
  BY DEF HandlerTypes, HandlerFits
<1>1. CallVariableTypes /\ HandlerFits(t)
  BY DEF CallTypeOK, HandlerTypes, HandlerFits
<1>2. CASE DropTools(r) /\ UNCHANGED <<caller, args, tries>>
           /\ \E p \in Phases : Move(r, p)
  <2>1. stage'[t] = IF t \in ToolsOf(r) THEN "dropped" ELSE stage[t]
    BY <1>2 DEF DropTools
  <2>2. Working(t)' => Working(t) /\ caller[t] # r
    BY <2>1 DEF ToolsOf, Working
  <2>3. Working(t)' => phase'[caller[t]] = "live"
    BY <1>1, <1>2, <2>2 DEF Move, HandlerFits, CallVariableTypes, Working
  <2>4. stage'[t] = stage[t] \/ (stage'[t] = "dropped" /\ Working(t))
    BY <2>1 DEF ToolsOf
  <2> QED BY <1>1, <1>2, <2>3, <2>4, SameHandlerFits
<1>3. CASE UNCHANGED toolVars
           /\ \/ UNCHANGED phase
              \/ phase[r] # "live" /\ \E p \in Phases : Move(r, p)
  <2>1. Working(t)' => phase'[caller[t]] = "live"
    BY <1>1, <1>3
       DEF Move, HandlerFits, CallVariableTypes, Working, toolVars
  <2> QED BY <1>1, <1>3, <2>1, SameHandlerFits DEF toolVars
<1>4. CASE End(r) \/ Crash(r)
  BY <1>2, <1>4 DEF End, Crash, Phases
<1>5. CASE LookupAuthority(r)
  <2>1. \E p \in Phases : Move(r, p)
    BY <1>5 DEF LookupAuthority, Phases
  <2> QED BY <1>3, <1>5, <2>1 DEF LookupAuthority
<1>6. CASE \/ Start(r) \/ GetSession(r) \/ CreateSession(r)
           \/ ExpireSession(r) \/ LeaveTranscript(r) \/ EraseSession(r)
           \/ RecordTranscript(r)
  BY <1>3, <1>6
     DEF Start, GetSession, CreateSession, ExpireSession, LeaveTranscript,
         EraseSession, RecordTranscript, Phases, runVars
<1> QED BY <1>4, <1>5, <1>6 DEF Proceed

LEMMA InvokeHandlers ==
  ASSUME CallTypeOK, NEW r \in Run, NEW t \in Tool, Invoke(r, t)
  PROVE  HandlerTypes'
<1> SUFFICES ASSUME NEW u \in Tool PROVE HandlerFits(u)'
  BY DEF HandlerTypes, HandlerFits
<1>1. CallVariableTypes /\ HandlerFits(u)
  BY DEF CallTypeOK, HandlerTypes, HandlerFits
<1>2. CASE u = t
  <2>1. PICK d \in Payloads(r, t) : args' = [args EXCEPT ![t] = d]
    BY DEF Invoke
  <2>2. /\ stage'[u] = "post"
        /\ caller'[u] = r
        /\ tries'[u] = 1
        /\ args'[u] = d
        /\ phase'[r] = "live"
    BY <1>1, <1>2, <2>1 DEF Invoke, CallVariableTypes, runVars
  <2> QED BY <1>2, <2>2 DEF HandlerFits, Payloads
<1>3. CASE u # t
  BY <1>1, <1>3, SameHandlerFits
     DEF Invoke, CallVariableTypes, runVars, HandlerFits, Working
<1> QED BY <1>2, <1>3

LEMMA ToolHandlers ==
  ASSUME CallTypeOK, NEW t \in Tool,
         Handle(t) \/ FileInquiry(t) \/ Interrupt(t)
  PROVE  HandlerTypes'
<1> SUFFICES ASSUME NEW u \in Tool PROVE HandlerFits(u)'
  BY DEF HandlerTypes, HandlerFits
<1>1. CallVariableTypes /\ HandlerFits(u) /\ HandlerFits(t)
  BY DEF CallTypeOK, HandlerTypes, HandlerFits
<1>2. /\ UNCHANGED <<phase, caller, args>>
      /\ \A v \in Tool \ {t} : stage'[v] = stage[v] /\ tries'[v] = tries[v]
  BY <1>1 DEF Handle, FileInquiry, Interrupt, TryAgain, HearRefusal,
              HearSuccess, HearLogged, SaveSlot, ExpireSlot, ForgetSession,
              Finish, CallBack, GoOn, runVars, toolVars, CallVariableTypes
<1>3. CASE u # t
  BY <1>1, <1>2, <1>3, SameHandlerFits DEF HandlerFits, Working
<1>4. ASSUME Working(t),
             tries'[t] > 0,
             \/ stage'[t] \in {"post", "done", "dropped"}
             \/ stage'[t] \in {"hset", "expire"} /\ t \in CheckTool
             \/ stage'[t] = "delete" /\ t \in BookTool
      PROVE  HandlerFits(t)'
  BY <1>1, <1>2, <1>4 DEF HandlerFits, Working, Payloads
<1>5. ASSUME FileInquiry(t) PROVE HandlerFits(t)'
  BY <1>1, <1>5, SameHandlerFits
     DEF FileInquiry, toolVars, runVars, HandlerFits, Working
<1>6. ASSUME TryAgain(t) PROVE HandlerFits(t)'
  <2>1. tries'[t] > 0 /\ stage'[t] \in {"post", "done"}
    BY <1>1, <1>6, ToolAssumption
       DEF TryAgain, Finish, CallBack, HandlerFits, CallVariableTypes
  <2> QED BY <1>4, <1>6, <2>1 DEF TryAgain, Working
<1>7. ASSUME \/ HearRefusal(t) \/ HearSuccess(t) \/ HearLogged(t)
             \/ SaveSlot(t) \/ ExpireSlot(t) \/ ForgetSession(t)
             \/ Interrupt(t)
      PROVE  HandlerFits(t)'
  <2>1. Working(t) /\ tries'[t] > 0
    BY <1>1, <1>7
       DEF HearRefusal, HearSuccess, HearLogged, SaveSlot, ExpireSlot,
           ForgetSession, Interrupt, HandlerFits, Working, CallVariableTypes
  <2>2. \/ stage'[t] \in {"post", "done", "dropped"}
        \/ stage'[t] \in {"hset", "expire"} /\ t \in CheckTool
        \/ stage'[t] = "delete" /\ t \in BookTool
    BY <1>1, <1>7
       DEF HearRefusal, HearSuccess, HearLogged, SaveSlot, ExpireSlot,
           ForgetSession, Interrupt, Finish, CallBack, GoOn, PostTool,
           HandlerFits, CallVariableTypes
  <2> QED BY <1>4, <2>1, <2>2
<1> QED BY <1>3, <1>5, <1>6, <1>7 DEF Handle

LEMMA CallTypesKept ==
  ASSUME CallTypeOK, TypeOK, [CallNext]_allVars
  PROVE  CallTypeOK'
<1>1. ASSUME UNCHANGED <<phase, toolVars>>, CallVariableTypes'
      PROVE  CallTypeOK'
  BY <1>1 DEF CallTypeOK, HandlerTypes, Working, Payloads, toolVars
<1>2. ASSUME NEW r \in Run,
             \/ Start(r) \/ Proceed(r) \/ RecordTranscript(r) \/ Crash(r)
      PROVE  CallTypeOK'
  BY <1>2, RunVariableTypes, RunHandlers DEF CallTypeOK
<1>3. ASSUME NEW r \in Run, NEW t \in Tool, Invoke(r, t) PROVE CallTypeOK'
  BY <1>3, InvokeVariableTypes, InvokeHandlers DEF CallTypeOK
<1>4. ASSUME NEW t \in Tool, Handle(t) \/ FileInquiry(t) \/ Interrupt(t)
      PROVE  CallTypeOK'
  BY <1>4, ToolVariableTypes, ToolHandlers DEF CallTypeOK
<1>5. ASSUME NEW c \in Call, Lapse(c) PROVE CallTypeOK'
  <2>1. Delete(c) \in [Call -> Sessions \cup {NoSession}]
    BY DEF Delete, CallTypeOK, CallVariableTypes
  <2>2. CallVariableTypes'
    BY <1>5, <2>1
       DEF Lapse, RedisDoes, CallTypeOK, CallVariableTypes, runVars,
           toolVars, filing
  <2> QED BY <1>1, <1>5, <2>2 DEF Lapse, runVars
<1>6. CASE UNCHANGED callVars
  BY <1>1, <1>6 DEF callVars, CallTypeOK, CallVariableTypes, toolVars
<1> QED BY <1>2, <1>3, <1>4, <1>5, <1>6
        DEF CallNext, Deliver, ApiStep, allVars

(* Every variable of the calls has its type, and only a live run has       *)
(* handlers at work, each at an await of its own tool: no handler outlives *)
(* its run, whichever runs of whichever calls overlap, crash or are        *)
(* interrupted.                                                            *)
THEOREM CallTypeCorrect == CallSpec => []CallTypeOK
<1>1. CallInit => CallTypeOK
  BY CallInitTypes
<1>2. CallTypeOK /\ TypeOK /\ [CallNext]_allVars => CallTypeOK'
  BY CallTypesKept
<1> QED BY <1>1, <1>2, CallsRunOnApi, TypeCorrect, PTL DEF CallSpec

-----------------------------------------------------------------------------
(* No session is left behind.                                              *)

(* A command on one session leaves the others alone.                       *)
LEMMA CommandsLocal ==
  ASSUME CallVariableTypes, NEW r \in Run, NEW c \in Call,
         NEW d \in Call, d = CallOf[r], d # c, NEW slot, NEW what,
         NEW after \in {session, Hset(d, slot), SetExpiry(d), Delete(d)},
         RedisDoes(after) \/ RedisFails(r, after, what)
  PROVE  session'[c] = session[c] /\ trouble'[c] = trouble[c]
BY DEF RedisDoes, RedisFails, Befalls, Hset, SetExpiry, Delete,
       CallVariableTypes

(* What a step of a run does to the sessions of other calls, and whether   *)
(* the run is still under way.                                             *)
LEMMA RunStepOnSessions ==
  ASSUME CallTypeOK, NEW r \in Run,
         \/ Start(r) \/ Proceed(r) \/ RecordTranscript(r) \/ Crash(r)
  PROVE  /\ \A q \in Run \ {r} : phase'[q] = phase[q]
         /\ \A c \in Call \ {CallOf[r]} :
              session'[c] = session[c] /\ trouble'[c] = trouble[c]
         /\ \/ Underway(r)'
            \/ UNCHANGED <<phase, session, trouble>>
            \/ "failure" \in trouble'[CallOf[r]]
            \/ session'[CallOf[r]] = NoSession
<1>1. CallVariableTypes /\ CallOf[r] \in Call
  BY CallAssumption DEF CallTypeOK
<1>2. CASE Start(r) \/ GetSession(r) \/ LeaveTranscript(r)
  BY <1>1, <1>2
     DEF Start, GetSession, LeaveTranscript, Move, Underway, redis,
         RedisFails, Befalls, CallVariableTypes
<1>3. CASE LookupAuthority(r)
  <2>1. \E p \in {"live", "get"} : Move(r, p)
    BY <1>3 DEF LookupAuthority
  <2> QED BY <1>1, <1>3, <2>1
          DEF LookupAuthority, Move, Underway, redis, CallVariableTypes
<1>4. CASE CreateSession(r)
  <2>1. \E p \in {"live", "expire"} : Move(r, p)
    BY <1>4 DEF CreateSession
  <2>2. \/ RedisDoes(Hset(CallOf[r], NoSlot))
        \/ RedisFails(r, Hset(CallOf[r], NoSlot), {"torn"})
    BY <1>4 DEF CreateSession
  <2>3. \A c \in Call \ {CallOf[r]} :
          session'[c] = session[c] /\ trouble'[c] = trouble[c]
    BY <1>1, <2>2, CommandsLocal
  <2> QED BY <1>1, <2>1, <2>3 DEF Move, Underway, CallVariableTypes
<1>5. CASE ExpireSession(r)
  <2>1. Move(r, "live")
    BY <1>5 DEF ExpireSession
  <2>2. \/ RedisDoes(SetExpiry(CallOf[r]))
        \/ RedisFails(r, SetExpiry(CallOf[r]), {"torn"})
    BY <1>5 DEF ExpireSession
  <2>3. \A c \in Call \ {CallOf[r]} :
          session'[c] = session[c] /\ trouble'[c] = trouble[c]
    BY <1>1, <2>2, CommandsLocal
  <2> QED BY <1>1, <2>1, <2>3 DEF Move, Underway, CallVariableTypes
<1>6. CASE EraseSession(r)
  <2>1. Move(r, "ended")
    BY <1>6 DEF EraseSession
  <2>2. \/ RedisDoes(Delete(CallOf[r]))
        \/ RedisFails(r, Delete(CallOf[r]), {})
    BY <1>6 DEF EraseSession
  <2>3. \A c \in Call \ {CallOf[r]} :
          session'[c] = session[c] /\ trouble'[c] = trouble[c]
    BY <1>1, <2>2, CommandsLocal
  <2>4. \/ "failure" \in trouble'[CallOf[r]]
        \/ session'[CallOf[r]] = NoSession
    BY <1>1, <2>2
       DEF RedisDoes, RedisFails, Befalls, Delete, CallVariableTypes
  <2> QED BY <1>1, <2>1, <2>3, <2>4 DEF Move, CallVariableTypes
<1>7. CASE End(r)
  BY <1>1, <1>7 DEF End, Move, Underway, Befalls, CallVariableTypes
<1>8. CASE Crash(r)
  BY <1>1, <1>8 DEF Crash, Move, Befalls, CallVariableTypes
<1>9. CASE RecordTranscript(r)
  BY <1>9 DEF RecordTranscript, runVars, redis
<1> QED BY <1>2, <1>3, <1>4, <1>5, <1>6, <1>7, <1>8, <1>9 DEF Proceed

(* The handlers write the session of a call that is under way.             *)
LEMMA ToolStepOnSessions ==
  ASSUME CallTypeOK, NEW t \in Tool,
         Handle(t) \/ FileInquiry(t) \/ Interrupt(t)
  PROVE  /\ UNCHANGED phase
         /\ \/ UNCHANGED <<session, trouble>>
            \/ /\ caller[t] \in Run
               /\ phase[caller[t]] = "live"
               /\ \A c \in Call \ {CallOf[caller[t]]} :
                    session'[c] = session[c] /\ trouble'[c] = trouble[c]
<1>1. /\ CallVariableTypes
      /\ Working(t) =>
           /\ caller[t] \in Run
           /\ CallOf[caller[t]] \in Call
           /\ phase[caller[t]] = "live"
  BY CallAssumption DEF CallTypeOK, HandlerTypes, Working
<1>2. CASE \/ TryAgain(t) \/ HearRefusal(t) \/ HearSuccess(t)
           \/ HearLogged(t) \/ FileInquiry(t)
  BY <1>2 DEF TryAgain, HearRefusal, HearSuccess, HearLogged, FileInquiry,
              runVars, redis
<1>3. CASE SaveSlot(t)
  <2>1. Working(t) /\ UNCHANGED phase
    BY <1>3 DEF SaveSlot, Working, runVars
  <2>2. \E slot : \/ RedisDoes(Hset(CallOf[caller[t]], slot))
                  \/ RedisFails(caller[t], Hset(CallOf[caller[t]], slot), {"torn"})
    BY <1>3 DEF SaveSlot
  <2> QED BY <1>1, <2>1, <2>2, CommandsLocal
<1>4. CASE ExpireSlot(t)
  <2>1. Working(t) /\ UNCHANGED phase
    BY <1>4 DEF ExpireSlot, Working, runVars
  <2>2. \/ RedisDoes(SetExpiry(CallOf[caller[t]]))
        \/ RedisFails(caller[t], SetExpiry(CallOf[caller[t]]), {"torn"})
    BY <1>4 DEF ExpireSlot
  <2> QED BY <1>1, <2>1, <2>2, CommandsLocal
<1>5. CASE ForgetSession(t)
  <2>1. Working(t) /\ UNCHANGED phase
    BY <1>5 DEF ForgetSession, Working, runVars
  <2>2. \/ RedisDoes(Delete(CallOf[caller[t]]))
        \/ RedisFails(caller[t], Delete(CallOf[caller[t]]), {})
    BY <1>5 DEF ForgetSession
  <2> QED BY <1>1, <2>1, <2>2, CommandsLocal
<1>6. CASE Interrupt(t)
  BY <1>1, <1>6 DEF Interrupt, Befalls, runVars, CallVariableTypes
<1> QED BY <1>2, <1>3, <1>4, <1>5, <1>6 DEF Handle

LEMMA NothingLeftKept ==
  ASSUME CallTypeOK, NothingLeftBehind, [CallNext]_allVars
  PROVE  NothingLeftBehind'
<1> SUFFICES ASSUME NEW c \in Call, Abandoned(c)',
                    "failure" \notin trouble'[c]
             PROVE  session'[c] = NoSession
  BY DEF NothingLeftBehind
<1>1. ASSUME \A r \in Run : CallOf[r] = c => phase'[r] = phase[r],
             session'[c] = session[c], trouble'[c] = trouble[c]
      PROVE  session'[c] = NoSession
  BY <1>1 DEF NothingLeftBehind, Abandoned, Underway
<1>2. ASSUME NEW r \in Run,
             \/ Start(r) \/ Proceed(r) \/ RecordTranscript(r) \/ Crash(r)
      PROVE  session'[c] = NoSession
  <2>1. CASE CallOf[r] # c
    BY <1>1, <1>2, <2>1, RunStepOnSessions
  <2>2. CASE CallOf[r] = c
    <3>1. ~Underway(r)'
      BY <2>2 DEF Abandoned
    <3> QED BY <1>1, <1>2, <2>2, <3>1, RunStepOnSessions
  <2> QED BY <2>1, <2>2
<1>3. ASSUME NEW t \in Tool, Handle(t) \/ FileInquiry(t) \/ Interrupt(t)
      PROVE  session'[c] = NoSession
  <2>1. CASE UNCHANGED <<session, trouble>>
    BY <1>1, <1>3, <2>1, ToolStepOnSessions
  <2>2. CASE /\ caller[t] \in Run
             /\ phase[caller[t]] = "live"
             /\ \A d \in Call \ {CallOf[caller[t]]} :
                  session'[d] = session[d] /\ trouble'[d] = trouble[d]
    <3>1. UNCHANGED phase
      BY <1>3, ToolStepOnSessions
    <3>2. CallOf[caller[t]] # c
      BY <2>2, <3>1 DEF Abandoned, Underway
    <3> QED BY <1>1, <2>2, <3>1, <3>2
  <2> QED BY <1>3, <2>1, <2>2, ToolStepOnSessions
<1>4. ASSUME NEW d \in Call, Lapse(d) PROVE session'[c] = NoSession
  BY <1>1, <1>4 DEF Lapse, RedisDoes, Delete, runVars,
                    CallTypeOK, CallVariableTypes
<1>5. ASSUME NEW r \in Run, NEW t \in Tool, Invoke(r, t)
      PROVE  session'[c] = NoSession
  BY <1>1, <1>5 DEF Invoke, runVars, redis
<1>6. CASE UNCHANGED callVars
  BY <1>1, <1>6 DEF callVars
<1> QED BY <1>2, <1>3, <1>4, <1>5, <1>6
        DEF CallNext, Deliver, ApiStep, allVars

(* When no run of a call is under way Redis holds nothing of the call,     *)
(* unless a crash or a Redis failure befell it: for any number of calls    *)
(* and of runs of one call, in any order.                                  *)
THEOREM NothingLeft == CallSpec => []NothingLeftBehind
<1>1. CallInit => NothingLeftBehind
  BY DEF CallInit, NothingLeftBehind
<1>2. CallTypeOK /\ NothingLeftBehind /\ [CallNext]_allVars
        => NothingLeftBehind'
  BY NothingLeftKept
<1> QED BY <1>1, <1>2, CallTypeCorrect, PTL DEF CallSpec

-----------------------------------------------------------------------------
(* A session expires.                                                      *)

Bounded(c) ==
  session[c] # NoSession /\ "torn" \notin trouble[c] =>
    session[c].expires \/ UpsertUnderway(c)

(* What is about to expire a session stays so through a step that neither  *)
(* ends nor drops it.                                                      *)
LEMMA UpsertStays ==
  ASSUME NEW c \in Call,
         \A r \in Run : CallOf[r] = c /\ phase[r] = "expire" =>
                        phase'[r] = "expire",
         \A t \in Tool : stage[t] = "expire" /\ CallOf[caller[t]] = c =>
                           stage'[t] = "expire" /\ caller'[t] = caller[t]
  PROVE  UpsertUnderway(c) => UpsertUnderway(c)'
BY DEF UpsertUnderway

(* The commands that can end an upsert.                                    *)
LEMMA CommandsBound ==
  ASSUME CallVariableTypes, NEW r \in Run, NEW c \in Call, c = CallOf[r],
         \/ RedisDoes(SetExpiry(c))
         \/ RedisFails(r, SetExpiry(c), {"torn"})
         \/ RedisDoes(Delete(c))
         \/ \E slot : RedisFails(r, Hset(c, slot), {"torn"})
  PROVE  Bounded(c)'
BY DEF Bounded, RedisDoes, RedisFails, Befalls, SetExpiry, Delete,
       CallVariableTypes

LEMMA RunStepBounds ==
  ASSUME CallTypeOK, NEW c \in Call, Bounded(c), NEW r \in Run,
         \/ Start(r) \/ Proceed(r) \/ RecordTranscript(r) \/ Crash(r)
  PROVE  Bounded(c)'
<1>1. CallVariableTypes /\ CallOf[r] \in Call
  BY CallAssumption DEF CallTypeOK
<1>2. \/ phase' = phase
      \/ \E p : phase' = [phase EXCEPT ![r] = p]
  BY DEF Start, Proceed, LookupAuthority, GetSession, CreateSession,
         ExpireSession, End, LeaveTranscript, EraseSession, Crash,
         RecordTranscript, Move, runVars
<1>3. CASE c # CallOf[r]
  <2>1. session'[c] = session[c] /\ trouble'[c] = trouble[c]
    BY <1>3, RunStepOnSessions
  <2>2. \A q \in Run : CallOf[q] = c => phase'[q] = phase[q]
    BY <1>3, RunStepOnSessions
  <2>3. /\ caller' = caller
        /\ stage' = stage \/ DropTools(r)
    BY DEF Start, Proceed, LookupAuthority, GetSession, CreateSession,
           ExpireSession, End, LeaveTranscript, EraseSession, Crash,
           RecordTranscript, toolVars
  <2>4. \A t \in Tool : CallOf[caller[t]] = c => stage'[t] = stage[t]
    BY <1>3, <2>3 DEF DropTools, ToolsOf
  <2> QED BY <2>1, <2>2, <2>3, <2>4, UpsertStays DEF Bounded
<1>4. ASSUME c = CallOf[r], session'[c] = session[c], trouble'[c] = trouble[c],
             phase[r] # "expire", UNCHANGED toolVars
      PROVE  Bounded(c)'
  <2>1. UpsertUnderway(c) => UpsertUnderway(c)'
    BY <1>1, <1>2, <1>4, UpsertStays DEF toolVars, CallVariableTypes
  <2> QED BY <1>4, <2>1 DEF Bounded
<1>5. ASSUME c = CallOf[r], NEW what, {"torn"} \subseteq what,
             Befalls(c, what)
      PROVE  Bounded(c)'
  BY <1>1, <1>5 DEF Bounded, Befalls, CallVariableTypes
<1>6. ASSUME c = CallOf[r], phase[r] # "expire", UNCHANGED toolVars,
             NEW after \in {session, Delete(c)}, RedisFails(r, after, {})
      PROVE  Bounded(c)'
  <2>1. UpsertUnderway(c) => UpsertUnderway(c)'
    BY <1>1, <1>2, <1>6, UpsertStays DEF toolVars, CallVariableTypes
  <2>2. /\ session'[c] \in {session[c], NoSession}
        /\ trouble[c] \subseteq trouble'[c]
    BY <1>1, <1>6 DEF RedisFails, Befalls, Delete, CallVariableTypes
  <2> QED BY <2>1, <2>2 DEF Bounded
<1>7. CASE c = CallOf[r] /\ (Start(r) \/ LookupAuthority(r)
                            \/ LeaveTranscript(r))
  BY <1>4, <1>7 DEF Start, LookupAuthority, LeaveTranscript, redis
<1>8. CASE c = CallOf[r] /\ GetSession(r)
  BY <1>4, <1>6, <1>8 DEF GetSession, redis
<1>9. CASE c = CallOf[r] /\ CreateSession(r)
  <2>1. CASE RedisDoes(Hset(c, NoSlot)) /\ Move(r, "expire")
    <3>1. UpsertUnderway(c)'
      BY <1>1, <1>9, <2>1 DEF UpsertUnderway, Move, CallVariableTypes
    <3> QED BY <3>1 DEF Bounded
  <2>2. CASE RedisFails(r, Hset(c, NoSlot), {"torn"})
    BY <1>1, <1>9, <2>2, CommandsBound
  <2> QED BY <1>9, <2>1, <2>2 DEF CreateSession
<1>10. CASE c = CallOf[r] /\ ExpireSession(r)
  BY <1>1, <1>10, CommandsBound DEF ExpireSession
<1>11. ASSUME c = CallOf[r], NEW what, DropTools(r), UNCHANGED caller,
              session'[c] = session[c], Befalls(c, what \cup TornBy(r))
       PROVE  Bounded(c)'
  <2>1. CASE TornBy(r) = {"torn"}
    BY <1>5, <1>11, <2>1
  <2>2. CASE TornBy(r) # {"torn"}
    <3>1. /\ phase[r] # "expire"
          /\ \A t \in Tool : caller[t] = r => stage[t] # "expire"
      BY <2>2 DEF TornBy, ToolsOf, Working
    <3>2. \A t \in Tool : stage[t] = "expire" => stage'[t] = "expire"
      BY <1>11, <3>1 DEF DropTools, ToolsOf
    <3>3. \A q \in Run : phase[q] = "expire" => phase'[q] = "expire"
      BY <1>1, <1>2, <3>1 DEF CallVariableTypes
    <3>4. UpsertUnderway(c) => UpsertUnderway(c)'
      BY <1>11, <3>2, <3>3, UpsertStays
    <3>5. trouble[c] \subseteq trouble'[c]
      BY <1>1, <1>11 DEF Befalls, CallVariableTypes
    <3> QED BY <1>11, <3>4, <3>5 DEF Bounded
  <2> QED BY <2>1, <2>2
<1>12. CASE c = CallOf[r] /\ End(r)
  <2>1. Befalls(c, {} \cup TornBy(r))
    BY <1>12 DEF End, Befalls
  <2> QED BY <1>11, <1>12, <2>1 DEF End
<1>13. CASE c = CallOf[r] /\ Crash(r)
  BY <1>11, <1>13 DEF Crash
<1>14. CASE c = CallOf[r] /\ EraseSession(r)
  BY <1>1, <1>6, <1>14, CommandsBound DEF EraseSession
<1>15. CASE RecordTranscript(r)
  BY <1>15 DEF RecordTranscript, runVars, redis, toolVars, Bounded,
               UpsertUnderway
<1> QED BY <1>3, <1>7, <1>8, <1>9, <1>10, <1>12, <1>13, <1>14, <1>15
        DEF Proceed

LEMMA ToolStepBounds ==
  ASSUME CallTypeOK, NEW c \in Call, Bounded(c), NEW t \in Tool,
         Handle(t) \/ FileInquiry(t) \/ Interrupt(t)
  PROVE  Bounded(c)'
<1>1. /\ CallVariableTypes
      /\ Working(t) => caller[t] \in Run /\ CallOf[caller[t]] \in Call
  BY CallAssumption DEF CallTypeOK, HandlerTypes, Working
<1>2. /\ UNCHANGED <<phase, caller>>
      /\ stage' = stage \/ \E s : stage' = [stage EXCEPT ![t] = s]
  BY DEF Handle, TryAgain, HearRefusal, HearSuccess, HearLogged, SaveSlot,
         ExpireSlot, ForgetSession, FileInquiry, Interrupt, Finish, CallBack,
         GoOn, runVars, toolVars
<1>3. stage[t] # "expire" \/ CallOf[caller[t]] # c =>
        (UpsertUnderway(c) => UpsertUnderway(c)')
  BY <1>1, <1>2, UpsertStays DEF CallVariableTypes
<1>4. CASE session'[c] = session[c] /\ trouble'[c] = trouble[c]
           /\ (stage[t] # "expire" \/ CallOf[caller[t]] # c)
  BY <1>3, <1>4 DEF Bounded
<1>5. CASE \/ TryAgain(t) \/ HearRefusal(t) \/ HearSuccess(t)
           \/ HearLogged(t)
  BY <1>4, <1>5 DEF TryAgain, HearRefusal, HearSuccess, HearLogged, redis
<1>6. CASE FileInquiry(t)
  BY <1>6 DEF FileInquiry, runVars, redis, toolVars, Bounded,
              UpsertUnderway
<1>7. CASE SaveSlot(t) \/ ExpireSlot(t) \/ ForgetSession(t) \/ Interrupt(t)
  <2>1. Working(t)
    BY <1>7 DEF SaveSlot, ExpireSlot, ForgetSession, Interrupt, Working
  <2>2. CASE CallOf[caller[t]] # c
    BY <1>1, <1>4, <2>1, <2>2, ToolStepOnSessions
  <2>3. CASE CallOf[caller[t]] = c /\ SaveSlot(t)
    <3>1. CASE stage' = [stage EXCEPT ![t] = "expire"]
      <4>1. UpsertUnderway(c)'
        BY <1>1, <1>2, <2>1, <2>3, <3>1
           DEF UpsertUnderway, CallVariableTypes
      <4> QED BY <4>1 DEF Bounded
    <3>2. CASE RedisFails(caller[t], Hset(c, SlotOf(args[t])), {"torn"})
      BY <1>1, <2>1, <2>3, <3>2, CommandsBound
    <3> QED BY <2>3, <3>1, <3>2 DEF SaveSlot
  <2>4. CASE CallOf[caller[t]] = c /\ ExpireSlot(t)
    BY <1>1, <2>1, <2>4, CommandsBound DEF ExpireSlot
  <2>5. CASE CallOf[caller[t]] = c /\ ForgetSession(t)
    <3>1. CASE RedisDoes(Delete(c))
      BY <1>1, <2>1, <2>5, <3>1, CommandsBound
    <3>2. CASE RedisFails(caller[t], Delete(c), {})
      <4>1. /\ session'[c] \in {session[c], NoSession}
            /\ trouble[c] \subseteq trouble'[c]
        BY <1>1, <2>1, <2>5, <3>2
           DEF RedisFails, Befalls, Delete, CallVariableTypes
      <4> QED BY <1>3, <2>5, <4>1 DEF ForgetSession, Bounded
    <3> QED BY <2>5, <3>1, <3>2 DEF ForgetSession
  <2>6. CASE CallOf[caller[t]] = c /\ Interrupt(t)
    <3>1. /\ session'[c] = session[c]
          /\ trouble[c] \subseteq trouble'[c]
          /\ stage[t] = "expire" => "torn" \in trouble'[c]
      BY <1>1, <2>6 DEF Interrupt, Befalls, CallVariableTypes
    <3> QED BY <1>3, <3>1 DEF Bounded
  <2> QED BY <1>7, <2>2, <2>3, <2>4, <2>5, <2>6
<1> QED BY <1>5, <1>6, <1>7 DEF Handle

LEMMA SessionsExpireKept ==
  ASSUME CallTypeOK, SessionsExpire, [CallNext]_allVars
  PROVE  SessionsExpire'
<1> SUFFICES ASSUME NEW c \in Call, Bounded(c) PROVE Bounded(c)'
  BY DEF SessionsExpire, Bounded
<1>1. ASSUME NEW d \in Call, Lapse(d) PROVE Bounded(c)'
  BY <1>1 DEF Lapse, RedisDoes, Delete, runVars, toolVars, Bounded,
              UpsertUnderway, CallTypeOK, CallVariableTypes
<1>2. ASSUME NEW r \in Run, NEW t \in Tool, Invoke(r, t)
      PROVE  Bounded(c)'
  <2>1. UpsertUnderway(c) => UpsertUnderway(c)'
    BY <1>2, UpsertStays
       DEF Invoke, runVars, CallTypeOK, CallVariableTypes
  <2> QED BY <1>2, <2>1 DEF Invoke, redis, Bounded
<1>3. CASE UNCHANGED callVars
  BY <1>3 DEF callVars, Bounded, UpsertUnderway
<1> QED BY <1>1, <1>2, <1>3, RunStepBounds, ToolStepBounds
        DEF CallNext, Deliver, ApiStep, allVars

(* A session that Redis holds will expire, or a handler is about to make   *)
(* it, unless an upsert of the call was torn: the part of                  *)
(* SessionsForgotten that does not rest on fairness.                       *)
THEOREM SessionsBounded == CallSpec => []SessionsExpire
<1>1. CallInit => SessionsExpire
  BY DEF CallInit, SessionsExpire
<1>2. CallTypeOK /\ SessionsExpire /\ [CallNext]_allVars => SessionsExpire'
  BY SessionsExpireKept
<1> QED BY <1>1, <1>2, CallTypeCorrect, PTL DEF CallSpec

-----------------------------------------------------------------------------
(* A retry books once.                                                     *)

(* The posts of a tool call all carry its payload.                         *)
PostCarries(t, n) ==
  pc[<<t, n>>] # "idle" => n <= tries[t] /\ dto[<<t, n>>] = args[t]

PostsCarry == \A t \in PostTool, n \in 1 .. MaxAttempts : PostCarries(t, n)

LEMMA ApiStepOnPosts ==
  ASSUME IInv, ApiStep, NEW q \in Booker \cup Checker \cup Canceller
  PROVE  dto'[q] = dto[q] /\ (pc[q] = "idle" => pc'[q] = "idle")
<1>1. q \in Request \ Updater
  BY RequestAssumption DEF Request
<1>2. pc \in [Request -> Calls] /\ dto \in [Request -> Dtos]
  BY DEF IInv, TypeOK, VariableTypes
<1>3. ASSUME NEW u \in Updater, ReceiveStatus(u)
      PROVE  dto'[q] = dto[q] /\ pc'[q] = pc[q]
  BY <1>1, <1>2, <1>3 DEF ReceiveStatus, Arrive, Await
<1>4. ASSUME NEW u \in Request, Serve(u) \/ Fail(u)
      PROVE  /\ dto' = dto
             /\ pc[u] # "idle"
             /\ u # q => pc'[q] = pc[q]
  BY <1>1, <1>2, <1>4
     DEF Serve, Fail, ReadHours, ReadConflicts, InsertRow, Collide,
         FindCandidates, LookupRow, UpdateRow, Answer, Await
<1>5. ASSUME NEW b \in Business, NEW day \in OpeningDay, NEW o \in Opening,
             UpsertHours(b, day, o)
      PROVE  UNCHANGED <<dto, pc>>
  BY <1>5 DEF UpsertHours
<1>6. CASE Tick
  BY <1>6 DEF Tick
<1> QED BY <1>3, <1>4, <1>5, <1>6 DEF ApiStep

LEMMA DeliverOnPosts ==
  ASSUME IInv, NEW t \in PostTool, NEW n \in 1 .. MaxAttempts, Deliver(t, n),
         NEW q \in Request, q # <<t, n>>
  PROVE  dto'[q] = dto[q] /\ pc'[q] = pc[q]
BY DEF Deliver, ReceiveSlot, ReceiveCancel, Arrive, Await, Answer,
       IInv, TypeOK, VariableTypes

LEMMA PostsCarryKept ==
  ASSUME IInv, CallTypeOK, PostsCarry, [CallNext]_allVars
  PROVE  PostsCarry'
<1> SUFFICES ASSUME NEW t \in PostTool, NEW n \in 1 .. MaxAttempts
             PROVE  PostCarries(t, n)'
  BY ToolAssumption DEF PostsCarry
<1>1. /\ PostCarries(t, n)
      /\ CallVariableTypes
      /\ t \in Tool
      /\ tries[t] \in Nat /\ n \in Nat \ {0}
      /\ stage[t] = "idle" => tries[t] = 0
  BY ToolAssumption
     DEF PostsCarry, CallTypeOK, CallVariableTypes, HandlerTypes, Tool
<1>2. ASSUME UNCHANGED vars, args'[t] = args[t],
             tries'[t] \in Nat /\ tries[t] <= tries'[t]
      PROVE  PostCarries(t, n)'
  BY <1>1, <1>2 DEF PostCarries, vars
<1>3. ASSUME NEW r \in Run,
             \/ Start(r) \/ Proceed(r) \/ RecordTranscript(r) \/ Crash(r)
      PROVE  PostCarries(t, n)'
  <2>1. UNCHANGED <<args, tries>>
    BY <1>3 DEF Start, Proceed, RecordTranscript, Crash, LookupAuthority,
                GetSession, CreateSession, ExpireSession, End,
                LeaveTranscript, EraseSession, toolVars
  <2> QED BY <1>1, <1>2, <1>3, <2>1, RunsLeaveApi
<1>4. ASSUME NEW r \in Run, NEW u \in Tool, Invoke(r, u)
      PROVE  PostCarries(t, n)'
  <2>1. CASE u = t
    BY <1>1, <1>4, <2>1 DEF Invoke, PostCarries, vars
  <2>2. CASE u # t
    <3>1. args'[t] = args[t] /\ tries'[t] = tries[t]
      BY <1>1, <1>4, <2>2 DEF Invoke, CallVariableTypes
    <3> QED BY <1>1, <1>2, <1>4, <3>1 DEF Invoke
  <2> QED BY <2>1, <2>2
<1>5. ASSUME NEW u \in Tool, Handle(u) \/ FileInquiry(u) \/ Interrupt(u)
      PROVE  PostCarries(t, n)'
  <2>1. UNCHANGED args
    BY <1>5 DEF Handle, FileInquiry, Interrupt, TryAgain, HearRefusal,
                HearSuccess, HearLogged, SaveSlot, ExpireSlot,
                ForgetSession, toolVars
  <2>2. UNCHANGED tries \/ tries' = [tries EXCEPT ![u] = tries[u] + 1]
    BY <1>5 DEF Handle, FileInquiry, Interrupt, TryAgain, HearRefusal,
                HearSuccess, HearLogged, SaveSlot, ExpireSlot,
                ForgetSession, toolVars
  <2>3. tries'[t] \in Nat /\ tries[t] <= tries'[t]
    BY <1>1, <2>2 DEF CallVariableTypes
  <2> QED BY <1>2, <1>5, <2>1, <2>3, ToolsLeaveApi
<1>6. ASSUME NEW u \in PostTool, NEW m \in 1 .. MaxAttempts, Deliver(u, m)
      PROVE  PostCarries(t, n)'
  <2>1. UNCHANGED <<args, tries>>
    BY <1>6 DEF Deliver, callVars
  <2>2. CASE u = t /\ m = n
    BY <1>6, <2>1, <2>2 DEF Deliver, PostCarries
  <2>3. CASE ~(u = t /\ m = n)
    <3>1. <<t, n>> \in Request /\ <<t, n>> # <<u, m>>
      BY <2>3, PostIsRequest
    <3>2. dto'[<<t, n>>] = dto[<<t, n>>] /\ pc'[<<t, n>>] = pc[<<t, n>>]
      BY <1>6, <3>1, DeliverOnPosts
    <3> QED BY <1>1, <2>1, <3>2 DEF PostCarries
  <2> QED BY <2>2, <2>3
<1>7. CASE ApiStep
  <2>1. <<t, n>> \in Booker \cup Checker \cup Canceller
    BY PostIsRequest DEF PostTool
  <2>2. UNCHANGED <<args, tries>>
    BY <1>7 DEF ApiStep, callVars
  <2>3. /\ dto'[<<t, n>>] = dto[<<t, n>>]
        /\ pc[<<t, n>>] = "idle" => pc'[<<t, n>>] = "idle"
    BY <1>7, <2>1, ApiStepOnPosts
  <2> QED BY <1>1, <2>2, <2>3 DEF PostCarries
<1>8. ASSUME NEW c \in Call, Lapse(c) PROVE PostCarries(t, n)'
  BY <1>1, <1>2, <1>8 DEF Lapse, toolVars
<1>9. CASE UNCHANGED allVars
  BY <1>1, <1>2, <1>9 DEF allVars, callVars
<1> QED BY <1>3, <1>4, <1>5, <1>6, <1>7, <1>8, <1>9 DEF CallNext

(* Posts carry their tool call's payload at every step (_post_with_retry). *)
THEOREM PostsCarried == CallSpec => []PostsCarry
<1>1. CallInit => PostsCarry
  BY PostIsRequest DEF CallInit, Init, PostsCarry, PostCarries
<1>2. IInv /\ CallTypeOK /\ PostsCarry /\ [CallNext]_allVars => PostsCarry'
  BY PostsCarryKept
<1> QED BY <1>1, <1>2, CallsRunOnApi, Inductive, CallTypeCorrect, PTL
        DEF CallSpec

LEMMA SameSlotOverlaps ==
  ASSUME NEW s \in Int, NEW d \in Nat \ {0}
  PROVE  Overlaps(s, d, s, d)
BY DEF Overlaps

(* Two appointments of one tool call would be for the same slot, and the   *)
(* same slot is never cleared twice.                                       *)
LEMMA OneSlotPerTool ==
  ASSUME IInv, PostsCarry
  PROVE  RetryBooksOnce
<1> SUFFICES ASSUME NEW t \in BookTool, NEW m \in 1 .. MaxAttempts,
                    NEW n \in 1 .. MaxAttempts,
                    <<t, m>> \in before[<<t, n>>],
                    Active(<<t, m>>), Active(<<t, n>>)
             PROVE  <<t, m>> \in revived
  BY DEF RetryBooksOnce
<1> DEFINE i == <<t, m>>
           j == <<t, n>>
<1>1. i \in Booker /\ j \in Booker /\ t \in PostTool
  BY ToolAssumption DEF PostTool
<1>2. Exists(i) /\ Exists(j)
  BY DEF Active, Exists
<1>3. /\ pc[i] = "done" /\ pc[j] = "done"
      /\ Resolved(dto[j])
      /\ appointment[i].business = dto[i].business
      /\ appointment[j].business = dto[j].business
      /\ appointment[i].service = ServiceOf(dto[i])
      /\ appointment[j].service = ServiceOf(dto[j])
      /\ appointment[i].scheduledAt = StartOf(dto[i])
      /\ appointment[j].scheduledAt = StartOf(dto[j])
      /\ appointment[j] \in Row
  BY <1>1, <1>2 DEF IInv, Shape, RowsTheirRequests, TypeOK, VariableTypes,
                    Exists, NoRow
<1>4. dto[i] = args[t] /\ dto[j] = args[t]
  BY <1>1, <1>3 DEF PostsCarry, PostCarries
<1>5. StartOf(dto[j]) \in Int
  BY <1>3 DEF Row
<1>6. Duration[ServiceOf(dto[j])] \in Nat \ {0}
  BY <1>3, ServiceOfType, CatalogAssumption
<1>7. Overlapping(i, j)
  <2> HIDE DEF i, j
  <2>1. Overlaps(StartOf(dto[j]), Duration[ServiceOf(dto[j])],
                 StartOf(dto[j]), Duration[ServiceOf(dto[j])])
    BY <1>5, <1>6, SameSlotOverlaps
  <2>2. Active(i) /\ Active(j)
    BY DEF i, j
  <2> QED BY <1>3, <1>4, <2>1, <2>2 DEF Overlapping, OverlapAt
<1>8. ~AcrossUtcMidnight(i, j)
  BY <1>3, <1>4 DEF AcrossUtcMidnight
<1>9. SuccessiveBookingsKeptApart
  BY ClearedKeepsApart
<1> QED BY <1>1, <1>7, <1>8, <1>9 DEF SuccessiveBookingsKeptApart

(* A retry that reaches the API when an earlier post of the same tool call *)
(* has booked does not book again, for any number of tool calls, attempts  *)
(* and requests in flight: two active appointments of one tool call need   *)
(* the dashboard to have brought the earlier one back.                     *)
THEOREM RetriesBookOnce == CallSpec => []RetryBooksOnce
<1>1. IInv /\ PostsCarry => RetryBooksOnce
  BY OneSlotPerTool
<1> QED BY <1>1, CallsRunOnApi, Inductive, PostsCarried, PTL

-----------------------------------------------------------------------------
(* The record of a call.                                                   *)

(* A confirmation comes from a booking, a cancelled from a cancellation,   *)
(* and each bears a reference.                                             *)
AnswersOfKind(r) ==
  /\ answer[r].status = "confirmed" =>
       r \in Booker /\ answer[r].ref \in Reference
  /\ answer[r].status = "cancelled" =>
       r \in Canceller /\ answer[r].ref \in Reference

AnswerKinds == \A r \in Request : AnswersOfKind(r)

(* A tool call that waits for its answer has no result.                    *)
WaitsBlank(t) ==
  /\ stage[t] = "idle" => caller[t] = Nobody
  /\ stage[t] \in {"idle", "post"} => result[t] = "none"

WaitingBlank == \A t \in Tool : WaitsBlank(t)

(* The model hears a result when the handler is done, not before and not   *)
(* when it is cut off; with an inquiry logged the handler is done.         *)
HeardFits(t) ==
  /\ heard[t] = IF stage[t] = "done" THEN result[t] ELSE "none"
  /\ result[t] = "logged" => stage[t] = "done"

HearingFits == \A t \in Tool : HeardFits(t)

Finished == {"transcript", "delete", "ended", "crashed"}

BookedFor(r, ref) ==
  \E i \in Booker :
    /\ Exists(i)
    /\ appointment[i].ref = ref
    /\ appointment[i].business = Home
    /\ appointment[i].phone = PhoneOf[CallOf[r]]
    /\ caller[i[1]] = r

CancelledFor(r) ==
  \E q \in Canceller : caller[q[1]] = r /\ answer[q].status = "cancelled"

(* What a run's context says of the run, and what the API did for it.      *)
ContextFits(r) ==
  LET x == ctx[r]
  IN  /\ x.booking # NoReference <=> Got(r, "confirmed") # {}
      /\ x.booking # NoReference => BookedFor(r, x.booking)
      /\ x.cancelled # NoReference => CancelledFor(r)
      /\ x.inquiry => Got(r, "logged") # {}
      /\ Got(r, "logged") \subseteq filed

CallsOnlyLive(r) ==
  \A t \in Tool : caller[t] = r =>
    phase[r] \in {"live"} \cup Finished /\ ~ctx[r].authority

RunFits(r) == ContextFits(r) /\ CallsOnlyLive(r)
RunsFit == \A r \in Run : RunFits(r)

MailFinished == \A r \in mail : phase[r] \in Finished

(* The record of a call is that of a run of the call which has ended.      *)
RecordOfEnded(c) ==
  transcript[c] # NoTranscript =>
    LET r == transcript[c].run
    IN  /\ r \in Run
        /\ CallOf[r] = c
        /\ phase[r] \in Finished
        /\ transcript[c] = RecordOf(r)

RecordsOfEnded == \A c \in Call : RecordOfEnded(c)

RInv == /\ AnswerKinds /\ WaitingBlank /\ HearingFits
        /\ RunsFit /\ MailFinished /\ RecordsOfEnded

(* What the theorems already proved say of a state.                        *)
Known == IInv /\ AInv /\ CallTypeOK /\ PostsCarry

-----------------------------------------------------------------------------
(* Answers.                                                                *)

LEMMA AnswerKindsKept ==
  ASSUME IInv, AnswerKinds, [Next]_vars
  PROVE  AnswerKinds'
<1> SUFFICES ASSUME NEW r \in Request PROVE AnswersOfKind(r)'
  BY DEF AnswerKinds
<1>1. AnswersOfKind(r) /\ answer \in [Request -> Answers]
  BY DEF AnswerKinds, IInv, TypeOK, VariableTypes
<1>2. ASSUME answer'[r] = answer[r] PROVE AnswersOfKind(r)'
  BY <1>1, <1>2 DEF AnswersOfKind
<1>3. ASSUME NEW s, Answer(r, Says(s)), s \notin {"confirmed", "cancelled"}
      PROVE  AnswersOfKind(r)'
  BY <1>1, <1>3 DEF Answer, Says, AnswersOfKind
<1>4. ASSUME Receive(r) PROVE AnswersOfKind(r)'
  BY <1>1, <1>2, <1>3, <1>4
     DEF Receive, ReceiveSlot, ReceiveCancel, ReceiveStatus, ResolveError
<1>5. ASSUME \/ ReadHours(r) \/ ReadConflicts(r) \/ Collide(r)
             \/ FindCandidates(r) \/ LookupRow(r) \/ Fail(r)
      PROVE  AnswersOfKind(r)'
  BY <1>1, <1>2, <1>3, <1>5
     DEF ReadHours, ReadConflicts, Collide, FindCandidates, LookupRow, Fail
<1>6. ASSUME InsertRow(r) PROVE AnswersOfKind(r)'
  <2>1. r \in Booker
    BY <1>6, InsertWrites
  <2>2. PICK ref \in Reference :
          answer'[r] \in {SaysRef("confirmed", ref), Says("server_error")}
    BY <1>6, InsertWrites
  <2> QED BY <2>1, <2>2 DEF AnswersOfKind, SaysRef, Says
<1>7. ASSUME UpdateRow(r) PROVE AnswersOfKind(r)'
  <2>1. appointment[target[r]] \in Row
    BY <1>7, UpdateWrites
  <2>2. appointment[target[r]].ref \in Reference
    BY <2>1 DEF Row
  <2>3. \/ answer'[r] = SaysRef(IF r \in Canceller THEN "cancelled"
                                                   ELSE "updated",
                                appointment[target[r]].ref)
        \/ answer'[r] = Says("server_error")
    BY <1>1, <1>7 DEF UpdateRow, Answer
  <2> QED BY <2>2, <2>3 DEF AnswersOfKind, SaysRef, Says
<1>8. CASE UNCHANGED <<pc, dto, answer, target, arrival>>
  BY <1>2, <1>8
<1>9. ASSUME NEW q \in Request, Receive(q) \/ Serve(q) \/ Fail(q),
             \A s \in Request : s # q => Same(s)
      PROVE  AnswersOfKind(r)'
  <2>1. CASE q = r
    BY <1>4, <1>5, <1>6, <1>7, <1>9, <2>1 DEF Serve
  <2>2. CASE q # r
    BY <1>2, <1>9, <2>2 DEF Same
  <2> QED BY <2>1, <2>2
<1> QED BY <1>8, <1>9, OneMoves

LEMMA AnswerStays ==
  ASSUME IInv, AInv, [Next]_vars, NEW q \in Request, answer[q] # NoAnswer
  PROVE  answer'[q] = answer[q]
<1>1. pc[q] = "done"
  BY DEF AInv, AnsweredAtEnd
<1> QED BY <1>1, OneMoves, Mover DEF Same

-----------------------------------------------------------------------------
(* What a run can rely on.                                                 *)

(* The first entry of a request's name is a tool call.                     *)
LEMMA RequestsOfTools ==
  ASSUME NEW q \in Booker \cup Canceller
  PROVE  q[1] \in Tool
BY ToolAssumption DEF Tool, PostTool

LEMMA BookedStays ==
  ASSUME IInv, [Next]_vars, NEW r \in Run, NEW ref, BookedFor(r, ref),
         \A t \in Tool : caller[t] = r => caller'[t] = r
  PROVE  BookedFor(r, ref)'
<1>1. PICK i \in Booker :
        /\ Exists(i)
        /\ appointment[i].ref = ref
        /\ appointment[i].business = Home
        /\ appointment[i].phone = PhoneOf[CallOf[r]]
        /\ caller[i[1]] = r
  BY DEF BookedFor
<1>2. caller'[i[1]] = r
  BY <1>1, RequestsOfTools
<1>3. /\ Exists(i)'
      /\ appointment'[i].ref = ref
      /\ appointment'[i].business = Home
      /\ appointment'[i].phone = PhoneOf[CallOf[r]]
  BY <1>1, RowsStay
<1> QED BY <1>2, <1>3 DEF BookedFor

LEMMA CancelledStays ==
  ASSUME IInv, AInv, [Next]_vars, NEW r \in Run, CancelledFor(r),
         \A t \in Tool : caller[t] = r => caller'[t] = r
  PROVE  CancelledFor(r)'
<1>1. PICK q \in Canceller : caller[q[1]] = r /\ answer[q].status = "cancelled"
  BY DEF CancelledFor
<1>2. caller'[q[1]] = r
  BY <1>1, RequestsOfTools
<1>3. answer'[q] = answer[q]
  BY <1>1, AnswerStays DEF Request, NoAnswer
<1> QED BY <1>1, <1>2, <1>3 DEF CancelledFor

(* A context that does not change goes on to fit, as long as no tool call  *)
(* of the run hears of a booking or an inquiry.                            *)
LEMMA ContextStays ==
  ASSUME Known, [Next]_vars, NEW r \in Run, ContextFits(r),
         ctx'[r] = ctx[r],
         \A t \in Tool : caller[t] = r => caller'[t] = r,
         Got(r, "confirmed")' = Got(r, "confirmed"),
         Got(r, "logged")' = Got(r, "logged"),
         filed \subseteq filed'
  PROVE  ContextFits(r)'
<1>1. ctx[r].booking # NoReference => BookedFor(r, ctx[r].booking)'
  BY BookedStays DEF ContextFits, Known
<1>2. ctx[r].cancelled # NoReference => CancelledFor(r)'
  BY CancelledStays DEF ContextFits, Known
<1> QED BY <1>1, <1>2 DEF ContextFits, BookedFor

(* A tool call's result stays, and one that has not been made has none.    *)
LEMMA GotStays ==
  ASSUME WaitingBlank, NEW r \in Run, NEW what, what # "none",
         \A t \in Tool :
           \/ result'[t] = result[t]
           \/ result[t] # what /\ result'[t] # what
           \/ caller[t] # r /\ caller'[t] # r,
         \A t \in Tool : caller'[t] = caller[t] \/ stage[t] = "idle"
  PROVE  Got(r, what)' = Got(r, what)
<1>1. ASSUME NEW t \in Tool
      PROVE  (caller'[t] = r /\ result'[t] = what)
               <=> (caller[t] = r /\ result[t] = what)
  BY DEF WaitingBlank, WaitsBlank
<1> QED BY <1>1 DEF Got

-----------------------------------------------------------------------------
(* What a step of a run and a step of a tool call may change.              *)

LEMMA RunEffects ==
  ASSUME CallVariableTypes, NEW r \in Run,
         \/ Start(r) \/ Proceed(r) \/ RecordTranscript(r) \/ Crash(r)
  PROVE  /\ UNCHANGED <<caller, result, filed>>
         /\ \A t \in Tool : stage'[t] = stage[t]
                            \/ (stage'[t] = "dropped" /\ Working(t))
         /\ ctx' = ctx \/ LookupAuthority(r)
         /\ \A q \in Run : phase[q] \in Finished => phase'[q] \in Finished
         /\ \A q \in Run : phase[q] \in {"live"} \cup Finished =>
                             phase'[q] \in {"live"} \cup Finished
<1>1. ASSUME DropTools(r)
      PROVE  \A t \in Tool : stage'[t] = stage[t]
                             \/ (stage'[t] = "dropped" /\ Working(t))
  BY <1>1 DEF DropTools, ToolsOf
<1>2. ASSUME NEW p, Move(r, p), phase[r] \notin Finished, phase[r] # "live"
      PROVE  /\ \A q \in Run : phase[q] \in Finished => phase'[q] \in Finished
             /\ \A q \in Run : phase[q] \in {"live"} \cup Finished =>
                                 phase'[q] \in {"live"} \cup Finished
  BY <1>2 DEF Move, CallVariableTypes
<1>3. ASSUME NEW p \in Finished, Move(r, p)
      PROVE  /\ \A q \in Run : phase[q] \in Finished => phase'[q] \in Finished
             /\ \A q \in Run : phase[q] \in {"live"} \cup Finished =>
                                 phase'[q] \in {"live"} \cup Finished
  BY <1>3 DEF Move, CallVariableTypes
<1>4. CASE End(r) \/ Crash(r)
  BY <1>1, <1>3, <1>4 DEF End, Crash, filing, Finished
<1>5. CASE LeaveTranscript(r) \/ EraseSession(r)
  BY <1>3, <1>5 DEF LeaveTranscript, EraseSession, filing, toolVars, Finished
<1>6. CASE LookupAuthority(r)
  <2>1. \E p : Move(r, p)
    BY <1>6 DEF LookupAuthority
  <2> QED BY <1>2, <1>6, <2>1 DEF LookupAuthority, filing, toolVars, Finished
<1>7. CASE Start(r) \/ GetSession(r) \/ CreateSession(r) \/ ExpireSession(r)
  BY <1>2, <1>7 DEF Start, GetSession, CreateSession, ExpireSession,
                    filing, toolVars, Finished
<1>8. CASE RecordTranscript(r)
  BY <1>8 DEF RecordTranscript, runVars, toolVars
<1> QED BY <1>4, <1>5, <1>6, <1>7, <1>8 DEF Proceed

LEMMA ToolEffects ==
  ASSUME CallTypeOK, NEW t \in Tool,
         Handle(t) \/ FileInquiry(t) \/ Interrupt(t)
  PROVE  /\ UNCHANGED <<phase, caller, mail, transcript>>
         /\ filed \subseteq filed'
         /\ \A u \in Tool \ {t} : stage'[u] = stage[u] /\ result'[u] = result[u]
         /\ result'[t] = result[t] \/ stage[t] = "post"
         /\ stage'[t] \in {"idle", "post"} =>
              stage'[t] = stage[t] /\ result'[t] = result[t]
         /\ \A q \in Run :
              ctx'[q] = ctx[q] \/ (q = caller[t] /\ phase[q] = "live")
<1>1. /\ CallVariableTypes
      /\ Working(t) => caller[t] \in Run /\ phase[caller[t]] = "live"
  BY DEF CallTypeOK, HandlerTypes, Working
<1>2. CASE FileInquiry(t)
  BY <1>1, <1>2 DEF FileInquiry, runVars, toolVars
<1>3. CASE TryAgain(t)
  BY <1>1, <1>3
     DEF TryAgain, Finish, CallBack, runVars, filing, CallVariableTypes
<1>4. CASE HearRefusal(t)
  BY <1>1, <1>4
     DEF HearRefusal, Finish, CallBack, runVars, filing, CallVariableTypes
<1>5. CASE HearSuccess(t)
  <2>1. Working(t)
    BY <1>5 DEF HearSuccess, Working
  <2>2. \A q \in Run \ {caller[t]} : ctx'[q] = ctx[q]
    BY <1>1, <1>5 DEF HearSuccess, CallVariableTypes
  <2> QED BY <1>1, <1>5, <2>1, <2>2
          DEF HearSuccess, GoOn, CallBack, filing, CallVariableTypes
<1>6. CASE HearLogged(t)
  <2>1. Working(t)
    BY <1>6 DEF HearLogged, Working
  <2>2. \A q \in Run \ {caller[t]} : ctx'[q] = ctx[q]
    BY <1>1, <1>6 DEF HearLogged, CallVariableTypes
  <2> QED BY <1>1, <1>6, <2>1, <2>2
          DEF HearLogged, Finish, CallBack, filing, CallVariableTypes
<1>7. CASE SaveSlot(t)
  BY <1>1, <1>7 DEF SaveSlot, CallBack, runVars, filing, CallVariableTypes
<1>8. CASE ExpireSlot(t) \/ ForgetSession(t)
  BY <1>1, <1>8
     DEF ExpireSlot, ForgetSession, CallBack, runVars, filing,
         CallVariableTypes
<1>9. CASE Interrupt(t)
  BY <1>1, <1>9 DEF Interrupt, Working, runVars, filing, CallVariableTypes
<1> QED BY <1>2, <1>3, <1>4, <1>5, <1>6, <1>7, <1>8, <1>9 DEF Handle

(* A step of the API, and an expiry, leaves the calls alone.               *)
LEMMA QuietEffects ==
  ASSUME \/ \E c \in Call : Lapse(c)
         \/ \E t \in PostTool, n \in 1 .. MaxAttempts : Deliver(t, n)
         \/ ApiStep
         \/ UNCHANGED allVars
  PROVE  UNCHANGED <<phase, ctx, caller, stage, result, filed, mail, transcript>>
BY DEF Lapse, Deliver, ApiStep, allVars, callVars, runVars, toolVars, filing

-----------------------------------------------------------------------------
(* The invariant is kept, part by part.                                    *)

LEMMA WaitingKept ==
  ASSUME CallTypeOK, WaitingBlank, [CallNext]_allVars
  PROVE  WaitingBlank'
<1> SUFFICES ASSUME NEW u \in Tool PROVE WaitsBlank(u)'
  BY DEF WaitingBlank
<1>1. WaitsBlank(u) /\ CallVariableTypes
  BY DEF WaitingBlank, CallTypeOK
<1>2. ASSUME NEW r \in Run,
             \/ Start(r) \/ Proceed(r) \/ RecordTranscript(r) \/ Crash(r)
      PROVE  WaitsBlank(u)'
  <2>1. /\ UNCHANGED <<caller, result>>
        /\ stage'[u] = stage[u] \/ stage'[u] = "dropped"
    BY <1>1, <1>2, RunEffects
  <2> QED BY <1>1, <2>1 DEF WaitsBlank
<1>3. ASSUME NEW r \in Run, NEW t \in Tool, Invoke(r, t)
      PROVE  WaitsBlank(u)'
  BY <1>1, <1>3 DEF Invoke, WaitsBlank, CallVariableTypes
<1>4. ASSUME NEW t \in Tool, Handle(t) \/ FileInquiry(t) \/ Interrupt(t)
      PROVE  WaitsBlank(u)'
  BY <1>1, <1>4, ToolEffects DEF WaitsBlank
<1>5. CASE UNCHANGED <<caller, stage, result>>
  BY <1>1, <1>5 DEF WaitsBlank
<1> QED BY <1>2, <1>3, <1>4, <1>5, QuietEffects DEF CallNext

LEMMA HearingKept ==
  ASSUME CallTypeOK, WaitingBlank, HearingFits, [CallNext]_allVars
  PROVE  HearingFits'
<1> SUFFICES ASSUME NEW u \in Tool PROVE HeardFits(u)'
  BY DEF HearingFits
<1>1. HeardFits(u) /\ WaitsBlank(u) /\ CallVariableTypes
  BY DEF HearingFits, WaitingBlank, CallTypeOK
<1>2. ASSUME NEW r \in Run,
             \/ Start(r) \/ Proceed(r) \/ RecordTranscript(r) \/ Crash(r)
      PROVE  HeardFits(u)'
  <2>1. /\ result' = result /\ heard' = heard
        /\ stage' = stage \/ DropTools(r)
    BY <1>2 DEF Start, Proceed, LookupAuthority, GetSession, CreateSession,
                ExpireSession, End, LeaveTranscript, EraseSession, Crash,
                RecordTranscript, runVars, toolVars
  <2>2. \/ stage'[u] = stage[u]
        \/ stage'[u] = "dropped" /\ stage[u] \notin {"idle", "done", "dropped"}
    BY <1>1, <2>1 DEF DropTools, ToolsOf, Working
  <2>3. result[u] = "logged" => stage'[u] = stage[u]
    BY <1>1, <2>2 DEF HeardFits
  <2> QED BY <1>1, <2>1, <2>2, <2>3 DEF HeardFits
<1>3. ASSUME NEW r \in Run, NEW t \in Tool, Invoke(r, t)
      PROVE  HeardFits(u)'
  BY <1>1, <1>3 DEF Invoke, HeardFits, WaitsBlank, CallVariableTypes
<1>4. ASSUME NEW t \in Tool, Handle(t) \/ FileInquiry(t) \/ Interrupt(t)
      PROVE  HeardFits(u)'
  <2>1. CASE u # t
    <3>1. stage'[u] = stage[u] /\ result'[u] = result[u]
      BY <1>4, <2>1, ToolEffects
    <3>2. heard'[u] = heard[u]
      BY <1>1, <1>4, <2>1
         DEF Handle, TryAgain, HearRefusal, HearSuccess, HearLogged, SaveSlot,
             ExpireSlot, ForgetSession, FileInquiry, Interrupt, Finish, CallBack,
             GoOn, toolVars, CallVariableTypes
    <3> QED BY <1>1, <3>1, <3>2 DEF HeardFits
  <2>2. ASSUME u = t, CallBack(t, result'[t]) PROVE HeardFits(u)'
    BY <1>1, <2>2 DEF CallBack, HeardFits, CallVariableTypes
  <2>3. CASE u = t /\ TryAgain(t)
    <3>1. CASE Finish(t, "backend_unavailable")
      <4>1. CallBack(t, result'[t])
        BY <1>1, <3>1 DEF Finish, CallVariableTypes
      <4> QED BY <2>2, <2>3, <4>1
    <3>2. CASE UNCHANGED <<stage, result, heard>>
      BY <1>1, <2>3, <3>2 DEF HeardFits
    <3> QED BY <2>3, <3>1, <3>2 DEF TryAgain
  <2>4. CASE u = t /\ (HearRefusal(t) \/ HearLogged(t))
    <3>1. \E h : Finish(t, h)
      BY <2>4 DEF HearRefusal, HearLogged
    <3>2. CallBack(t, result'[t])
      BY <1>1, <3>1 DEF Finish, CallVariableTypes
    <3> QED BY <2>2, <2>4, <3>2
  <2>5. CASE u = t /\ HearSuccess(t)
    <3>1. CASE t \in CancelTool
      BY <1>1, <2>2, <2>5, <3>1 DEF HearSuccess, GoOn, CallVariableTypes
    <3>2. CASE t \notin CancelTool
      <4>1. /\ stage[t] = "post" /\ heard' = heard
            /\ stage'[t] \in {"hset", "delete"}
            /\ result'[t] # "logged"
        BY <1>1, <2>5, <3>2 DEF HearSuccess, GoOn, CallVariableTypes
      <4> QED BY <1>1, <2>5, <4>1 DEF HeardFits
    <3> QED BY <3>1, <3>2
  <2>6. CASE u = t /\ (SaveSlot(t) \/ ExpireSlot(t) \/ ForgetSession(t))
    <3>1. \/ CallBack(t, result'[t])
          \/ /\ heard' = heard /\ result' = result
             /\ stage[t] = "hset" /\ stage'[t] = "expire"
      BY <1>1, <2>6
         DEF SaveSlot, ExpireSlot, ForgetSession, CallVariableTypes
    <3> QED BY <1>1, <2>2, <2>6, <3>1 DEF HeardFits
  <2>7. CASE u = t /\ (FileInquiry(t) \/ Interrupt(t))
    <3>1. /\ heard' = heard /\ result' = result
          /\ \/ stage'[t] = stage[t]
             \/ /\ stage[t] \notin {"idle", "done", "dropped"}
                /\ stage'[t] = "dropped"
      BY <1>1, <2>7
         DEF FileInquiry, Interrupt, Working, toolVars, CallVariableTypes
    <3> QED BY <1>1, <2>7, <3>1 DEF HeardFits
  <2> QED BY <1>4, <2>1, <2>3, <2>4, <2>5, <2>6, <2>7 DEF Handle
<1>5. CASE UNCHANGED <<stage, result, heard>>
  BY <1>1, <1>5 DEF HeardFits
<1>6. ASSUME \/ \E c \in Call : Lapse(c)
             \/ \E t \in PostTool, n \in 1 .. MaxAttempts : Deliver(t, n)
             \/ ApiStep
             \/ UNCHANGED allVars
      PROVE  UNCHANGED <<stage, result, heard>>
  BY <1>6 DEF Lapse, Deliver, ApiStep, allVars, callVars, runVars, toolVars
<1> QED BY <1>2, <1>3, <1>4, <1>5, <1>6 DEF CallNext

LEMMA MailKept ==
  ASSUME CallTypeOK, MailFinished, [CallNext]_allVars
  PROVE  MailFinished'
<1>1. CallVariableTypes
  BY DEF CallTypeOK
<1>2. ASSUME NEW r \in Run, End(r) PROVE MailFinished'
  BY <1>1, <1>2 DEF End, Move, MailFinished, Finished, CallVariableTypes
<1>3. ASSUME NEW r \in Run,
             \/ Start(r) \/ Proceed(r) \/ RecordTranscript(r) \/ Crash(r),
             ~End(r)
      PROVE  MailFinished'
  <2>1. mail' \subseteq mail
    BY <1>3 DEF Start, Proceed, RecordTranscript, Crash, LookupAuthority,
                GetSession, CreateSession, ExpireSession, LeaveTranscript,
                EraseSession, filing
  <2> QED BY <1>1, <1>3, <2>1, RunEffects DEF MailFinished, CallVariableTypes
<1>4. ASSUME NEW r \in Run, NEW t \in Tool, Invoke(r, t) PROVE MailFinished'
  BY <1>4 DEF Invoke, MailFinished, runVars, filing
<1>5. ASSUME NEW t \in Tool, Handle(t) \/ FileInquiry(t) \/ Interrupt(t)
      PROVE  MailFinished'
  BY <1>5, ToolEffects DEF MailFinished
<1>6. CASE UNCHANGED <<phase, mail>>
  BY <1>6 DEF MailFinished
<1> QED BY <1>2, <1>3, <1>4, <1>5, <1>6, QuietEffects DEF CallNext

(* The context of a run that has ended does not change.                    *)
LEMMA EndedStays ==
  ASSUME CallTypeOK, [CallNext]_allVars, NEW r \in Run, phase[r] \in Finished
  PROVE  phase'[r] \in Finished /\ ctx'[r] = ctx[r]
<1>1. CallVariableTypes
  BY DEF CallTypeOK
<1>2. ASSUME NEW q \in Run, LookupAuthority(q) PROVE ctx'[r] = ctx[r]
  <2>1. q # r
    BY <1>2 DEF LookupAuthority, Finished
  <2>2. \E x : ctx' = [ctx EXCEPT ![q] = x]
    BY <1>2 DEF LookupAuthority
  <2> QED BY <1>1, <2>1, <2>2 DEF CallVariableTypes
<1>3. ASSUME NEW q \in Run,
             \/ Start(q) \/ Proceed(q) \/ RecordTranscript(q) \/ Crash(q)
      PROVE  phase'[r] \in Finished /\ ctx'[r] = ctx[r]
  BY <1>1, <1>2, <1>3, RunEffects
<1>4. ASSUME NEW q \in Run, NEW t \in Tool, Invoke(q, t)
      PROVE  phase'[r] \in Finished /\ ctx'[r] = ctx[r]
  BY <1>4 DEF Invoke, runVars
<1>5. ASSUME NEW t \in Tool, Handle(t) \/ FileInquiry(t) \/ Interrupt(t)
      PROVE  phase'[r] \in Finished /\ ctx'[r] = ctx[r]
  BY <1>5, ToolEffects DEF Finished
<1>6. CASE UNCHANGED <<phase, ctx>>
  BY <1>6
<1> QED BY <1>3, <1>4, <1>5, <1>6, QuietEffects DEF CallNext

(* A record goes on to be that of a run that has ended.                    *)
LEMMA RecordsKept ==
  ASSUME CallTypeOK, MailFinished, RecordsOfEnded, [CallNext]_allVars
  PROVE  RecordsOfEnded'
<1> SUFFICES ASSUME NEW c \in Call PROVE RecordOfEnded(c)'
  BY DEF RecordsOfEnded
<1>1. RecordOfEnded(c) /\ CallVariableTypes
  BY DEF RecordsOfEnded, CallTypeOK
<1>2. ASSUME transcript'[c] = transcript[c] PROVE RecordOfEnded(c)'
  <2> SUFFICES ASSUME transcript[c] # NoTranscript PROVE RecordOfEnded(c)'
    BY <1>2 DEF RecordOfEnded
  <2> DEFINE r == transcript[c].run
  <2>1. /\ r \in Run
        /\ CallOf[r] = c
        /\ phase[r] \in Finished
        /\ transcript[c] = RecordOf(r)
    BY <1>1 DEF RecordOfEnded
  <2>2. phase'[r] \in Finished /\ ctx'[r] = ctx[r]
    BY <2>1, EndedStays
  <2> QED BY <1>2, <2>1, <2>2 DEF RecordOfEnded, RecordOf
<1>3. ASSUME NEW r \in Run, RecordTranscript(r), CallOf[r] = c
      PROVE  RecordOfEnded(c)'
  <2>1. phase'[r] \in Finished /\ UNCHANGED ctx
    BY <1>3 DEF RecordTranscript, MailFinished, runVars
  <2>2. transcript'[c] = RecordOf(r) \/ transcript'[c] = transcript[c]
    BY <1>1, <1>3 DEF RecordTranscript, CallVariableTypes
  <2>3. CASE transcript'[c] = RecordOf(r)
    BY <1>3, <2>1, <2>3 DEF RecordOfEnded, RecordOf
  <2> QED BY <1>2, <2>2, <2>3
<1>4. ASSUME NEW r \in Run, RecordTranscript(r), CallOf[r] # c
      PROVE  RecordOfEnded(c)'
  BY <1>1, <1>2, <1>4 DEF RecordTranscript, CallVariableTypes
<1>5. ASSUME NEW r \in Run, Start(r) \/ Proceed(r) \/ Crash(r)
      PROVE  RecordOfEnded(c)'
  <2>1. UNCHANGED transcript
    BY <1>5 DEF Start, Proceed, Crash, LookupAuthority, GetSession,
                CreateSession, ExpireSession, End, LeaveTranscript,
                EraseSession, filing
  <2> QED BY <1>2, <2>1
<1>6. ASSUME NEW r \in Run, NEW t \in Tool, Invoke(r, t)
      PROVE  RecordOfEnded(c)'
  BY <1>2, <1>6 DEF Invoke, filing
<1>7. ASSUME NEW t \in Tool, Handle(t) \/ FileInquiry(t) \/ Interrupt(t)
      PROVE  RecordOfEnded(c)'
  BY <1>2, <1>7, ToolEffects
<1> QED BY <1>2, <1>3, <1>4, <1>5, <1>6, <1>7, QuietEffects DEF CallNext

(* A tool call that waits for an answer is a live run's.                   *)
LEMMA HeardPost ==
  ASSUME Known, AnswerKinds, NEW t \in PostTool, stage[t] = "post"
  PROVE  /\ t \in Tool
         /\ tries[t] \in 1 .. MaxAttempts
         /\ caller[t] \in Run
         /\ phase[caller[t]] = "live"
         /\ <<t, tries[t]>> \in Request
         /\ AnswersOfKind(<<t, tries[t]>>)
<1>1. t \in Tool
  BY DEF Tool
<1>2. tries[t] \in 1 .. MaxAttempts
  BY <1>1, ToolAssumption
     DEF Known, CallTypeOK, CallVariableTypes, HandlerTypes
<1>3. caller[t] \in Run /\ phase[caller[t]] = "live"
  BY <1>1 DEF Known, CallTypeOK, HandlerTypes, Working
<1> QED BY <1>1, <1>2, <1>3, PostIsRequest DEF AnswerKinds

(* A confirmation means a row of the caller's own.                         *)
LEMMA ConfirmedIsBooked ==
  ASSUME Known, AnswerKinds, NEW t \in PostTool, stage[t] = "post",
         answer[<<t, tries[t]>>].status = "confirmed"
  PROVE  /\ answer[<<t, tries[t]>>].ref \in Reference
         /\ BookedFor(caller[t], answer[<<t, tries[t]>>].ref)
<1> DEFINE i == <<t, tries[t]>>
<1>1. i \in Booker /\ answer[i].ref \in Reference
  BY HeardPost DEF AnswersOfKind
<1>2. t \in BookTool
  BY <1>1, ToolAssumption
<1>3. Exists(i) /\ appointment[i].ref = answer[i].ref
  BY <1>1 DEF Known, AInv, ConfirmedExists
<1>4. /\ pc[i] = "done"
      /\ appointment[i].business = dto[i].business
      /\ appointment[i].phone = dto[i].phone
  BY <1>1, <1>3 DEF Known, IInv, Shape, RowsTheirRequests, AInv,
                    PhonesTheirRequests
<1>5. dto[i] = args[t]
  BY <1>4, HeardPost DEF Known, PostsCarry, PostCarries
<1>6. args[t] \in Payloads(caller[t], t)
  BY HeardPost DEF Known, CallTypeOK, HandlerTypes
<1>7. t \notin CheckTool
  <2>1. <<t, 1>> \in Booker
    BY <1>2, ToolAssumption
  <2> QED BY <2>1, ToolAssumption, RequestAssumption
<1>8. args[t].business = Home /\ args[t].phone = PhoneOf[CallOf[caller[t]]]
  BY <1>2, <1>6, <1>7 DEF Payloads
<1> QED BY <1>1, <1>3, <1>4, <1>5, <1>8 DEF BookedFor

(* An answer of the API that a tool call hears fits what the API has done. *)
LEMMA HearSuccessFits ==
  ASSUME Known, RInv, NEW t \in Tool, HearSuccess(t), NEW r \in Run
  PROVE  RunFits(r)'
<1> DEFINE q == <<t, tries[t]>>
           a == answer[q]
<1>1. /\ t \in PostTool
      /\ stage[t] = "post"
      /\ result[t] = "none"
      /\ UNCHANGED <<vars, phase, caller, filed>>
      /\ result'[t] = a.status
      /\ \A u \in Tool \ {t} : result'[u] = result[u]
  BY DEF HearSuccess, RInv, WaitingBlank, WaitsBlank, filing,
         Known, CallTypeOK, CallVariableTypes
<1>2. [Next]_vars
  BY <1>1
<1>3. RunFits(r) /\ WaitingBlank /\ AnswerKinds
  BY DEF RInv, RunsFit
<1>4. /\ ctx \in [Run -> Contexts]
      /\ a.status \in {"available", "unavailable", "confirmed", "cancelled"}
      /\ caller[t] \in Run
  BY <1>1, <1>3, HeardPost
     DEF HearSuccess, Known, CallTypeOK, CallVariableTypes
<1>5. Got(r, "logged")' = Got(r, "logged")
  BY <1>1, <1>3, <1>4, GotStays
<1>6. ASSUME caller[t] # r \/ a.status # "confirmed"
      PROVE  Got(r, "confirmed")' = Got(r, "confirmed")
  BY <1>1, <1>3, <1>4, <1>6, GotStays
<1>7. CASE ctx'[r] = ctx[r] /\ (caller[t] # r \/ a.status # "confirmed")
  <2>1. ContextFits(r)'
    BY <1>1, <1>2, <1>3, <1>5, <1>6, <1>7, ContextStays DEF RunFits
  <2> QED BY <1>1, <1>3, <1>7, <2>1 DEF RunFits, CallsOnlyLive
<1>8. CASE caller[t] = r /\ a.status = "confirmed"
  <2>1. a.ref \in Reference /\ BookedFor(r, a.ref)
    BY <1>1, <1>3, <1>8, ConfirmedIsBooked
  <2>2. ctx'[r] = [ctx[r] EXCEPT !.booking = a.ref]
    BY <1>4, <1>8 DEF HearSuccess
  <2>3. t \in Got(r, "confirmed")'
    BY <1>1, <1>8 DEF Got
  <2>4. PICK ref : ref = a.ref /\ BookedFor(r, ref)'
    <3>1. PICK ref : ref = a.ref
      OBVIOUS
    <3>2. BookedFor(r, ref)
      BY <2>1, <3>1
    <3>3. BookedFor(r, ref)'
      BY <1>1, <1>2, <3>2, BookedStays DEF Known
    <3> QED BY <3>1, <3>3
  <2>5. ctx[r].cancelled # NoReference => CancelledFor(r)'
    BY <1>1, <1>2, <1>3, CancelledStays DEF Known, RunFits, ContextFits
  <2>6. /\ ctx'[r].booking = ref
        /\ ctx'[r].cancelled = ctx[r].cancelled
        /\ ctx'[r].inquiry = ctx[r].inquiry
        /\ ctx'[r].authority = ctx[r].authority
    BY <1>4, <2>2, <2>4 DEF Contexts
  <2>7. ContextFits(r)'
    BY <1>1, <1>3, <1>5, <2>1, <2>3, <2>4, <2>5, <2>6, ReferenceAssumption
       DEF ContextFits, RunFits, BookedFor
  <2> QED BY <1>1, <1>3, <2>6, <2>7 DEF RunFits, CallsOnlyLive
<1>9. CASE caller[t] = r /\ a.status = "cancelled"
  <2>1. q \in Canceller /\ a.ref \in Reference
    BY <1>1, <1>3, <1>9, HeardPost DEF AnswersOfKind
  <2>2. ctx'[r] = [ctx[r] EXCEPT !.cancelled = a.ref]
    BY <1>4, <1>9 DEF HearSuccess
  <2>3. CancelledFor(r)
    BY <1>9, <2>1 DEF CancelledFor
  <2>4. CancelledFor(r)'
    BY <1>1, <1>2, <2>3, CancelledStays DEF Known
  <2>5. PICK ref : /\ ref = ctx[r].booking
                   /\ ref # NoReference => BookedFor(r, ref)'
    <3>1. PICK ref : ref = ctx[r].booking
      OBVIOUS
    <3>2. ref # NoReference => BookedFor(r, ref)
      BY <1>3, <3>1 DEF RunFits, ContextFits
    <3>3. ref # NoReference => BookedFor(r, ref)'
      BY <1>1, <1>2, <3>2, BookedStays DEF Known
    <3> QED BY <3>1, <3>3
  <2>6. /\ ctx'[r].booking = ctx[r].booking
        /\ ctx'[r].inquiry = ctx[r].inquiry
        /\ ctx'[r].authority = ctx[r].authority
    BY <1>4, <2>2 DEF Contexts
  <2>7. ContextFits(r)'
    <3>1. ctx'[r].booking # NoReference => BookedFor(r, ctx[r].booking)'
      <4> SUFFICES ASSUME ref # NoReference PROVE BookedFor(r, ctx[r].booking)'
        BY <2>5, <2>6
      <4>1. ref = ctx'[r].booking
        BY <2>5, <2>6
      <4>2. BookedFor(r, ref)'
        BY <2>5
      <4> QED BY <4>1, <4>2 DEF BookedFor
    <3>2. ctx'[r].booking # NoReference <=> Got(r, "confirmed")' # {}
      BY <1>3, <1>6, <1>9, <2>6 DEF RunFits, ContextFits
    <3>3. /\ ctx'[r].inquiry => Got(r, "logged")' # {}
          /\ Got(r, "logged")' \subseteq filed'
      BY <1>1, <1>3, <1>5, <2>6 DEF RunFits, ContextFits
    <3> QED BY <2>4, <3>1, <3>2, <3>3 DEF ContextFits
  <2> QED BY <1>1, <1>3, <2>6, <2>7 DEF RunFits, CallsOnlyLive
<1>10. ctx'[r] = ctx[r] \/ (caller[t] = r /\ a.status \in {"confirmed", "cancelled"})
  BY <1>4 DEF HearSuccess
<1> QED BY <1>7, <1>8, <1>9, <1>10

(* A handler takes an inquiry for logged when the API has filed it.        *)
LEMMA HearLoggedFits ==
  ASSUME Known, RInv, NEW t \in Tool, HearLogged(t), NEW r \in Run
  PROVE  RunFits(r)'
<1>1. /\ t \in filed
      /\ result[t] = "none"
      /\ UNCHANGED <<vars, phase, caller, filed>>
      /\ result'[t] = "logged"
      /\ \A u \in Tool \ {t} : result'[u] = result[u]
  BY DEF HearLogged, Finish, CallBack, RInv, WaitingBlank, WaitsBlank, filing,
         Known, CallTypeOK, CallVariableTypes
<1>2. [Next]_vars
  BY <1>1
<1>3. RunFits(r) /\ WaitingBlank
  BY DEF RInv, RunsFit
<1>4. ctx \in [Run -> Contexts] /\ caller[t] \in Run
  BY DEF HearLogged, Known, CallTypeOK, CallVariableTypes, HandlerTypes
<1>5. Got(r, "confirmed")' = Got(r, "confirmed")
  BY <1>1, <1>3, GotStays
<1>6. CASE caller[t] # r
  <2>1. ctx'[r] = ctx[r]
    BY <1>4, <1>6 DEF HearLogged
  <2>2. Got(r, "logged")' = Got(r, "logged")
    BY <1>1, <1>3, <1>6, GotStays
  <2>3. ContextFits(r)'
    BY <1>1, <1>2, <1>3, <1>5, <2>1, <2>2, ContextStays DEF RunFits
  <2> QED BY <1>1, <1>3, <2>1, <2>3 DEF RunFits, CallsOnlyLive
<1>7. CASE caller[t] = r
  <2>1. ctx'[r] = [ctx[r] EXCEPT !.inquiry = TRUE]
    BY <1>4, <1>7 DEF HearLogged
  <2>2. Got(r, "logged")' = Got(r, "logged") \cup {t}
    BY <1>1, <1>7 DEF Got
  <2>3. /\ ctx'[r].booking = ctx[r].booking
        /\ ctx'[r].cancelled = ctx[r].cancelled
        /\ ctx'[r].authority = ctx[r].authority
    BY <1>4, <2>1 DEF Contexts
  <2>4. PICK ref : /\ ref = ctx[r].booking
                   /\ ref # NoReference => BookedFor(r, ref)'
    <3>1. PICK ref : ref = ctx[r].booking
      OBVIOUS
    <3>2. ref # NoReference => BookedFor(r, ref)
      BY <1>3, <3>1 DEF RunFits, ContextFits
    <3>3. ref # NoReference => BookedFor(r, ref)'
      BY <1>1, <1>2, <3>2, BookedStays DEF Known
    <3> QED BY <3>1, <3>3
  <2>5. ctx[r].cancelled # NoReference => CancelledFor(r)'
    BY <1>1, <1>2, <1>3, CancelledStays DEF Known, RunFits, ContextFits
  <2>6. ContextFits(r)'
    <3>1. ctx'[r].booking # NoReference => BookedFor(r, ctx[r].booking)'
      <4> SUFFICES ASSUME ref # NoReference PROVE BookedFor(r, ctx[r].booking)'
        BY <2>3, <2>4
      <4>1. ref = ctx'[r].booking
        BY <2>3, <2>4
      <4>2. BookedFor(r, ref)'
        BY <2>4
      <4> QED BY <4>1, <4>2 DEF BookedFor
    <3>2. ctx'[r].booking # NoReference <=> Got(r, "confirmed")' # {}
      BY <1>3, <1>5, <2>3 DEF RunFits, ContextFits
    <3>3. /\ Got(r, "logged")' # {}
          /\ Got(r, "logged")' \subseteq filed'
      BY <1>1, <1>3, <2>2 DEF RunFits, ContextFits
    <3>4. ctx'[r].cancelled # NoReference => CancelledFor(r)'
      BY <2>3, <2>5
    <3> QED BY <3>1, <3>2, <3>3, <3>4 DEF ContextFits
  <2> QED BY <1>1, <1>3, <2>3, <2>6 DEF RunFits, CallsOnlyLive
<1> QED BY <1>6, <1>7

(* A tool call keeps its run, and a new one was not of any run.            *)
LEMMA CallersStay ==
  ASSUME CallTypeOK, WaitingBlank, [CallNext]_allVars
  PROVE  \A t \in Tool : caller'[t] = caller[t]
                         \/ (stage[t] = "idle" /\ caller[t] = Nobody)
<1>1. CallVariableTypes
  BY DEF CallTypeOK
<1>2. ASSUME NEW r \in Run, NEW t \in Tool, Invoke(r, t), NEW u \in Tool
      PROVE  caller'[u] = caller[u] \/ (stage[u] = "idle" /\ caller[u] = Nobody)
  <2>1. CASE u = t
    BY <1>2, <2>1 DEF Invoke, WaitingBlank, WaitsBlank
  <2>2. CASE u # t
    BY <1>1, <1>2, <2>2 DEF Invoke, CallVariableTypes
  <2> QED BY <2>1, <2>2
<1> QED BY <1>1, <1>2, RunEffects, ToolEffects, QuietEffects DEF CallNext

(* A step that leaves a run's context and its tool calls' results keeps      *)
(* them fit.                                                               *)
LEMMA SameRunFits ==
  ASSUME Known, RInv, [CallNext]_allVars, NEW r \in Run,
         ctx'[r] = ctx[r],
         phase[r] \in {"live"} \cup Finished =>
           phase'[r] \in {"live"} \cup Finished,
         filed \subseteq filed',
         \A t \in Tool :
           \/ result'[t] = result[t]
           \/ /\ result[t] = "none"
              /\ result'[t] \notin {"confirmed", "logged"},
         \A t \in Tool : caller'[t] = r /\ caller[t] # r =>
           phase'[r] = "live" /\ ~ctx[r].authority
  PROVE  RunFits(r)'
<1>1. RunFits(r) /\ WaitingBlank /\ CallTypeOK
  BY DEF RInv, RunsFit, Known
<1>2. \A t \in Tool : caller'[t] = caller[t]
                      \/ (stage[t] = "idle" /\ caller[t] = Nobody)
  BY <1>1, CallersStay
<1>3. ASSUME NEW what \in {"confirmed", "logged"}
      PROVE  Got(r, what)' = Got(r, what)
  BY <1>1, <1>2, <1>3, GotStays
<1>4. \A t \in Tool : caller[t] = r => caller'[t] = r
  BY <1>2, CallAssumption
<1>5. ContextFits(r)'
  BY <1>1, <1>3, <1>4, CallNextIsApi, ContextStays DEF RunFits
<1>6. CallsOnlyLive(r)'
  BY <1>1 DEF RunFits, CallsOnlyLive
<1> QED BY <1>5, <1>6 DEF RunFits

(* Before the lookup of its caller a run has made no tool call.            *)
LEMMA LookupFits ==
  ASSUME Known, RInv, NEW r \in Run, LookupAuthority(r)
  PROVE  RunFits(r)'
<1>1. RunFits(r) /\ CallVariableTypes
  BY DEF RInv, RunsFit, Known, CallTypeOK
<1>2. \A t \in Tool : caller[t] # r
  BY <1>1 DEF LookupAuthority, RunFits, CallsOnlyLive, Finished
<1>3. UNCHANGED <<caller, result, filed>>
  BY DEF LookupAuthority, toolVars, filing
<1>4. Got(r, "confirmed") = {} /\ Got(r, "logged") = {}
  BY <1>2 DEF Got
<1>5. Got(r, "confirmed")' = {} /\ Got(r, "logged")' = {}
  BY <1>2, <1>3 DEF Got
<1>6. ~CancelledFor(r)
  BY <1>2, RequestsOfTools DEF CancelledFor
<1>7. /\ ctx[r].booking = NoReference
      /\ ctx[r].cancelled = NoReference
      /\ ~ctx[r].inquiry
  BY <1>1, <1>4, <1>6 DEF RunFits, ContextFits
<1>8. PICK known \in BOOLEAN : ctx' = [ctx EXCEPT ![r].authority = known]
  BY DEF LookupAuthority
<1>9. /\ ctx'[r].booking = NoReference
      /\ ctx'[r].cancelled = NoReference
      /\ ~ctx'[r].inquiry
  <2>1. ctx'[r] = [ctx[r] EXCEPT !.authority = known]
    BY <1>1, <1>8 DEF CallVariableTypes
  <2> QED BY <1>1, <1>7, <2>1 DEF CallVariableTypes, Contexts
<1>10. ContextFits(r)'
  BY <1>5, <1>9 DEF ContextFits
<1>11. CallsOnlyLive(r)'
  BY <1>2, <1>3 DEF CallsOnlyLive
<1> QED BY <1>10, <1>11 DEF RunFits

(* Every step keeps every run's context fit.                               *)
LEMMA RunsFitKept ==
  ASSUME Known, RInv, [CallNext]_allVars
  PROVE  RunsFit'
<1> SUFFICES ASSUME NEW r \in Run PROVE RunFits(r)'
  BY DEF RunsFit
<1>1. CallTypeOK /\ CallVariableTypes /\ WaitingBlank
  BY DEF Known, CallTypeOK, RInv
<1>2. ASSUME NEW q \in Run,
             \/ Start(q) \/ Proceed(q) \/ RecordTranscript(q) \/ Crash(q)
      PROVE  RunFits(r)'
  <2>1. CASE ctx'[r] = ctx[r]
    <3>1. UNCHANGED <<caller, result, filed>>
      BY <1>1, <1>2, RunEffects
    <3>2. phase[r] \in {"live"} \cup Finished =>
            phase'[r] \in {"live"} \cup Finished
      BY <1>1, <1>2, RunEffects
    <3> QED BY <2>1, <3>1, <3>2, SameRunFits
  <2>2. CASE LookupAuthority(q) /\ q = r
    BY <2>2, LookupFits
  <2>3. CASE LookupAuthority(q) /\ q # r
    <3>1. \E x : ctx' = [ctx EXCEPT ![q] = x]
      BY <2>3 DEF LookupAuthority
    <3> QED BY <1>1, <2>1, <2>3, <3>1 DEF CallVariableTypes
  <2> QED BY <1>1, <1>2, <2>1, <2>2, <2>3, RunEffects
<1>3. ASSUME NEW q \in Run, NEW t \in Tool, Invoke(q, t)
      PROVE  RunFits(r)'
  <2>1. UNCHANGED <<phase, ctx, result, filed>>
    BY <1>3 DEF Invoke, runVars, filing
  <2>2. \A u \in Tool : caller'[u] = r /\ caller[u] # r =>
          phase[r] = "live" /\ ~ctx[r].authority
    BY <1>1, <1>3 DEF Invoke, CallVariableTypes
  <2> QED BY <2>1, <2>2, SameRunFits
<1>4. ASSUME NEW t \in Tool, Handle(t) \/ FileInquiry(t) \/ Interrupt(t)
      PROVE  RunFits(r)'
  <2>1. CASE HearSuccess(t)
    BY <2>1, HearSuccessFits
  <2>2. CASE HearLogged(t)
    BY <2>2, HearLoggedFits
  <2>3. CASE \/ TryAgain(t) \/ HearRefusal(t) \/ SaveSlot(t)
             \/ ExpireSlot(t) \/ ForgetSession(t)
             \/ FileInquiry(t) \/ Interrupt(t)
    <3>1. UNCHANGED <<phase, caller>> /\ filed \subseteq filed'
      BY <1>1, <1>4, ToolEffects
    <3>2. UNCHANGED ctx
      BY <2>3 DEF TryAgain, HearRefusal, SaveSlot, ExpireSlot,
                  ForgetSession, FileInquiry, Interrupt, runVars
    <3>3. \/ result'[t] = result[t]
          \/ result[t] = "none" /\ result'[t] \notin {"confirmed", "logged"}
      <4>1. CASE TryAgain(t) \/ HearRefusal(t)
        <5>1. result[t] = "none"
          BY <1>1, <4>1 DEF TryAgain, HearRefusal, WaitingBlank, WaitsBlank
        <5>2. \/ result' = result
              \/ result'[t] \in KnownCodes \cup {"backend_unavailable"}
          BY <1>1, <4>1 DEF TryAgain, HearRefusal, Finish, CallBack, CallVariableTypes
        <5> QED BY <5>1, <5>2 DEF KnownCodes
      <4>2. CASE ~(TryAgain(t) \/ HearRefusal(t))
        BY <2>3, <4>2 DEF SaveSlot, ExpireSlot, ForgetSession, FileInquiry,
                          Interrupt, toolVars
      <4> QED BY <4>1, <4>2
    <3>4. \A u \in Tool \ {t} : result'[u] = result[u]
      BY <1>1, <1>4, ToolEffects
    <3> QED BY <3>1, <3>2, <3>3, <3>4, SameRunFits
  <2> QED BY <1>4, <2>1, <2>2, <2>3 DEF Handle
<1>5. CASE UNCHANGED <<phase, ctx, caller, result, filed>>
  BY <1>5, SameRunFits
<1> QED BY <1>2, <1>3, <1>4, <1>5, QuietEffects DEF CallNext

-----------------------------------------------------------------------------
(* The records.                                                            *)

LEMMA CallInitFits == CallInit => RInv
<1> SUFFICES ASSUME CallInit PROVE RInv
  OBVIOUS
<1>1. AnswerKinds
  BY DEF CallInit, Init, AnswerKinds, AnswersOfKind, NoAnswer
<1>2. WaitingBlank /\ HearingFits /\ MailFinished /\ RecordsOfEnded
  BY DEF CallInit, ToolInit, WaitingBlank, WaitsBlank, HearingFits, HeardFits,
         MailFinished, RecordsOfEnded, RecordOfEnded
<1>3. ASSUME NEW r \in Run PROVE RunFits(r)
  <2>1. \A t \in Tool : caller[t] # r
    BY CallAssumption DEF CallInit, ToolInit
  <2>2. ctx[r] = Fresh
    BY DEF CallInit
  <2> QED BY <2>1, <2>2 DEF RunFits, ContextFits, CallsOnlyLive, Got, Fresh
<1> QED BY <1>1, <1>2, <1>3 DEF RInv, RunsFit

LEMMA RInvKept ==
  ASSUME Known, RInv, [CallNext]_allVars
  PROVE  RInv'
<1>1. AnswerKinds'
  BY CallNextIsApi, AnswerKindsKept DEF Known, RInv
<1>2. /\ WaitingBlank' /\ HearingFits'
      /\ MailFinished' /\ RecordsOfEnded'
  BY WaitingKept, HearingKept, MailKept, RecordsKept DEF Known, RInv
<1> QED BY <1>1, <1>2, RunsFitKept DEF RInv

(* A finished run's fitting context makes a true record.                   *)
LEMMA RecordsTold == CallTypeOK /\ RInv => RecordsTrue
<1> SUFFICES ASSUME CallTypeOK, RInv,
                    NEW c \in Call, transcript[c] # NoTranscript
             PROVE  RecordTrue(c)
  BY DEF RecordsTrue
<1> DEFINE r == transcript[c].run
<1>1. r \in Run /\ CallOf[r] = c /\ transcript[c] = RecordOf(r)
  BY DEF RInv, RecordsOfEnded, RecordOfEnded
<1>2. ContextFits(r) /\ CallsOnlyLive(r)
  BY <1>1 DEF RInv, RunsFit, RunFits
<1>3. transcript[c].outcome = OutcomeOf(ctx[r])
  BY <1>1 DEF RecordOf
<1>4. ctx[r].authority \in BOOLEAN
  BY <1>1 DEF CallTypeOK, CallVariableTypes, Contexts
<1>5. ctx[r].authority => Got(r, "confirmed") = {}
  BY <1>2 DEF CallsOnlyLive, Got
<1>6. transcript[c].outcome = "BOOKED" <=> ctx[r].booking # NoReference
  BY <1>2, <1>3, <1>4, <1>5 DEF OutcomeOf, ContextFits
<1>7. transcript[c].outcome = "BOOKED" <=> Got(r, "confirmed") # {}
  BY <1>2, <1>6 DEF ContextFits
<1>8. ASSUME transcript[c].outcome = "BOOKED"
      PROVE  \E i \in Existing :
               /\ appointment[i].ref = transcript[c].ref
               /\ appointment[i].business = Home
               /\ appointment[i].phone = PhoneOf[c]
               /\ caller[i[1]] = r
  <2>1. transcript[c].ref = ctx[r].booking
    BY <1>1, <1>3, <1>8 DEF RecordOf
  <2>2. BookedFor(r, ctx[r].booking)
    BY <1>2, <1>6, <1>8 DEF ContextFits
  <2> QED BY <1>1, <2>1, <2>2 DEF BookedFor, Existing
<1>9. transcript[c].outcome = "CANCELLED" => CancelledFor(r)
  BY <1>2, <1>3 DEF OutcomeOf, ContextFits
<1>10. transcript[c].outcome = "INQUIRY" =>
         /\ Told(r, "logged") # {}
         /\ Told(r, "logged") \subseteq filed
  <2>1. transcript[c].outcome = "INQUIRY" =>
          Got(r, "logged") \subseteq filed /\ Got(r, "logged") # {}
    BY <1>2, <1>3, <1>4 DEF OutcomeOf, ContextFits
  <2>2. Told(r, "logged") = Got(r, "logged")
    BY DEF Told, Got, RInv, HearingFits, HeardFits
  <2> QED BY <2>1, <2>2
<1>11. ASSUME NEW t \in Got(r, "confirmed") \ Told(r, "confirmed")
       PROVE  stage[t] = "dropped"
  <2>1. t \in Tool /\ caller[t] = r /\ heard[t] # result[t]
    BY <1>11 DEF Got, Told
  <2>2. stage[t] # "done"
    BY <2>1 DEF RInv, HearingFits, HeardFits
  <2>3. stage[t] # "idle"
    BY <1>1, <2>1, CallAssumption DEF RInv, WaitingBlank, WaitsBlank
  <2>4. phase[r] # "live"
    BY <1>1 DEF RInv, RecordsOfEnded, RecordOfEnded, Finished
  <2> QED BY <2>1, <2>2, <2>3, <2>4 DEF CallTypeOK, HandlerTypes, Working
<1> QED BY <1>7, <1>8, <1>9, <1>10, <1>11 DEF RecordTrue, CancelledFor

(* What a transcript's record says of its call is what the run did, for    *)
(* every number of runs, calls, retries and overlaps (RecordsTrue).        *)
THEOREM RecordsCorrect == CallSpec => []RecordsTrue
<1>1. CallInit => RInv
  BY CallInitFits
<1>2. IInv /\ AInv /\ CallTypeOK /\ PostsCarry /\ RInv /\ [CallNext]_allVars
        => RInv'
  BY RInvKept DEF Known
<1>3. CallTypeOK /\ RInv => RecordsTrue
  BY RecordsTold
<1> QED BY <1>1, <1>2, <1>3, CallsRunOnApi, AnswersInductive,
           CallTypeCorrect, PostsCarried, PTL DEF CallSpec
=============================================================================
