# Sahei in TLA+

Sahei answers the phone of a small business in Malayalam.  A voice agent
(Python, Pipecat) talks to the caller, books and cancels appointments through
an HTTP API (NestJS, Prisma, PostgreSQL), and a dashboard (Next.js) lets the
business follow what happened.  These modules model the parts of the program
that keep state, check them with TLC on small instances and prove the most
important facts with TLAPS for all instances.

## The system

| Component | State | Operations | Talks to |
|---|---|---|---|
| Booking API (`apps/api/src/modules/booking`) | none of its own | check-availability, book-appointment, cancel, log-inquiry | appointments, hours, services, profiles |
| Appointments (`modules/appointments`) | rows of `appointments`, unique `bookingReference` | create, findActiveByPhone, cancel, updateStatusForOrg | PostgreSQL |
| Opening hours (`modules/business-hours`) | rows of `business_hours`, one per business and weekday | upsertForDay | PostgreSQL |
| Service catalogue (`modules/services`) | rows of `services`, seeded | findByBusinessId | PostgreSQL |
| Business profile (`modules/business-profile`) | one row per organization, its authority numbers | upsert from the dashboard: a sequence of statements | hours |
| Call transcripts (`modules/call-transcripts`) | one row per call id | create (an upsert), list | PostgreSQL |
| Phone numbers, Exotel (`modules/phone-numbers`, `modules/exotel`) | the organization's number: provisioning, routing and verification status | provision, status, verifyForwarding | Exotel |
| Organization (`modules/organizations`) | plan | setPlan, getOnboardingStatus | PostgreSQL |
| Authority callers (`modules/authority-caller`) | reads only | lookup, listAppointments | PostgreSQL |
| Analytics (`modules/analytics`) | reads only | getSummary | PostgreSQL |
| Call session (`voice-service/bot.py`, `session_store.py`) | one `run_bot` per WebSocket, a hash in Redis per call | start, rehydrate, tool calls, end | Redis, the API, Exotel |
| Tools (`voice-service/tools.py`) | booking reference, cancelled reference and inquiry flag of the call | check, book, cancel, log; two attempts per POST | the API |
| Scripts (`prisma/seed.ts`, `create-test-account.ts`, `set-test-account-plan-and-number.ts`) | rows of a development database | run, run again | PostgreSQL |
| Sign-in and sign-up pages, `proxy.ts` | the browser's session, shared by its tabs | sign up, sign in, choose an organization, enter the dashboard | better-auth, the API |
| Onboarding wizard (`client/src/app/org/new`) | step, form, number shown | create the organization, save, choose a plan, ask for a number | better-auth, the API |
| Bookings page (`client/src/app/dashboard/bookings`) | filters, list, dialog, requests under way | load, load more, filter, change a status | the API |
| Calls and analytics pages | rows, charts, chosen range | load, retry, select | the API |
| Settings page | form, flags of its save | load, edit, save, leave | the API |

Every handler of the API is an `async` function over separate database calls:
no transaction except one (`replaceAuthorityNumbers`), no lock, and one unique
constraint that the booking code relies on (`bookingReference`).  So two
requests interleave at every `await`, and a failure may fall between any two
statements, or between a commit and its answer.  The agent retries a POST that
timed out, and may run twice for one call id when a WebSocket is cut.

What makes each part correct, and which property says so where one does:

- bookings: successive bookings of a business never overlap
  (`SuccessiveBookingsKeptApart`); a reference names one appointment, the
  caller's (`ReferenceFindsBooking`); a caller who is refused has no row and one
  who is confirmed has his (`ImplementsBook`); the retry loop ends
  (`ServiceEnds`, `EveryRequestAnswered`);
- cancellations: they hit the caller's own, upcoming appointment on the day he
  named (`CancelHitsCallersUpcoming`) and last (`CancelledStaysCancelled`);
- statuses: only the customer or the organization of a row moves it
  (`OnlyOwnerMovesStatus`);
- the call: what the agent records of a call is what its run read of the API's
  answers and what the API did for it (`RecordsTrue`); a retry that reaches the
  API after the first attempt has booked does not book again (`RetryBooksOnce`);
  no session outlives its call (`NothingLeftBehind`, `SessionsExpire`,
  `SessionsForgotten`);
- onboarding: a save that met no other is stored whole, whatever failed before
  (`LoneSaveIsWhole`); an organization has one number, and a bought one stays
  bought, unless two writers overlapped (`TwoRowsOnlyOverlapping`,
  `PurchasesStay`); a verified number had a call recorded after the check was
  first asked for (`VerifiedByACall`); who is let into the dashboard is set up
  (`DashboardMeansComplete`); later steps of the wizard find the earlier ones
  stored (`StepsInOrder`); a tab that waits for this API, not for better-auth,
  has a request under way or answered (`WaitingIsAnswered`);
- scripts: they complete the test account in any order and after any deaths
  (`DemoReady`) and keep what was edited (`EditsStay`);
- bookings page: in a list of the table as it stands each row is of what the
  filter gives and where its time belongs (`ListIsCurrent`), of the chosen
  filter and no other (`RowsMatchFilter`), one section to a day
  (`OneSectionPerDay`); the skeleton means that something loads
  (`SkeletonIsLoading`);
- calls and analytics: the sections keep the order (`CallsInOrder`), the chart's
  points and the calls of a later day add up to its total (`VolumeAddsUp`),
  charts are of the chosen range (`ChartsFollowRange`);
- settings: what is shown as saved is stored, but for what another save has
  stored since (`SavedIsStored`), what does not count as edited is unedited
  (`CleanIsUntouched`), edits are not lost unasked (`EditsGoKnowingly`).

Most of these are claims with exceptions, as the code gives no more.  They are
part of the properties and named where they are stated: bookings that arrive
together, 05:30 and revivals in `SuccessiveBookingsKeptApart`; attempts that
overlap in the API in `RetryBooksOnce`; torn upserts in `SessionsExpire` and
`SessionsForgotten`; overlapping saves in `LoneSaveIsWhole`; overlapping writers
of a number in `TwoRowsOnlyOverlapping`, `PurchasesStay` and
`DashboardMeansComplete`; another tab's change of organization in
`StepsInOrder`; lists of several states in `RowsMatchFilter` and
`OneSectionPerDay`; logging between two queries in `VolumeAddsUp`; data taken
away for nothing in `SkeletonIsLoading` and `ChartsFollowRange`; edits that an
answer crosses in the three of the settings.  What happens in an excepted case
is in the model, and said below when it looks like a defect.

## Modules

| Module | What it is |
|---|---|
| `Calendar` | the time arithmetic of `booking.service.ts`: slots, weekdays, UTC days, ranges of a date hint |
| `AppointmentBook` | abstract specification: a book of appointments and what each caller knows |
| `Booking` | the API: requests as processes, database calls as steps |
| `VoiceCall` | runs of the voice agent, their Redis session, tools and transcripts, over the requests of `Booking` |
| `DashboardApi` | requests of the web client: session, `SessionGuard`, answers, failures |
| `Profile` | saves of the business profile |
| `PhoneNumbers` | the organization's number: `provision`, `me`, `verify`, staff, and the calls on it |
| `Organization` | plan, membership, the onboarding status |
| `Pages`, `Wizard` | tabs of the browser: sign-in, sign-up, `proxy.ts`; the wizard's steps |
| `Scripts` | the scripts that set up a development database |
| `Onboarding` | the six above composed |
| `Clock` | the clock of the API and of the dashboard's pages, in half days |
| `BookingsView` | the bookings page over the list and status routes |
| `ReportViews` | the calls and analytics pages over their routes |
| `SettingsView` | the settings page over `Profile` |
| `Dashboard` | the dashboard: one page open at a time, over the API |
| `MCBooking`, `MCVoiceCall`, `MCOnboarding`, `MCDashboard` | instances for TLC |
| `BookingProofs` | the inductive invariant, type correctness, bookings kept apart; references, cancellations, ownership, and the refinement of `AppointmentBook` |
| `VoiceCallProofs` | calls as behaviours of `Booking`, their types, sessions, retries and records |
| `NumberProofs` | phone numbers: one row, purchases, verification |
| `TabProofs` | tabs and their requests, saves of a profile, scripts |
| `OrderLemmas` | facts about finite sets, sequences put in order, folds and sums, by induction |
| `ListProofs` | the list of bookings: its rows and their places, its filter, its sections |
| `DashboardProofs` | the calls, their volume, charts, skeleton, edits of the settings form and what it shows as saved; the types of `Dashboard` |
| `WizardProofs` | the types of `Onboarding`, what the wizard's steps and the dashboard rest on, the test account |

`VoiceCall` extends `Booking`, whose variables it changes only by `Booking`'s own
actions: the n-th POST of tool call `t` is the request `<<t, n>>`, so
`BookTool \X (1 .. MaxAttempts)` is the set `Booker` and so on.

### Booking and the code

A request is a process; `pc[r]` names the call it awaits.

| `pc` | awaited call | action |
|---|---|---|
| `idle` | the HTTP request itself, and `resolveBusinessAndService` | `ReceiveSlot`, `ReceiveCancel`, `ReceiveStatus` |
| `hours` | `businessHours.findForDay` | `ReadHours` |
| `conflicts` | `appointments.findMany` of `checkSlotAvailable` | `ReadConflicts` |
| `create` | `appointments.create` | `InsertRow`, or `Collide` on P2002 |
| `candidates` | `findActiveByPhone` | `FindCandidates` |
| `lookup` | `findFirst` of `cancel` or `updateStatusForOrg` | `LookupRow` |
| `update` | `update` by id | `UpdateRow` |
| `done` | | |

`appointment[k]` is the row that booking request `k` inserted, if it did: the
request's name stands for the row's uuid.  `answer[r]` is the response; the
refusals are the `error` codes of the 4xx bodies, `unavailable` the
`{status: "failed"}` of a booking or `{available: false}` of a check.  Times are
minutes: the DTOs carry `HH:mm`.  `Matching` is the result of the services
query: the services of a business whose name or local name contains a text.
`before`, `arrival` and `revived` are history, which no action reads.

`resolveBusinessAndService` makes two reads and is one step with the arrival:
no operation of the API changes a business's id or its services.  All else that
a handler awaits is a step of its own.

### VoiceCall and the code

A run is one invocation of `run_bot`; `CallOf` gives its call id, which a run
that reconnects shares with the one that was cut.  `phase[r]` names the await a
run is at, `stage[t]` that of a tool handler.

| `phase` | awaited call in `bot.py` | action |
|---|---|---|
| `idle` | not called yet | `Start` |
| `lookup` | `lookup_authority` | `LookupAuthority` |
| `get` | `session_store.get` | `GetSession` |
| `hset`, `expire` | the two commands of `session_store.upsert` | `CreateSession`, `ExpireSession` |
| `live` | `runner.run`: the conversation | `Invoke` a tool, or `End` |
| `transcript` | `post_call_transcript` | `LeaveTranscript`; `RecordTranscript` is the API's upsert |
| `delete` | `session_store.delete` | `EraseSession` |
| `ended`, `crashed` | | `Crash` may come at any await |

| `stage` | awaited call in `tools.py` | action |
|---|---|---|
| `idle` | not called yet | `Invoke` |
| `post` | a POST, or the pause before its retry | `TryAgain`, `HearRefusal`, `HearSuccess`, `HearLogged`; `Deliver` and `FileInquiry` are its arrival at the API |
| `hset`, `expire` | `session_store.upsert` of the slot checked | `SaveSlot`, `ExpireSlot` |
| `delete` | `session_store.delete` after a booking | `ForgetSession` |
| `done`, `dropped` | | `Interrupt` drops a handler at any await |

A POST is in flight from the moment it is sent: `Deliver` may come at once,
after its client has timed out and sent the next, or never.  `TryAgain` stands
for a connection error, a timeout and a 5xx alike, so it needs no answer.
`session[c]` is the hash of call `c`: the slot of the last check, if any, and
whether it expires.  A Redis command that fails may have taken effect
(`RedisFails`).  `trouble` is history: which calls a crash or a failed command
befell, and which had an upsert cut between its two commands.

Two facts about Pipecat, which is not part of this repository: an interruption
cancels the function calls under way, and they end with their pipeline, before
`runner.run` returns.  Two about Redis: `HSET` keeps the key's expiry, and
`EXPIRE` of a missing key does nothing.

### Onboarding and the code

Requests of the web client are records in a few slots, `req[r]`: `kind` is the
route, `at` the database call it awaits, `todo` the calls of a `Promise.all`
that have not returned, `from` the tab that listens, `answer` what the handler
returned or threw.  A tab that is reloaded, or whose answer is lost, stops
listening and the request goes on.

| Code | `kind` and `at` | actions |
|---|---|---|
| `business-profile.controller.ts` `upsert` | `save`: `find`, `write`, `days`, `numbers`, `read` | `SaveFind` ... `SaveAnswers`, `SaveDayFails` |
| `phone-numbers.service.ts` `provision` | `provision`: `find`, `write` | `ProvisionFind`, `ProvisionWrite` |
| `getForOrg` | `me`: `read` | `Me` |
| `verifyForwarding` | `verify`: `find`, `profile`, `write`, `search`, `mark` | `VerifyFind` ... `VerifyMark` |
| `organization.service.ts` `setPlan` | `plan`: `write` | `SetPlan` |
| `getOnboardingStatus` | `status`: `read`, three times in any order | `StatusRead` |

Any of these calls may be rejected (`CallFails`).  Row `i` of organization `o`
in `org_phone_numbers` is `number[o][i]`; `asked` is `verificationRequestedAt`
as the count of calls there were then, so that "after" compares counts.
`verificationRequestedAt` is taken, as `new Date()`, before the update that
stores it: `VerifyProfile` takes it and `VerifyStamp` stores it, so an older
stamp may be stored over a later one (`first` is the earliest, history).  A call
begins and ends; its transcript is created when it ends, and may be lost.  The
search compares that moment, so a call that began before the stamp counts.
`StaffPurchase` and `StaffMark` are the manual fulfilment that comments of
`phone-numbers.service.ts` describe.  `attemptRouting`, which is to be part of
it, has no caller yet, nor have the methods of `ExotelService`, and they are
left out.  `POST /phone-numbers/verify` is a route that no page of the client
calls: `AskVerify` and `HearVerify` are some client of it, on the dashboard.

A tab's `busy` names what it awaits: a route, a call to better-auth (`create`,
`activate`, `list`, `choose`), the timer of the pretended payment, or nothing.
`step` is the wizard's, 0 while it checks the status.  Each `await` in
`page.tsx` is the boundary between two actions (`SubmitDetails`, `CreateOrg`,
`ActivateOrg`, `HearSave`), so that a tab may be overtaken by another between
them: the session, with its active organization, belongs to the browser and not
to the tab.  `whole`, `overlapped`, `first`, `chosen`, and a tab's `org` and
`moved` are history.

Better-auth is not part of the repository.  What is assumed of it: an account
per e-mail address, slugs are unique, creating an organization or choosing it
makes it the session's active one, and a new session has none.

### Dashboard and the code

`view` is the state of `bookings-view.tsx`, a field per `useState` that matters;
`load`, `more` and `patch` are its requests for the list, for more and for a
status.  The effect's clean-up, which makes an earlier load's answer void, is
that `Reload` overwrites `load`; a request for more has no such clean-up in the
code and its answer is appended to whatever is there (`HearMore`).
`calls`, `charts` and `settings` are the other pages' states, `callsLoad`,
`summary` and `loads` their requests, and a save is a request of `DashboardApi`.
`Open` mounts a page afresh, as the shell does; what was asked for before is
served all the same.

`Clock` counts half days, near enough to the 5:30 h between UTC and India that a
call may be of today there and of yesterday here.  The API sets no time zone,
and its process is taken to run in UTC, as it does in a container: `setHours` of
`scopeToRange` then cuts at UTC midnight, while the pages cut at the browser's.
Each list request reads the clock when it is served (`MatchesOn`), so the pages
of one list may be of different days; and rows of one `scheduledAt` come in any
order, chosen anew by each query (`Orders`), as nothing breaks ties.  So
`ListIsCurrent` claims of each row that it is in its place by time
(`InPlace`), and among rows of one time cut by a page a repeat or an omission is
possible, and reached.  `getSummary` reads the clock when the request arrives
(`StartSummary`) and its queries have no upper bound: a call that begins on a
later UTC day is in the total and in no point (`late`).

Others act on the tables that a page reads: `OthersChange` on appointments,
`Log` on calls and inquiries, `OthersSave` on the profile, which is a save from
another tab or member served statement by statement between those of the
page's own.  A save sent from a settings page that has been left is another such
save.  `settings.others` has the parts of the profile that such a save has
stored since the page's own was sent and the page's own has not stored again
(`NoteStored`): while "Saved." is shown the others are the form's.  Nothing
tells the page of them: the last writer of each part wins, and two saves may
leave a mixture.

`of`, `blank`, `torn`, `late`, `drawn`, `base`, `crossed`, `others` and
`confirmed` are history: which state of the table and which day a list is of,
whether data was taken away for nothing, and what the user could know.

Seen while translating, and in the model:

- the search timer of the bookings page takes the list away before it compares
  the text with the earlier one.  When they are equal, as they are 300 ms
  after the page opens, nothing is loaded again and the skeleton stays until
  another filter is chosen (`Debounce`, the exception of `SkeletonIsLoading`);
- the chosen range of the analytics page, chosen again, does the same
  (`SelectRange`, the exception of `ChartsFollowRange`);
- an answer to "Load more" of an earlier filter is appended to the new list
  (`HearMore`, the exception of `RowsMatchFilter`);
- of two pages of a list, rows of one time may be repeated or missing at the
  boundary though nothing has changed (`Orders`);
- edits made while a save is under way are shown as saved, as the flags are set
  without a look at the form (`HearSaved`, `crossed`); signing out with
  unsaved edits asks nothing (`SignOut`);
- after a save of which some days failed the settings form has the stored days
  only, and no way to add the others (`ToForm`);
- when an organization was created and its profile could not be saved, the
  wizard's Continue creates it again and is refused, as the slug is taken, until
  the page is reloaded (`CreateOrg`).

## Runs

| Run | Question | Result |
|---|---|---|
| `booking` | two bookings and two dashboard updates, each of which may fail at any call | type, separation, references and refinement hold |
| `cancel` | two bookings, a cancellation, a dashboard update, two businesses, two callers, two dates, a clock that moves | cancellations are right and last; ownership |
| `liveness` | every kind of request, one possible reference | each call served leaves a request fewer to await (`ServiceEnds`), and each request that arrives is answered |
| `race` | does a booking end without a row when its slot is unavailable? | no: two simultaneous bookings are both confirmed |
| `utcday` | is a slot unavailable when it overlaps an appointment? | no: not across 05:30 |
| `hint` | does a date hint resolve `ambiguous_appointment`? | no: not with two appointments on one day |
| `calls` | two runs of one call, one books and the other cancels, each POST retried, late or lost | records are true, a retry books once |
| `sessions` | a run that checks a slot while Redis fails, and one that files an inquiry and crashes, of one call | no session left behind, each with an expiry unless an upsert was torn (`SessionsExpire`), and forgotten in the end |
| `reconnect` | does a run that reconnects find the session? | no: not once the cut-off run has cleaned up |
| `retry` | is the retry of a cancellation safe? | no: it hears `appointment_not_found` of what it cancelled |
| `onboarding` | two tabs, two requests, one failure; staff, calls, scripts | saves, numbers, verification, wizard and scripts are right |
| `dashboard` | the four pages over tables that change, a clock that moves and a second save of this page or of another, one failure | lists, sections, charts and forms are right |

Bounds.  Two bookings are what an overlap, a collision of references or an
ambiguous cancellation needs; every property relates at most two requests and a
row, and the theorems below lift the bounds.  The times 05:15, 05:30 and 05:45
with services of 30 and 60 minutes give slots that overlap, touch and lie on
either side of UTC midnight, where the code's window of a day begins and ends.
`Failing` names the requests a failure may hit, `Instant` the clock's readings (one
before and one after an appointment's start where `cancel` needs them),
`Attempts` the attempts at a reference: 5 in the code, fewer in a run where
each collision is a step and the number plays no part in the property.  The run
`booking` has one phone and `cancel` one service because nothing there tells
two apart.  In the runs of
`VoiceCall` one call has two runs, the least with which runs of a call overlap
or follow each other, and `MaxAttempts` is the code's 2.  `MayCall` gives each
run one tool call, since the tool calls of one run share nothing but its
flags; `Crashing` and `Flaky` name one run each, so that the other's view of a
crash or a failure is covered.  No dashboard update takes part: what it adds to
a call is `revived`, which the theorems cover.  The caller's number is an
authority's, and the lookup that fails makes him a customer, so both modes of a
call occur.  Symmetry is used for safety properties only.  `CHECK_DEADLOCK
FALSE`: a server whose requests are all answered may stop.

`onboarding` has two tabs because the session is shared, two slots because the
properties relate two writers of one row, two names so that a retry may take
another slug, two weekdays so that a save may be half done, and one failure
(`MaxFaults`), which any call or answer may meet. `Moves` bounds what the user
does, `Starts` the starts and deaths of scripts, `MaxCalls` the transcripts of
calls, two so that one may come between two stamps. All of this from one
initial state is too much for TLC, so `Starting` lists eight states along the
way, each reachable and each with the bounds its continuation needs: before
there is an account; two tabs at the phone number, without one or with a failed
request; a second tab left behind at step 1 while the first is at step 2; the
number asked for; the number bought and the user signed out, or on the
dashboard; scripts beside the wizard; scripts alone, with enough starts for
each to die and be run again.

`dashboard` has one tab, with what other tabs and members do to the tables as
actions of their own; that another tab signs out or changes the active
organization is in `Onboarding` only.  Six appointments, of which one is
cancelled and one is yet to be booked, fall into the three scopes, with pages of
`Page = 2`, so that "Load more" has something to load and a section is cut by a
page; two of them are of one time, and one moves from upcoming to today when
midnight passes.  An execution begins on one of the four pages, with bounds for
each.  `Moves` is three on the bookings page (choose, load more, choose again),
two on the calls and the charts, and four on the settings (an edit, a save, one
of another, an edit during it, in any order); `MovesAfter` is one once another
page is open.  Tables change only while a page that reads them is open, since a
change before that is one before its first answer; the bookings are
`MaxChanges` = 1 change of others away from what was loaded, and a status
changed here is one more.  Where it begins on the settings the clock stands
still (`FirstTime`) and nothing more is logged or booked (`Logged`, `Changes`),
as the other beginnings have that; there two slots let two saves be under way at
once, two loads may be (`MaxLoads`), and others save a form (`Theirs`) that
differs from the first in every part.  The profile to begin with has no hours
there, as a save that failed half way leaves it, so that the form's hours come
both from the default and, once saved and loaded again, from the tables.

Fairness.  `FairSpec` is weakly fair to `Serve(r)` for each request: a call the
server awaits returns or throws, as the database driver guarantees, and then
Node runs the continuation.  No request, failure, save of hours or tick of the
clock is forced.  `FairCallSpec` is weakly fair to what a run does by itself
(`Proceed`), its end included: a caller hangs up, a silent one is hung up on, and
`idle_timeout_secs` cancels a pipeline that is stuck; to what a handler does by
itself (`Handle`), as each POST has a timeout and each Redis command returns or
throws; and to the expiry of keys.  No answer of the API, arrival of a POST,
crash or interruption is forced.  `Onboarding` and `Dashboard` state no
fairness: their properties are of states and steps, and what must not last for
ever there (a spinner) is stated as what must be under way meanwhile.
`CHECK_DEADLOCK FALSE` there too: a user may stop.

Each property of a passing run has a mutant, an operator named `Faulty...`,
`Late...`, `Endless...` or `Unset...` before the definition it replaces: the same
definition with a plausible bug, under which TLC finds the property violated.

## Theorems

TLAPS proves, for any values of the constants that meet the named assumptions
of the modules, the following.

Of `Booking` and `VoiceCall`, for any sets of requests, businesses, services,
phones, dates, times, references and failures:

- `TypeCorrect`, `KeptApart` (`BookingProofs`), from the inductive invariant
  `IInv`.  `SuccessiveBookingsKeptApart` is not inductive: it says nothing of a
  booking that has checked its slot and has not inserted its row.  `IInv` adds
  that a row is its request's slot (`RowsTheirRequests`), that slots fit in
  their days since the hours they were checked against end by midnight
  (`SlotsFitDay`), that the appointments seen at arrival stay in the table
  (`EarlierRowsExist`), and that past its check a booking's slot is clear of the active
  ones among them, unless 05:30 lies between or one was revived (`SlotsCleared`).  The lemma
  `OverlapSameDay` has the arithmetic: two slots within their days that overlap
  are on one date, and on one UTC day unless 05:30 separates their starts.
- `ReferenceCorrect`, `CancellationLasts`, `CancelCorrect`, `OwnersOnly` and
  `BookImplemented` (also `BookingProofs`), from `IInv` and `AInv`: unanswered
  requests have no answer, references are unique among rows, a row found by a
  cancellation still fits it when it is updated (rows never change owner, and
  the clock only moves forward).
- `ServiceIsBounded`, from `IInv`: the calls a request may still await
  (`CallsLeft`) are a measure that each of its calls lowers, a draw of a reference
  that collides too, since the attempts of a booking at its insert are below
  `Attempts`; nothing another request does raises it.
- `CallsRunOnApi`, `CallTypeCorrect`, `NothingLeft` and `RetriesBookOnce`
  (`VoiceCallProofs`), for any sets of runs, calls and tool calls, any number of
  attempts and any crashes, interruptions and Redis failures.  The first says
  that every step of `VoiceCall` is a step of `Booking` or leaves its variables
  alone, so that the theorems above hold under the voice agent.  `CallTypeOK`
  and `NothingLeftBehind` are inductive together, on `TypeOK` of `Booking`: the
  commands of handlers fall in their run's live phase (`HandlerTypes`), so the
  last command of a run is its clean-up.  `RetryBooksOnce` follows from
  `SuccessiveBookingsKeptApart` and the invariant `PostsCarry`, that every POST
  of a tool call that has arrived carries the payload of that tool call: two
  appointments of one tool call would be for one slot, which overlaps itself.
- `SessionsBounded` (also `VoiceCallProofs`), that `SessionsExpire` always holds.
  It is inductive on `CallTypeOK`: an upsert that has begun is ended by its
  expire, or recorded as torn by whatever ends it otherwise, a failed command,
  an interruption, a crash or the end of the run; and a delete by another run
  between its two commands leaves nothing to expire.
- `RecordsCorrect` (also `VoiceCallProofs`), that `RecordsTrue` always holds, from the
  invariants above and `RInv`.  A tool call's `result` is what its handler read,
  `heard` what the model was called back with: between the two the handler of a
  booking awaits the delete of the session, and may be cut off there.  A record
  is written long after the run's context was, and a second run may overwrite
  it, so `RInv` says of every run what the property says of records: its
  context fits what its tool calls came to and what the API did for it
  (`ContextFits`), tool calls are made only after the caller's lookup and never
  by an authority (`CallsOnlyLive`), what the model heard is what the handler
  read unless the handler is at its delete or was dropped (`HearingFits`), and a
  POST that waits has no result (`WaitingBlank`), so that a second answer cannot
  change what a run was told.  An ended run's context is final, and only ended
  runs have records (`MailFinished`, `RecordsOfEnded`).

Of `Onboarding`, for any sets of tabs, slots for requests, names, days and plans
and any bounds on moves, faults, starts and calls:

- `OneNumber`, `PurchasesKept` and `VerifiedCorrect`
  (`NumberProofs`), from `NumberInv`.  All three are about values read before an
  await and written after it, so the invariant says what such a value still
  means: a provision or verification under way has read a row that exists
  (`Found`), the stamp of a row, and one a verification has read, is no earlier
  than the earliest the row ever had, one that is about to be stored is no later
  than the calls there have been, and a row is verified, or about to be, only
  with a call after that earliest one (`Stamps`); and without overlapping writers
  at most one of them is between its read and its write, so what it read is what
  is there (`Alone`).
- `SavesWhole`, `SeedsKeepEdits` and `WaitingAnswered` (`TabProofs`), from
  `TabInv`, whose part `SaveInv` has the progress of a save: which of its
  statements are done, and so which part of the form is stored, unless another
  save of the organization has met it.  Two saves of one organization under way
  at once are both marked so from the moment the second begins, and `WholeOK`
  says that what an answered one left alone is still there.  For the tabs it
  says that at most one request listens to a tab, that it is of the kind the
  tab waits for, and that a tab that waits has one.
- `OnboardingTypes`, `DashboardComplete`, `WizardInOrder` and `TestAccountReady`
  (`WizardProofs`), from `WizardInv`, which adds to the two invariants above:
  what is stored only grows (`Grows`, a fact of every step); what a request has
  read or written so far is stored (`Knows`), so that a status put together
  from three reads is true of its organization when it is heard; the request a
  tab listens to is of the kind it waits for, and of the active organization
  unless another tab has changed it (`Listens`); what a tab shows is stored for
  the organization it is at (`TabFit`); what the seed has passed is complete
  (`Reached`, `Underway`), and what each script leaves stays (`OwnerFit`,
  `SetupFit`).

Of `Dashboard`, for any finite set of appointments, logs, page size, ranges and
bounds:

- `ListCorrect`, `RowsCorrect` and `SectionsCorrect` (`ListProofs`), from
  `ListInv`.  A list is put together of answers that are each of another state
  of the table and another day, so what they are of has to be said of states
  that are gone.  `ListInv` says that there is a history `H`, the table after
  each of its changes, of which the current table is the last, and that every
  list and every answer that claims to be of the n-th state and a day (`of`) has
  each row in its place, from the first or from its `skip` on, of what its
  filter gives of `H[n]` on that day, and as many as there are up to a page
  (`ViewOf`, `LoadOf`, `MoreOf`); and that the answer to a status change is of
  the state that change made (`PatchOf`).  No variable holds `H`: the proof of a
  step picks one and extends it.  `OrderedInPlace` has what an order with ties
  still tells of the i-th row: fewer than i come strictly before it and at least
  i do not come strictly after it, which no other order of the ties changes, so
  pages served from different orders fit together (`NextPage`).  That the rows
  stay in their places when one row's status is replaced is `PatchedIsNext`, and
  needs that the filter is by no status: the case in which the code's list
  departs from the table is where `of` is given up.  `SectionsCorrect` needs in
  addition that rows in their places are in order of time (`PlacedInOrder`), and
  so of their days (`DaysInOrder`), so that a day cut off is never met again, and
  an induction over the fold that cuts them (`SectionsGrow`).
- `CallsCorrect` (`DashboardProofs`), from `CallsInv`: the rows of the page, and
  those of an answer on its way, are latest first and none is later than the
  moment the page was drawn (`LatestFirst`), while calls are logged and time
  goes on.  The first call that is not of the day of drawing is then followed by
  none that is, and by induction over the fold the two sections are the list
  cut in two (`GroupsGrow`).
- `VolumeCorrect`, from `VolumeInv`: as long as nothing was logged since the
  first query of a summary, each query served has counted what is there
  (`Counted`).  Nothing is said of the clock, which was read before.  That the
  points of the days from the first to the last, and the calls of later days,
  add up to the number of calls counted, wherever in a day the range begins, is
  `BucketsAddUp`, an instance of `CountsAddUp`: a sum of the sizes of the parts
  of a finite set is its size.
- `ChartsCorrect`, `SkeletonCorrect`, `CleanCorrect`, `EditsKept` and
  `SavedCorrect` (also `DashboardProofs`).  The last one rests on `StoreInv`
  besides `EditsInv`: what the page's own save has stored so far (`HasStored`) is
  in the profile, part by part, but for the parts in `others` (`OwnKept`), so
  that at its answer all of the form is, and stays (`SavedKept`) while any number
  of other saves, of earlier pages, other tabs or members, store their
  statements, fail or go on after an answer.
- `DashboardTypes`, from all the invariants above and `PageTypes`: a save under
  way carries a form's details and stores weekdays only (`SaveType`), also when
  nobody listens to it any more, and a form is shown as saved only while no
  save is under way or has failed since.

What is computed by a fold, a sum or a choice among orderings cannot be had
from the library's induction theorems, whose parameter is an operator, which no
prover at hand can instantiate.  `OrderLemmas` makes the inductions another
way.  A statement about all k up to n is a set of those k for which it fails; a
set of numbers that is not empty has a least member, and the step from the one
before it contradicts that (`Throughout`).  For finite sets a set of subsets is
taken instead (`SomeLeast`), of which some member has no other below it.  With
these are proved that a finite set of numbered things can be put in order
(`SomeOrder`, for `FindByOrgId`, which chooses such an order), that
`FoldLeft` over a sequence goes through its items one after the other
(`SomeLoop`), and that `SumFunction` of counts is a count (`CountsAddUp`).

The assumptions are those of the DTOs and of the schema: times within a day,
positive durations, disjoint kinds of requests, a reserved value for "none"
(`NoneAssumption`) and one for hours of mixed origin (`MixedAssumption`), an
organization that has a name (`HomeAssumption`), one tab of the dashboard
(`TabAssumption`; what others do is actions of their own), the name of the
scripts' organization (`DemoAssumption`), a plan and a sample row at least
(`PlansAssumption`, also that no plan is "none"; `SamplesAssumption`), finitely
many appointments, a status "CONFIRMED" and pages of at least one row
(`BookingsAssumption`), ranges that are numbers of days, with the default among
them (`ReportsAssumption`), default hours, and forms of others, that a form may
hold (`SettingsAssumption`), tables, profiles and logs to begin with that are
of the schema, with no call later than now and pages to start on that are pages
(`StartAssumption`), and bounds that are numbers (`BoundsAssumption`). TLC
evaluates each of them in the runs.

Model-checked only: `EveryRequestAnswered` and `SessionsForgotten`, as liveness
under fairness is out of the prover's reach, and the five violations.  Their
parts that are a matter of single steps are `ServiceIsBounded`, that a request
has only so many calls to await, and `SessionsBounded`, that a session has an
expiry or is about to get one; that the server goes on, that runs end and that
Redis lets keys expire, which is the fairness, is what TLC adds.  Every
other property of a passing run is stated by a theorem.

## Not modelled

`ApiKeyGuard` (a comparison of secrets; `SessionGuard` is `Guard`), the details
of DTOs (that one may refuse a form is modelled, the enumerated inputs are
otherwise what they admit), prompts and speech (text for a language model), the
normalisation of phone numbers and the texts made of appointments for
authorities (formatting without state), the methods without a caller (among
them `listAvailableNumbers`, `attemptRouting` with the Exotel requests it
makes, and the `remove`s), that another tab signs out or chooses another
organization while a dashboard page is open, the browser's Back button,
logging, layout and the UI kit. `PROJECT.json` lists every component with its
status.

## Plan

Written in this order: `Booking`, since everything else reads or writes the
appointment book; `VoiceCall`, which composes with it; `Onboarding`; `Dashboard`.
What is left, in this order:

1. the normalisation of phone numbers and `resolveRange` of the authority
   callers against reference definitions;
2. a composition of `Dashboard` with `Booking`, in which the rows that change
   under the page are those that bookings insert.
