# Auditorium reservation: a verification development

The program is the backend of a single auditorium: users propose conferences,
event coordinators decide on them, users register as attendees, give feedback
afterwards, and manage their accounts.  It is a Go HTTP server (Fiber) over
PostgreSQL, with OTPs in Redis.  Two properties of its construction shape
everything here:

* **No transaction and no lock.**  Each request is served by its own goroutine
  that issues several autocommitted SQL statements one after the other.  What a
  request checks with one statement may be untrue when the next one runs.
* **Whole-row writes from private copies.**  `UpdateConference` writes back every
  column of an `entity.Conference` that was read some statements earlier, with
  `WHERE id = :id` as its only condition.

The repository has no tests, and neither shows when requests are tried out one at a
time.  The models keep the statements apart and interleave them.

## 1. Inventory

| Component | State | Operations that change it | Talks to |
|---|---|---|---|
| Conference service (`internal/app/conference`) | table `conferences` (status, host, seats, window, `deleted_at`) | propose, edit, decide, delete | the clock |
| Registration service (`internal/app/registration`) | table `registrations`, key (conference, user) | register (there is no unregister) | conference service for the row, its own queries join `conferences` |
| Feedback service (`internal/app/feedback`) | table `feedbacks`, soft-deleted | give, delete | registration and conference services |
| Auth service (`internal/app/auth`) | table `auth_sessions` (one row per user); Redis codes | request code, check, register, login, refresh, logout, reset password | user service, mailer |
| User service (`internal/app/user`) | table `users`, soft-deleted | create, update profile, update password, delete | – |
| Listings (in the repositories of the first three) | none on the server; the client keeps a cursor, the identifier of a record it was shown | one page: one query beyond the cursor | the tables as they are by then |
| Error values (`domain/errorpkg`) | package-level pointers with mutable `Detail`, `Message`, `TraceID` | `WithDetail`, `WithMessage`, `WithTraceID` on refusals | every service; the server's error handler serialises them |
| Middleware, JWT | none (roles come from the token) | – | every handler |
| Wrappers (mail, storage, uuid, random, validator), start-up, pools, logs | none of the program's own | – | – |

Hard behaviour, component by component, and what makes each correct:

* **Conferences.** Check-then-write across statements by several hosts and
  coordinators, stale copies written back, deletion between read and write, a
  clock that moves meanwhile, requests that die half-way.  Correct when: the
  hall is never promised twice; a decided conference is not changed; a host has
  one active proposal; windows stay ordered; host and seats never change; nothing
  is ever half-done.
* **Registrations.** Count-then-insert, checks on a copy of a row other requests
  change.  Correct when: seats are not exceeded; the host does not attend; only
  approved conferences have attendees; nobody is in two places at once.
* **Feedbacks.** Exists-then-insert without a unique constraint; deleted feedback
  still counts as given.
  Correct when: it comes from attendees, once each, about conferences that are over.
* **Accounts.** Profile edits write back the password they read; a reset code is
  read and cleared in two commands; an email is free when its code is requested and
  taken when the account is made; codes expire; the validator accepts passwords the
  column does not; logout races login; mail is sent by a goroutine nobody waits for.
  Correct when: an email has one account, which holds always; passwords change by resets
  only and a code is spent once, which hold as long as edits and resets are served one at
  a time.  With two of them in flight the code breaks both (see 3).
* **Error values.** Shared between all requests of a process and written without
  synchronisation, several words at a time, while other requests encode them.
  Correct would be: a refusal says what its own request has to say.  What holds is that
  it says nothing of a request answered before.
* **Listings.** Page by page beside requests that add, remove and move records;
  backward pages, ties of the sort key, a cursor whose own record moves.  Correct
  when: a client that reads to the end has seen what was there all along, each once,
  and does come to the end.

`PROJECT.json` lists the hazards line by line, with the property that covers each
or the reason none does yet.

## 2. Modules

```
TimeWindow ---> ConferencePlan ---> AuditoriumPlan       (what the services promise)
    |                ^                    ^
    |                | ImplementsPlan     | ImplementsAuditorium   (INSTANCE)
    +---------> Conferences ---> Registrations ---> Feedbacks      (how, by statement)
                     |                |                 |
               MCConferences    MCRegistrations    MCFeedbacks     (instances for TLC)

ConferencesProof ---> RegistrationsProof ---> FeedbacksProof ---> SerialProof
AuditoriumPlan ---> AuditoriumPlanProof

AccountPlan                                      (what the account services promise)
     ^
     | Plan == INSTANCE, ImplementsPlan
Accounts ---> MCAccounts, AccountsProof          (auth and user service, by statement)

Listings ---> MCListings, ListingsProof          (a client and the pages it asks for)

ErrorResponses ---> MCErrorResponses, ErrorResponsesProof     (the shared error values)
```

Accounts and the rest share nothing but user identifiers: accounts are deleted softly, no
query of the other services looks at `users.deleted_at` to decide anything, and so
they are modelled apart.

**TimeWindow.** The two ways the program compares windows: `Overlaps` is the strict
comparison of `GetConferencesConflictingWithTime`, `Clashes` the three `BETWEEN`s of
`GetConflictingRegistrations`.

**Conferences.** `conferences` is the table, `deleted` its `deleted_at` column, `now`
the clock, and `task` the goroutines: for each slot of `HostReqs` and `DeskReqs`, the
statement to run next (`pc`) and the handler's local copy (`row`).  One action is one
SQL statement with the code after it, up to the next statement:

| Code | Actions |
|---|---|
| `CreateConferenceProposal` | `CreateActive` (query of active proposals), `CreateConflicts`, `CreateInsert` |
| `UpdateConference` | `UpdateGetDetails` or `UpdateGetWindow`, `UpdateConflicts`, `UpdateWrite` |
| `UpdateConferenceStatus` | `StatusGet`, `StatusConflicts` (approvals only), `StatusWrite` |
| `DeleteConference` | `DeleteGet`, `DeleteWrite` |
| an SQL error, a panic caught by the recover middleware, the death of a replica | `Fail` |
| `time.Now()` | `Tick` |

**ConferencePlan.** The same service as indivisible steps (`Propose`, `Move`, `Decide`,
`Cancel`), each with the rule the error messages state.  `ImplementsPlan` says that
the statements of `Conferences` refine it; the refinement mapping is the identity
on the table, the deleted rows and the clock, and hides the requests.

**Registrations.** Extends `Conferences` with the registrations table and the five
statements of `Register`: `RegisterGet` (a call of the conference service),
`RegisterIsRegistered`, `RegisterCount`, `RegisterClash`, `RegisterInsert`.

**Feedbacks.** Extends `Registrations` with the feedbacks table.  `CreateFeedback` is
`GiveIsRegistered` (a call of the registration service), `GiveIsGiven`,
`GiveConference` (a call of the conference service), `GiveEnded` (the clock, against the
end that was read), `GiveInsert`; `DeleteFeedback` is one statement.  `Said` is what a user has ever said, deleted or not, as in the query.

**AuditoriumPlan.** Extends `ConferencePlan` with attendance as indivisible steps:
`Attend` (an approved conference, a guest, a seat, nothing that overlaps), `Give` (an
attendee, of what is over, not too often) and `Hide`.  How often seats and the rule of
one feedback are overrun is a matter of the slots: the plan says fewer than
`RegSlots` more registrations than seats, and at most `FbSlots` feedbacks, so that with
one slot each it says what the error messages say.  `ImplementsAuditorium` maps the
tables to themselves, the slots to the numbers of requests, and hides the requests.

**Listings.** One client and one of the four listings of the program.  `GetPage` is the
whole request: the query (`Selected`, `Fetches`), the row that is taken away when there
is one too many (`Extra`), and the cursor the client goes on with (`Onward`).  `listed`
is what the query selects, paging aside, and changes by `Appear`, `Disappear` and
`Move`, the effect of the other services.  `Move` covers agendas: a conference with
registrations is moved by an edit that read it before it was approved.  `due`, `seen`,
`repeated`, `swayed`, `stops` and `cuts` are history, for the properties.

| Code | Listing |
|---|---|
| `GetRegisteredUsersByConference` | `attendees`: by user identifier, grows only |
| `GetFeedbacksByConferenceID` | `feedbacks`: by feedback identifier |
| `GetRegisteredConferencesByUser` | `agenda`: by start, ties left open |
| `GetConferences` | `conferences`: by start and identifier, ascending or descending |

**ErrorResponses.** `author` says of each machine word of each package-level error which
request wrote it last.  A request is refused (`Refuse`), words the error (`Write`, word
by word in any order), possibly a second time (`Reword`: the auth service words what the
user service has worded), and the error handler encodes it (`Read`, word by word).
`met` is history: the requests refused alike at the same time.

**Accounts.** `users` and `erased` are the table and its `deleted_at`, `sessions` the rows
of `auth_sessions`, `regCodes` and `resetCodes` the keys in Redis, `accTask` the
goroutines.

| Code | Actions |
|---|---|
| `RequestOTPRegisterUser`, `RequestOTPResetPassword` | `InviteGet`, `InviteSet`; `OfferGet`, `OfferSet` |
| `RegisterUser` | `RegisterGetCode`, `RegisterVoid`, `RegisterInsert`, then the login |
| `Login` | `LoginStart` (by itself) or `LoginGet` (at the end of another request), `LoginUpsert` |
| `ResetPassword` with `UpdatePassword` | `ResetGetCode`, `ResetVoid`, `ResetGetUser`, `ResetWrite`, then the login |
| `Logout`, `CreateUser` and `DeleteUser` by an administrator | `Logout`, `Appoint`, `Erase`: one statement each |
| `UpdateUser` | `ProfileGet`, `ProfileWrite` |
| ten minutes | `Expire` |

`SignReqs` are the slots of requests that create accounts or sessions, `RowReqs` of
those that write rows back from copies or hand out reset codes.

**AccountPlan.** Accounts as indivisible steps: `Open`, `Close`, `Rename`, `Reset`, which
spends a code, and codes that are offered and void.  In the mapping a code counts
until the reset that has read it is over, and a deleted row is `Gone`, whatever is
written to it afterwards.

### Abstractions

* A code is abstracted to whether a reader could present it.  The blank code that a
  reset leaves behind matches no request, since the field is required.
* Of a user's row, role, bio and photo are left out.  (`CreateUser` gives the role
  `user` to every account, whatever role an administrator asked for.)
* Accounts start empty; `Appoint` makes any of the tables the seeder could.

* Texts, timestamps of rows and the join with `users` are left out.  An edit that
  changes only texts writes back the row unchanged (`UpdateGetDetails`), which is
  all that matters here: it still overwrites whatever happened since.
* Clock reads are merged into the statement before them where a later reading refuses
  more (proposals, edits, decisions, `Register`): `Fail` already allows a request to
  stop there.  `CreateFeedback` refuses what is not over yet, so a later reading refuses
  less, and there the clock has a step of its own, `GiveEnded`: a conference may be
  deleted after it was read, before its end, and still be given feedback.
* A request whose first statement refuses it changes nothing and is no step.
* An edit that names only one end of the window dereferences a nil pointer after
  its first statement, is recovered and answered with an error.  It writes nothing
  and is no step either.
* `FreshID`: a UUIDv7 does not repeat.  Primary keys are as in the migrations.
* Conferences may start from any of the tables in `Seeds`, which stand for a
  database in use (or filled by the seeder); registrations start empty.
* The validators' limits appear as the sets `Windows` (any order of the ends: the
  handler does not compare them), `SeatChoices` (at least 1) and `Statuses`.
* Answers to clients are modelled where they refuse (`ErrorResponses`) and where they
  page (`Listings`).
* `Listings` is freer than the program in what happens between two pages: anything may
  appear and, of conferences and agendas, move to any place of the order, since
  identifiers are drawn before their rows are inserted and conferences start whenever
  they like.  Identifiers are finitely many, though: were records added beyond the cursor
  for ever, no walk would end, in the program either.  It is exactly as free in what
  the query answers: rows that tie are returned in any order.  `order_by=created_at` is
  answered in the order of the starts, because the query compares the parameter with
  `c.created_at`, and so the model has one order only.
* `ErrorResponses` is freer than the program in who words what: any request may be
  refused with any error, worded as often as some caller does.  A word is abstracted to
  its author; the data race is a choice of the order of the words.
* Time is one number.  The columns are `TIMESTAMP` without time zone, and the
  driver stores the digits of a time that came with an offset; see 5.

## 3. What TLC checks

Fairness is assumed in one place: `ListSpec` has `WF_vars(GetPage)`, for a client that
keeps asking until `has_more` is false.  It says nothing of the server but that it
answers; the other requests are not fair, and may change the listing for ever.  The
statements of a request get no fairness: nothing in the code retries or waits, a
replica may die at any of them, and there is nothing it must eventually do.

Deadlock checking is off in every run because the bounded system may stop: the
clock stands at `MaxTime`, all identifiers are used up and every conference is
decided or deleted.

| Run | Instance | Shows |
|---|---|---|
| `conf_hosts` | one coordinator, two concurrent host requests, 2 identifiers, windows that overlap and a disordered one, an empty table or one with an approved and a pending conference | `TypeOK`, `WindowOrdered`, `NoOverlapApproved`, `DecisionsOnlyUndone` hold however the three interleave and fail (1.8 M states) |
| `conf_desks` | two coordinators and one host request, three pending conferences that overlap pairwise | `OverlapBound`: the hall is promised at most twice at any time (3.3 M states) |
| `conf_serial` | conference requests one at a time (`HostReqs = DeskReqs`) beside two concurrent registrations, four users, 2 identifiers, clock up to 2, an empty table or an approved conference with one seat and a pending one that overlaps it until it is moved to where the first one ends | `ImplementsPlan`, `NotPendingNotUpdated`, `NoSecondProposal`: alone, each conference request does what its error messages promise, and one that fails half-way leaves nothing behind; `RegTypeOK`, `SeatBound`, `HostNeverAttends`, `RegisteredStayApproved`, `NoDoubleBooking`, `ClashOnlyTouches` of the registrations.  Both conferences come to be approved and to touch, and one user to attend both (1.7 M states) |
| `attendance` | two concurrent registrations and two concurrent feedbacks, three feedback rows, one host and two others, beside serial edits, decisions and cancellations of an approved conference with one seat and a pending one that overlaps it, clock up to 2 | `ImplementsAuditorium`: the three services have the effect of the indivisible steps of `AuditoriumPlan`; with `FbTypeOK`, `FeedbackBound`, `FeedbackFromAttendees`, `FeedbackAfterEnd` (442 k states) |
| `accounts` | two requests to sign up or log in, one that edits or resets, two rows, one email, three passwords of which one is too long | `AccTypeOK`, `OneAccountPerEmail`, `ImplementsPlan` of `AccountPlan` (250 k states) |
| `listings` | four records, two starts, pages of one or two, all four listings in both directions and orders, every listing and every place to go back from | `ListTypeOK`, `NothingSkipped`, `NothingTwice`, `BackSkipBound`, and `WalkEnds` under the fairness above (741 k states, no symmetry) |
| `errors` | three requests, an error of each of the four kinds | `ErrTypeOK`, `OwnOrMet` (626 k states) |

Five runs end in a counterexample, each the short form of something the source or
its messages rule out:

| Run | Property | What happens |
|---|---|---|
| `double_approval` | `NoOverlapApproved` | two coordinators query for conflicts, then both write: two approved conferences overlap |
| `lost_decision` | `NotPendingNotUpdated` | an edit read the row while pending and writes it back after a decision: the conference is pending again.  The trace shows a rejection, which takes one statement less than an approval; an approval is undone just so |
| `second_proposal` | `NoSecondProposal` | one host's two proposals both find none active and are both inserted |
| `overbooking` | `SeatsNeverExceeded` | two registrations count the last seat as free and both insert |
| `back_to_back` | `ClashNeverFound` | with one request at a time: conferences that touch are both approved (strict comparison) but clash for an attendee (`BETWEEN`) |

What `listings` shows besides: `NothingSkipped` excepts ties in an agenda, whose cursor
compares starts alone, and a walk whose own cursor was moved; both exceptions are needed.
What a tie is has to be told from how things stood as the page was shown (`stops`): the
record that ended the page may be moved on, and the one that tied with it stays missing.
Backwards, attendees and feedbacks are shown with a gap on each page but the last, since
`users[1:]` drops the row next to the cursor; `BackSkipBound` says the gaps are one record
each.  An agenda read backwards has the same gaps and the ties besides.  With `before_id`,
`GetConferences` does not turn its order around: the page shows the beginning of the
listing and not what precedes the cursor, and the next one is empty.  The model does the
same, and only `NothingTwice` and `WalkEnds` speak of that walk.

Why the bounds suffice: each hazard needs at most two requests in flight on one
row or one pair of rows, and one more actor that changes what the first has read.
A refusal can be spoilt by one that is over only with
a third request between them.  A walk needs a page before, at and behind the middle, and
ties need two equal starts: four records, pages of one and two, two starts.
Two slots of a kind, two or three rows and windows that overlap or touch give every such
pair, and a third guest shows more than one seat overrun; `MaxTime` 1 or 2 lets the clock pass a start or an end between any two
statements, with windows that start before, at and after it.  Accounts need a second row for the
email of a deleted one, and two passwords to tell a lost reset from a kept one; one
email is enough for TLC because rows of different emails never meet, which the proofs
show for any number.  The symmetry sets permute only
slots, requests, users, identifiers, names and passwords no definition distinguishes; they
are used with invariants and formulas on single steps, and no liveness property.

What the results say together: the conference service is correct with **one
coordinator at a time**, whatever the hosts do, as far as the hall is concerned; the
reason is that a decision writes back the very window it checked.  Its decisions are
then safe from each other too: a stale edit may make a decided conference pending again,
but an approval never turns into a rejection or the reverse.  With several
coordinators the damage is bounded by their number.  The rules about status and
active proposals need full serialisation, and so does feedback that stays about a
conference that is over.  Seats need registrations serialised
and nothing else; without that they are exceeded by less than the number of
requests in flight (`SoleRegistrationNeverOverbooks` and `SeatBound`).  One account per email holds always, because it alone is guarded
by the database; that profile edits and resets do not undo each other, and that a reset
code serves once, needs these requests served one at a time (`RowReqs`), and nothing of
the rest.  With two of them in flight an edit writes back the password it has read and
the reset is lost, and two resets may both find one code before either overwrites it.  No
line of the repository says otherwise, so there is no run that ends in it; the hazards
name both.  The comment in `Register`
that approved conferences never conflict is nearly right: `back_to_back` shows what the
clash query can find, and `SerialClashOnlyTouches` that it can find nothing worse.

## 4. What is proved

The theorems hold for every set of identifiers, users, emails, passwords, request slots,
windows, seat counts, starts and page sizes and every bound of the clock.  They use the assumptions of the modules (`FiniteAssumption`, `WindowAssumption`,
`SeatAssumption`, `ClockAssumption`, `SeedAssumption`, `RegAssumption`,
`FeedbackAssumption`, `UserAssumption`, `PasswordAssumption`, `IDAssumption`,
`TimeAssumption`, `LimitAssumption`, `NobodyAssumption`, `NoneAssumption`,
`ErrorsAssumption`).  What needs more says so: `SeedsDisjoint` (no overlap among the
conferences approved at the start), `SoleDesk` (at most one coordinator slot), in
`AccountsProof` `SoleRow` (at most one slot of `RowReqs`) and in `SerialProof`
`SoleRequest` (at most one slot for conference requests of any kind).  They state the
scheduling under which the property is true; without them the runs that end in a
counterexample show what is lost.  `AuditoriumPlanProof` is about the plans alone and asks
the same of their constants: `FitSeeds` and `FiniteTables`.

| Theorem | Argument |
|---|---|
| `TypeCorrect`, `RegTypeCorrect` | inductive as they stand, one step per action |
| `WindowsStayOrdered` | `ConfInv` adds `TaskShape`: the copies requests carry are ordered too, which `Accepts` ensures for new windows and the table for copied ones |
| `SoleDeskNeverOverlaps` | `OverlapInv` adds `GrantsFree`: what the coordinator is about to approve overlaps nothing approved.  It is stable because hosts only ever write *pending* rows: they can undo an approval but cannot create one, nor move an approved row |
| `SoleDeskDecidesOnce` | `DecisionInv` adds that what the coordinator holds in hand is still undecided, since nobody else decides, and that a decision is written only over such a row; hosts write nothing but pending rows (`DecisionStep`) |
| `OverlapBounded` | counting: the *claims* on an instant are the approved conferences in use then and the coordinators past their conflict query whose window covers it; a claim is made only when no conference approved covers the instant, so there are never more than `DeskLimit` |
| `RegImplementsConf` | every step of the composition is a step of `Conferences` or leaves it alone; carries all of the above over |
| `SeatsBounded` | `AdmitInv`: registrations plus requests past the count are fewer than the seats plus the number of slots; the copy of the seat count stays true because no write changes host or seats of a row (lemma `HostAndSeatsStay`) |
| `SoleRegistrationNeverOverbooks` | `SeatsBounded` for a single slot |
| `HostStaysOut` | the part of `AdmitInv` about the registrants, and again that hosts never change |
| `FbImplementsReg`, `FbTypeCorrect` | as for registrations: feedback only reads the other tables |
| `OnlyAttendeesGive` | `AttendanceInv`: there is no way to unregister, so what the first statement saw is still true at the last; with the registrants' part of `AdmitInv` the author is not the host |
| `FeedbackBounded` | counting: the feedbacks a user has given to a conference and the requests that have found none are together at most the slots |
| `AccTypeCorrect`, `OneAccountAtATime` | `AccInv` adds `CopiesAgree` (a copy has the email of its row, and a profile edit a password that fits) and `SoleHolder`; every step adds a row for a free email, writes a copy back, or leaves the rows alone (`TableStep`) |
| `SoleRowImplementsPlan` | `SoleInv` adds to `AccInv` that a request that writes a row back, or spends a code, holds a fresh copy of it (`Fresh`) and that it alone does (`RowsApart`): the other slots add rows and void invitations but touch no row (`OthersTouchNothing`).  Every statement is then a step of the plan or stutters, and the code that a reset has read counts until the reset is over |
| `SerialImplementsPlan` | `SerialInv` adds to `ConfInv` that every request is `Prepared`: what the statements it has run have found out is still true, because nobody else writes conferences meanwhile and the clock only makes fewer proposals active.  Then each write is a step of the plan (`PlanInsert`, `PlanUpdate`, `PlanStatus`, `PlanDelete`) or changes nothing, and every other statement stutters |
| `SerialRegisteredStayApproved`, `SerialNoDoubleBooking` | `ApprovedInv`: registrations in flight hold approved conferences too, and what is decided stays, as the plan's steps show (`PlanKeepsDecided`); with `SoleDeskNeverOverlaps` nobody is in two places |
| `SerialClashOnlyTouches` | the same invariant, which also says that the copies of registrations in flight are not out of date, and the one lemma on windows: what the closed comparison finds and the open one does not is back to back (`ClashOverlapsOrTouches`) |
| `SerialFeedbackAfterEnd` | `OverInv`: the end a request has read is still that of an approved conference (`EndKnown`), deleted or not, and what is about to be inserted is about one that is over; the clock never goes back |
| `SerialImplementsAuditorium` | `AttendInv`, all of the invariants above: the counting ones give the plan's bounds on seats and feedback at the moment of the insert, where a request in flight counts for one |
| `PlanPromisesHallOnce` | of the plan alone: every step writes at most one row, one that is not decided (`PlanWrites`), and approves only in a free window (`PlanWritesFree`) |
| `PlanKeepsPromises`, `PlanServedAlone` | of the plan of the three services: what is attended is approved and never written again, seats and feedbacks are counted as they are inserted; with one slot each, no seat too many and no second feedback |
| `ListTypeCorrect` | inductive as it stands |
| `ForwardSkipsNothing`, `NothingShownTwice` | `WalkInv`: nothing due that has been shown lies beyond the cursor and, forwards, everything due has been shown, starts where a page of an agenda ended (`stops`), or lies beyond the cursor.  Newcomers are not due, so that only a move of the cursor can break it |
| `BackwardLossBounded` | `BackInv`: the records due that the walk has gone past unseen (`Lost`) are at most the pages that said there is more, and the cursor is none of them |
| `ErrTypeCorrect`, `AnswersOwnOrMet` | `TypeInv` adds how far each request has come; `AnswerInv` adds that requests refused alike at the same time know of each other (`Acquainted`) and that a word somebody is still to read was written by the reader or by one it has met (`WrittenInCompany`) |

Why type correctness is not enough is the same in all of them: the danger sits in
the local copies, so every inductive invariant speaks of `task` as well as of the
table.

The theorems on the plans answer whether the abstract specifications say enough: with the
refinements above, `PlanKeepsPromises` holds of the program too.

**Only model-checked:** `WalkEnds`, which is liveness under fairness.  Liveness, `ENABLED` and induction over the data of recursive
definitions are out of the prover's reach.

## 5. What is not modelled

* Reading one conference, checking a code and refreshing a token change no state and are
  no actions of their own.
* The conversion of times: columns are `TIMESTAMP` without zone and the driver stores the
  digits of a time that came with an offset.
* What a deleted user leaves behind (sessions, registrations, conferences) stays, as in
  the code.
* Mail may be lost in the models as in the code, and codes only expire then.
* `UploadProfile`, which no route calls; role, bio and photo of a user.
* JWT checks are stateless and appear as who may take which action.
* Mail, object storage, random numbers, the validator, start-up, pools and logs are
  wrappers around libraries; the recover middleware appears as `Fail`.
* The message of a bare `ErrNotFound` is whatever any request gave it last.  The model
  behaves like that, and nothing can be promised of it (see the hazards).

## 6. Plan

Done: conferences, registrations, feedbacks, accounts, their plans, listings, error
values, all with proofs, and the plans' own properties.

No bound can be stated on the pending conferences of one host: at the very instant one
ends it is no longer active (`ends_at > now`) but may still be edited (`EndsAt` is not
before now), and so be moved ahead of the newer one that was proposed at that instant;
the next instant does the same with those, and nothing limits their number but time.

Left: what the listings and the error values promise has no abstract specification of
its own; `NothingSkipped` and `OwnOrMet` state it directly.
