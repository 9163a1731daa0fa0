# Verification of the Ekanda school portal API

TLA+ models of the portal: where money, service and the status of a school depend on
each other, the profile of a school with its files and prices, and everything families,
testers and administrators do around it. They are checked with TLC on small instances and
proved with TLAPS for every instance.

| Part | Modules | Checked by | Proved in |
|---|---|---|---|
| wallet ledger | `IdempotentLedger` (abstract), `WalletLedger` | `MCWalletLedger`, 2 configurations | `WalletLedgerProofs`, `SumLemmas` |
| payments and subscriptions | `BillingAggregates`, `BillingState`, `PaymentHandlers`, `SubscriptionHandlers`, `Billing` | `MCBilling`, 5 configurations | `BillingProofs`, `BillingSerialProofs` |
| the NIF of a school and its deadline | `SchoolLegal` | `MCSchoolLegal`, 3 configurations | `SchoolLegalProofs` |
| the profile of a school | `FileReferences` (abstract), `SchoolState`, `SchoolOfferHandlers`, `SchoolProfileHandlers`, `SchoolPortal` | `MCSchoolPortal` | `SchoolPortalProofs` |
| the portal around it | `Requests`, `PlatformBeta`, `Accounts`, `Admissions`, `Rollout`, `Lists`, `Marketplace`, `Concierge`, `Portal` | `MCPortal` | `PortalTypes`, `PortalProofs` |

`PROJECT.json` lists the runs, the source lines every definition stands for, a
mutation of the model that breaks each property, the hazards and the findings.

To repeat: `tlc -config MCBillingSerial.cfg MCBilling` (and so on), `tlapm
BillingProofs.tla` (and so on; `BillingSerialProofs` takes minutes).

## 1. The system

A NestJS application over PostgreSQL, through Prisma. Requests come from schools,
families, administrators and a payment gateway (webhooks); two jobs run on a
schedule. One Node process serves many requests: code between two `await`s is not
interrupted, and every `await` of a database statement lets other requests run.

What shapes every model:

* **No transactions.** `PrismaUnitOfWork` exists and is injected nowhere. A use case
  is a sequence of statements each committed by itself; the exceptions are
  `WalletLedgerService.post` (an interactive transaction), the reminder of the NIF job
  (an update and a notification), and a few repositories and the plan editor that write
  a row with its children.
* **READ COMMITTED.** Nothing sets another isolation level.
* **Whole-row saves.** The repositories of aggregates (`School`, `Subscription`,
  `Payment`) read a row into memory, change the object, and save all its columns.
  What another request wrote in between is overwritten. school-legal uses
  `prisma.update` with single columns instead.
* **Events are in memory** (`in-memory-domain-event.publisher.ts`) and nothing that
  is modelled subscribes to them; mails are fire-and-forget.

### Inventory

| Component | State it keeps | Operations that change it | Talks to | Hard behaviour | Correct when |
|---|---|---|---|---|---|
| billing: wallet ledger | wallets, wallet transactions (unique reference) | ensure wallets, `post` | called by confirm | concurrent posts, row and key locks, timeouts | one entry per reference, no overdraft, balance = entries |
| billing: payments | payments, payment events | checkout, confirm, fail, webhooks | gateway, ledger, subscriptions, school | webhook twice, webhook against endpoint, failure half-way, late FAILED | paid once, served once, recorded before served |
| billing: subscriptions | subscriptions | checkout, FREE plan, admin grant, cancel, renew, expire | plans, school | job against renewal, stale whole-row saves, upgrades in place | at most one valid, paid days kept, due ones expire |
| billing: plans | plans, features | create, update, switch on and off | subscriptions | switched off between checkout and payment; features read before the transaction that replaces them | an old payment still finds its plan; a plan is what was last asked |
| administration | status of schools, users, audit log | approve, reject, change status, users | school, billing, identity | decisions against jobs, payments and profile saves | a decision stands until the next one, with its reason |
| school | schools with location, services, levels, class, prices, gallery, logo | onboarding, profile, submission, activation | file storage, billing, administration | a profile save writes the status and the logo too; files outside the database; lists replaced in transactions | every file shown is there; one price list; levels of the last sync; legal steps of the status |
| school-legal | legal profiles (NIF, status, deadline) | submit, verify (AGT or admin), reject, synchronise, job | AGT, school, billing | 15 s look-up, stale job list, crash between two saves | NIFs unique, deadline as announced, suspension justified |
| application | applications, history | create, approve, reject | school, notification | two decisions at once | one decision, told once |
| identity, mail | users, e-mail challenges | register, confirm, reset, profile, activation | platform-beta | code used twice, attempts read then counted, whole-row saves | attempts bounded, a user is what was last asked |
| platform-beta | settings, requests, sessions | settings, request, review, verify, log out | identity | seats counted, then used; a request reopened by its id | never more testers than seats |
| concierge | conversations, visits | turns, needs, search, schedule, confirm, decline | marketplace, LLM, notification | the session is read before the model answers; codes from a count; two decisions | needs kept, results fit them, one decision |
| gestao-rollout | phase, waitlist, the plan MANAGEMENT | update config, join, review | plans, notification | two statements for one change | the plan follows the phase |
| marketplace | favourites, reviews | search, rank, favourite, review | school, billing | edit against deletion | only visible schools, a deleted review stays deleted |
| notification | notifications | create, mark as read | all | none | the family hears of its decision |
| ai | - | - | - | - | - |
| shared | - | Prisma client, pagination, file storage, event publisher | all | no unit of work, offsets into a moving list | a reader of all pages misses nothing that stayed |

## 2. Billing: the wallet ledger

`WalletLedger` has one action per SQL statement of `post`: the guard on the amount
(`CheckAmount`), the look-up of the reference (`FindReference`), the read of the
wallet (`FindWallet`, or `RefuseWallet` when it throws), the insert (`InsertEntry`,
or `DuplicateKey`), the update (`UpdateWallet`) and `Commit`; `Abort` ends a
transaction at any statement. Uncommitted inserts and row locks are derived from
where each call is: an insert waits for another of the same reference, an update for
another of the same wallet.

`balance` and `availableBalance` always get the same value from the same code and
are one variable.

`IdempotentLedger` is what the callers rely on: the first call of a reference posts,
later ones answer `duplicated`, in one step. `ImplementsIdempotentLedger` says that
the statements, interleaved, implement it. It promises nothing of balances, because
the code does not keep them (first finding).

Runs:

* `wallet_ledger` - three calls, every combination of five inputs over two wallets
  and three references (a credit twice with one reference, a debit, an adjustment, a
  negative amount). Three calls are enough for a lost update to be observed by a
  third and for a cycle of locks; three references let all of them succeed.
  `ExactUnlessContended` is the part of the "atomically" comment that holds: a
  wallet no two calls shared is exact, through aborts and repetitions.
* `wallet_ledger_lost_update` (violation) - `BalanceIsSumOfEntries`: two credits
  computed from one read.

Fairness: a call that can run its next statement runs it. `EveryCallEnds` also says
that the two kinds of lock are taken in one order, so that nobody waits in a circle.

## 3. Billing: payments and subscriptions

`BillingAggregates` holds the rules of `Payment`, `Subscription` and `School` as
operators on rows (what `confirmFromGateway`, `activate`, `renew`, `changePlan`,
`expire`, `activateAfterPaidSubscription` do and when they throw). `BillingState`
holds the rows of one school and the requests in service. `PaymentHandlers` and
`SubscriptionHandlers` have one action per database statement of each use case;
`Billing` puts them together and states the properties.

* **A request is a frame**: the statement it is at (`at`) and the copies it holds
  (`sub`, `payment`, `rest` - a list not gone through yet). A save writes the copy,
  with the change, over the row, as the repositories do.
* **A post is one step** in `Billing`. `WalletLedgerProofs!Refinement` is the ground
  for it; balances are not read in `Billing`.
* **An exception and a crash look alike**: `Abort` drops the frame at any statement
  and keeps what was saved. `MaxFaults` bounds how many there are.
* **Time** is a counter of periods, `Period[plan]` the length of a plan. Calendar
  arithmetic (`addBillingPeriod`) is left out.
* `revenue` and `receipt` are the ledger entries; `applied` and `alreadyProcessed`
  are history variables that only properties read.
* Ids grow in the order of `createdAt`, which several queries sort by.
* **The review of the school** is in the model because it meets the subscriptions: the
  submission (`BeginSubmit`, `CheckSubscription`, `SaveSubmitted`) reads the latest
  subscription as a dashboard does, ending it and the school when it is due, and takes any
  that is not EXPIRED, a checkout that was never paid included
  (`evaluateSubscriptionValidity`); approval and rejection (`BeginReview`, `SaveReview`) look
  at no subscription. A submission can be refused for the profile as well; that leaves
  nothing behind but what the dashboard did, and is `SchoolPortal`'s.
* The NIF job does to these rows what the admin's change to SUSPENDED does (it closes the
  subscriptions and saves the school); when it does so is `SchoolLegal`'s.

Left out: prices, invoices, features, trial dates, `autoRenew` (no rule reads it),
audit log, notifications, mails, the row of the payment event (its unique key shows as
an `Abort` at `confirm.event`), signatures and HTTP format of the gateway.

Runs:

* `billing_serial` - whole requests, one at a time, no failures, Findora gateway, two
  plans, two subscriptions, two payments, two periods of time. It asks whether the
  *sequences* of operations are right: FREE and then a checkout, an upgrade after the
  end, a payment for a suspended school, a plan switched off in between, a plan that ends
  while the school is under review. Two subscriptions and two payments are the least that
  show one replacing another. It is the largest of the billing runs: 219,782 states, about
  two minutes.
* `billing_concurrent` - a checkout confirmed by the simulated gateway, a second
  request that confirms, fails or cancels, and the job, at every statement, with one
  fault anywhere. One subscription and one payment: every statement of the code then
  meets every other on the same rows, which is where overwriting happens.
* `billing_retry_after_failure`, `billing_double_confirm`, `billing_free_again`
  (violations) - the second to fourth findings.

The serial properties (`AtMostOneValid`, `ServiceNeverExceedsPayments`,
`AlreadyProcessedMeansApplied`, `RecordedIsApplied`, `ExpiryReachesTheSchool` and so on)
do **not** hold with overlap, and some not with crashes (section 7 says which do). Two of
the findings are exactly that; for the others the repository promises nothing, and `hazards`
in `PROJECT.json` says at which line they end.

`ExpiryReachesTheSchool` says that the end of its last subscription reaches an ACTIVE school:
no request, reader or job ends the subscription and leaves the school ACTIVE. It does not
say that an ACTIVE school is served, because that is false: see the observations on approval
in section 8.

Fairness: every request in service goes on (the event loop serves every promise), and
the scheduler starts the job every hour whether or not requests are served. With
`Serial` the job waits for the request in service, and strong fairness says that it
does start between two of them. No request is ever assumed to be sent:
`RecordedIsApplied` and `ExpiryReachesTheSchool` rest on the request or on the job alone.

Deadlock is not checked in billing: ids and time are bounded, so behaviours end.

## 4. school-legal: the NIF and its deadline

`SchoolLegal` models `SchoolLegalService` (submit, automatic and manual verification,
rejection, overview with `syncNifDeadline`, the approval notice) and
`EnforceNifDeadlineUseCase`, one action per statement, for several schools.

* Frames are as in billing, but a save changes the columns it names. The one
  whole-row save is the job's save of the school: it writes back the review's date it
  read (`JobSave`, with `t` read by `JobSchool`).
* The AGT's verdict on a NIF is the constant `Registry`. UNKNOWN and an unreachable
  registry are the third branch of `AutoSave`; NOT_FOUND acts as INACTIVE does.
* `isAutoNifEnabled` may be switched between any two statements: a reading has either
  value.
* Dates are days. `submittedAt` is kept as `inTime`: it was set, and not after the
  deadline. `reviewedAt` stands for `reviewedAt ?? createdAt`, created on day 1.
  `decidedAt` is a history variable: the last time anybody decided on the school.
* Other modules are single steps: `Publish` (FREE plan or payment, no review),
  `Expire`, `SubmitForActivation` (takes the review back), `Decide` (approval,
  rejection and the admin's change of status, which sets `reviewedAt`).
  `served` says that an ACTIVE subscription exists. OTHER stands for every status but
  ACTIVE and SUSPENDED.
* `closeActiveSubscriptions` is one step: at most one subscription is ACTIVE in the
  usual case, and what matters here is that it is committed before the school is.
* `Abort` loses the job at any statement. Requests save once (after `submitNif`'s
  upsert the rest may stay away anyway), so losing one is no new behaviour.

Runs (deadlock is checked: time may stop at its bound, the job may always start):

* `school_legal` - a request submits good and bad NIFs for one school while another
  verifies, looks up, rejects, views or notifies, the admin sets any status, and a
  second school submits too. `DeadlineDays` = 1 and `MaxTime` = 2: review dates of
  two days exist, so a stale one can be saved, and no deadline passes, so that the job
  only reminds.
* `school_legal_job` - two schools on the job's list, one of which submits and is
  looked up meanwhile, the other re-activated by the admin; one loss of the job.
  `MaxTime` = 3 is the first day after the earliest deadline. Two rows are enough for
  a second one to get stale while the first is suspended.
* `school_legal_in_time` (violation) - the fifth finding.

`VerifiedIsActiveAtAgt` and `SuspendedOnlyOverdue` name their exceptions: a look-up
overtaken by another submission, and a row that changed since the job read its list.
Both happen in the runs; they are what the code does today, and any other verification
or suspension is excluded.

Fairness: the cron starts the job day after day (`WF(BeginJob)`) and the job's promises
are served (`WF(Job)`). Losing the job once does not contradict it. Nothing is assumed
of requests.

## 5. The profile of a school

`SchoolState` holds the rows of one school (the row of `schools`, its location, services,
levels, class, prices and gallery, its latest subscription), the file storage, the requests
in service as frames, and the rules of the `School` aggregate and of
`evaluateSchoolOnboarding` as operators. `SchoolOfferHandlers` has the use cases of levels,
class, location, services, prices and gallery; `SchoolProfileHandlers` those of the school row
(creation, profile, logo, completion of the onboarding, submission, review, the admin's
change of status, activation by a payment, the job's expiration, the NIF job's suspension).
`SchoolPortal` puts them together and states the properties.

* An action is one database statement, one transaction, or one call of the file storage.
  Where rows lock each other the transaction has a step of its own for the lock: the
  update of the price row that starts the price transaction (`LockPrice`), the deletion of
  gallery rows that a replacement holds until its commit (`gone`).
* Files and price rows are numbered in the order in which they appear, so that an id that was
  deleted is never given again.
* `Refuse` is an exception that the rows cause (a unique key, a row that is gone, a full
  storage); `Fault` any other exception or crash, at any statement. Both keep what was
  committed.
* The URL of a logo is any string (`resolveImageUrl` keeps what it is given): `LogoUrls` has
  none, one outside the storage, and the URL of every file that was ever uploaded, the photos
  of the gallery among them.
* `feesAreFree` is sent as true, as false or not at all (`SentList`). Left unsaid it is the one
  of the price row found before the transaction (`WithoutFees`), and a list without fees is
  stored with zeros whatever was sent (`Zeroed`).
* The NIF job closes the subscription and saves the school it had read, SUSPENDED, with the
  reason and review date the row had (`Suspend`); which schools it picks is `SchoolLegal`'s, so
  here it may pick any ACTIVE one.
* History variables: `asked` (every price list ever sent), `named` (the files whose URL was
  ever sent for a logo), `synced` (the levels the last sync
  that took effect wanted) and `stale` (the rows that were saved from a copy another request
  had changed). "Unless stale" in a property means: until such a save the row is right, and
  after it nothing is claimed of that row. The stale saves themselves happen in the run and
  are listed below as observations.

Run `school_portal`: two requests at a time, three in a behaviour, one fault, four files, three
price ids, two levels; a behaviour starts with no school, a complete DRAFT or a published one.
Every behaviour is asked the operations of one *agenda* (`MCSchoolPortal!MCAgendas`): a set of
operations that write the same rows, so that each pair that can meet on a row does, and pairs
that share none are not multiplied with each other. Two handlers are the least that overlap;
the third request observes what the two left, or starts a second round after a fault. Four files
let two uploads meet a file that is already shown and one being replaced. Deadlock is checked
(`Finished` names the one place a behaviour may stop); there is no liveness: a request that is
lost stays lost, nobody resumes it. 584,400 states, about a minute.

What the properties claim and what they leave out:

* `GalleryFilesExist` and `ImplementsFileReferences` are about the photos of the gallery that
  no logo URL ever named; the others can be deleted with the logo, with requests served one at
  a time. `LogoExistsUnlessStale` is about a logo that was uploaded as one. Everything else that
  could lose a file (overlap, a failure between rows and files, a replacement of what another
  request replaced) is covered.
* `ImplementsFileReferences` is the refinement: however the statements interleave, the gallery
  and the storage behave as `FileReferences`, where a file is uploaded, shown and deleted in
  one indivisible step each and never deleted while it is shown. The refinement mapping shows the
  abstract specification the rows without the files that were `named`.
* `RejectionHasReason` is about REJECTED only: an admin's suspension has a reason, the NIF job's
  has none of its own.
* `PricesAreOneList` compares what is stored with one list that was sent: as it was sent, or
  with zeros where it is stored as free. Which it is must be what was sent, or, left unsaid,
  something the school once said.
* `StatusStepsAreLegal` names for each actor the steps it may take (`LegalSteps`); the NIF job's is
  ACTIVE to SUSPENDED. A decision that is overwritten by a whole-row save from a stale copy is
  excused, not caught.

## 6. Around the school: the portal

`Requests` has what all of these modules share: handlers, frames, agendas, the bounds, and the
history variable `stale`. Each part is a module with its own variables and an `XStep(h)`
disjunction; `Portal` composes them in one process.

| Module | Rows | Operations | What it is about |
|---|---|---|---|
| `PlatformBeta` | settings, access requests | `updateSettings`, `requestAccess`, review, verify, session | seats counted, then written; a rejected request reopened by its id |
| `Accounts` | users, e-mail challenges | two registrations, codes and links, reset, profile, activation | attempts read before they are counted; whole-row saves of a user; registration asks the beta |
| `Admissions` | applications, visits, notices | create, approve, reject, schedule, confirm, decline, read | two decisions from one read; the history; what the family is told; visit codes from a count |
| `Rollout` | phase, plan MANAGEMENT, waitlist | config, plan edits, join, review | phase and plan in two statements; features read before the transaction |
| `Lists` | any table with its order and filter | insert, change, move, delete, read page by page | offsets into a list that changes |
| `Marketplace` | schools as the public sees them, favourites, reviews | search, compatibility, favourite, review | eligibility, filters, order; upsert by id against deletion |
| `Concierge` | the session | turn, patch, search, delete | a copy held while the model answers; relaxation of the needs; results against needs |

* A message of a family is what it says (`Messages`, over the places and classes in `Names`), and the language model is any of
  `Readings` or nothing at all (late, off, or in error): which regular expression matched is left
  out, what is done with the outcome is not (`parseConciergeTurnDeterministic`,
  `normalizeLlmResult`, `mergeWithDeterministic`).
* The search is modelled with its filters, prices and points (`buildWhere`,
  `computeCompatibility`), its rounding (`averageRating` in tenths, `Percent`) and its order;
  between equals any order.
* `stale` names the tables written from an old copy, as above. In `Portal` it is
  "applications" and "visits" when a second decision was taken from a status read before the
  first, "users", "access", "plan", "reviews" and "session" when a row was saved over a change.
* `overbooked` records the kinds of tester whose seats were exceeded where the code lets it
  happen; `shifted` the readers of a list during whose reading a row left or moved.

Run `portal`: two requests at a time, three in a behaviour, one fault; two e-mail addresses,
at most one seat of a kind and one wrong guess (so that the limit is met by the second),
two codes, two applications and visits, pages of two rows over a list of three that may grow to
five (so that a reader needs two or three pages while rows come and go), two schools and
one card shown (so that ranking decides), a budget of 150. The agendas are as above: the
operations of two agendas share no row, except that the needs of a conversation have one agenda
for each pair of operations. Deadlock is checked, with `Waiting` for a portal nobody asks
anything; there is no liveness for the same reason as above. Handlers and addresses are
symmetric; no property is temporal.

## 7. What is proved

All theorems are for every number of schools, requests, plans, rows, files and calls, every
bound, and any number of faults; those of `BillingSerialProofs` state what more they assume.

| Module | Theorem | Says |
|---|---|---|
| `WalletLedgerProofs` | `TypeCorrect`, `PostedOnce`, `NoOverdraft` | types; one poster per reference; no overdraft |
| | `Refinement` | implements `IdempotentLedger` |
| | `NoMoneyInvented`, `ExactWhenAlone` | a balance is at most the credits of its wallet; without overlap it is the sum of the entries |
| `BillingProofs` | `TypeCorrect`, `ServiceIsRecorded`, `SettledOnce` | types; no paid service without recorded revenue; a recorded payment is not PENDING again |
| `BillingSerialProofs` | `SerialInvariance`, `OnlyTheAdminLifts` | one request at a time: no stale save; SUSPENDED stays |
| | `ServiceIsPaidFor`, `PaidDaysAreKept` | one at a time: no period added twice, no paid day lost |
| | `OwnersAreToldTheTruth` | one at a time: the notified subscription is the active one |
| | `OneValidAtATime`, `SchoolExpiresUnserved` | one at a time, no failure: at most one is valid; only an unserved school expires |
| | `AlreadyProcessedIsTrue` | the same, paid plans left active: `alreadyProcessed` is the truth |
| `SchoolLegalProofs` | `TypeCorrect`, `UniqueNifs`, `NoExtension` | types; unique NIFs; deadlines are not extended |
| | `VerifiedOnTheRegistrysWord`, `SuspensionIsDue` | what a verifying and a suspending step must have in hand |
| `SchoolPortalProofs` | `TypeCorrect`, `GalleryFilesAreStored`, `LogoIsStored` | types; the files behind the gallery and the logo, unless a logo URL named them |
| | `RejectionsAreExplained`, `PricesAreNeverMixed`, `LevelsFollowTheLastSync`, `StatusStepsLegal` | the reason of a rejection; one price list; the levels; the steps of the status |
| | `FileReferencesImplemented` | implements `FileReferences`, for files no logo URL named |
| `PortalTypes` | `TypeCorrect` | types, of rows and of requests |
| `PortalProofs` | `LimitsAreKept` | guesses of a code, testers of a kind |
| | `RowsFollowTheRequests`, `ConversationsFitNeeds` | rows are as last asked; results fit the needs |
| | `DecisionsAreOneTrail`, `NoRowIsMissed` | one decision, told once; pages show all that stayed |

Assumptions are the named ASSUMEs on constants, which TLC evaluates in the runs. Where a proof
counts (seats, attempts), the assumption that emails and handlers are finitely many is among them.

**Arguments.** Each module has an inductive invariant `IInv` that is wider than the
property:

* *Ledger.* A call past its wallet check holds a next balance that is not negative
  (`NextBalanceChecked`); an uncommitted insert has its reference for itself
  (`InsertIsExclusive`), so that `Commit` and the answer `posted` are unique. For the
  refinement, each statement is a step of the abstract ledger or leaves `entry` and the
  answers alone.
* *Billing.* The properties are about rows, and saves write copies, so `IInv` says what
  a copy still shares with its row (`FrameInv`): a copied subscription that had left
  PENDING has a recorded payment *still*, a settled payment is settled *still*. Those
  facts never become false (`Stable`), whatever other requests save, so one lemma
  carries all frames that do not move, and each action is left with its own frame.
* *Balances.* `SumInv`: what a call has read of a balance is covered by the committed credits
  (`MoneyInv`), so what it is about to write is covered with its own entry; and on a wallet
  nobody contended the call that has read the balance is alone and has read the present one
  (`ExactInv`). Sums are folds of the library; `SumLemmas` shows that the fold exists, that
  its order does not matter, and what one more element adds, each on a smallest counterexample
  (`WFMin`, which takes no operator, where the induction theorems do).
* *Billing, one request at a time.* Five invariants, each inductive given the ones before.
  `SerialInv`: what a request holds equals its row, so a whole-row save overwrites nothing.
  `MoneyInv`: the end of a subscription is at most now, the applied periods and the gift; the
  answers of the ledger tell a payment applied before from a new one (`Unapplied`).
  `ActivationInv`: from the save of the paid subscription to the notification the other ACTIVE
  ones are those still to be closed. `OrderInv`: of two ACTIVE subscriptions the older one is
  due, so the one `findValidActiveBySchoolId` finds is the only valid one; except while a
  confirmation closes the others (`Replacing`). A submission that finds the latest subscription due
  goes on as a dashboard does, so the lemma is one (`LatestExpires`). `CompletionInv`: a PAID payment was applied or
  its request is on the way.
* *school-legal.* The same plan: a copied review date is at most the last decision's
  day, and a copied row's deadline is past and stays past. That the date can be taken
  back, by `submitForActivation` and by the job's whole-row save, is why the bound is
  `decidedAt` and not `reviewedAt`. The action properties follow from `IInv` at the one
  or two actions that can break them.
* *The profile.* `Sound` says what a request holds of the school row: a copy and a next
  row each of which, if REJECTED, has its reason and review, and whose statuses are apart by a
  legal step of the actor. `PriceInv`: what a request is about to commit was sent, or has the zeros
  of a free list because it was sent, or found, as free (`SentAs`), and two requests that
  hold the price row's lock are one. `MediaInv`: the files are numbered, and a file whose URL was
  never sent for a logo belongs to one of three parties at most: the rows that show it, the logo,
  or the one request that uploaded it and has not shown it yet (`Apart`, `Unshown`); that is what
  lets a request delete its files without asking anybody. For a file that was `named` none of it
  holds, so `named` grows before such a URL gets anywhere near a row. `LogoInv` ties the logo of a
  copy to the row as long as nothing was stale; a URL a request is about to save is the row's or
  was named (`SentLogo`). The refinement needs `MediaInv` only.
* *The portal.* A step belongs to one part and moves one request; `StepCases` says so once,
  and each part then has an invariant of its own that the steps of the others leave alone. It says what
  a request holds between two statements of what it has read. For the limits: a request that
  counts a guess has read a number below the limit, and those that have are at most the handlers
  (`GuessesBounded`); a request that found a seat is about to take it (`SeatFound`). For the plan: a
  phase and a plan that differ have a request that synchronises them (`Syncing`). For
  conversations: what a request will write is what the family last asked, or the save is
  stale (`TurnFits`); each relaxation of a search lets through what the one before did and no more than
  its fields allow (`RelaxesFurther`, `OfferFits`). For decisions: whoever is about to tell
  an answer tells the status of its row (`TrailFrame`), and a status without its answer has somebody
  about to tell it (`Telling`). For pages: every list is a linear order, so places are the
  numbers from 1 on without a gap, and a page that is short is the last one
  (`ShortPageIsLast`); a row that is added never lowers a place (`PlacesGrow`), so what is not yet
  seen stays ahead (`ReadsOn`).

**What the theorems of `BillingSerialProofs` assume.** `Serial`: a request begins when no other
is being served (a crash still may end one, and the next begins). The server gives no such
guarantee; with two requests at a time the properties are false, as the runs
`billing_double_confirm` and the hazards say. `MaxFaults = 0`, for the last three: a crash after
the paid subscription is saved and before the others are closed leaves two valid, and one after the
ledger makes the retry answer `alreadyProcessed` for a period that is not added
(`billing_retry_after_failure`). `SwitchedPlans \subseteq {FreePlan}`, for the last one: a paid plan
switched off between the post and the save refuses the payment after the ledger has it, and the
next confirmation answers `alreadyProcessed`. The run `billing_serial` meets all three,
with small numbers.

**Only model-checked.** Liveness (`EveryCallEnds`, `DueExpires`, `RecordedIsApplied`,
`ExpiryReachesTheSchool`, `OverdueIsEnforced`): out of the prover's reach. Every invariant and every
action property that a passing run checks is proved.

## 8. Findings and observations

Where a line of the repository promises something and the code does something else, a run finds the
violation:

1. Two confirmations at once lose a credit of the platform's balance
   (`wallet-ledger.service.ts:202`, against "atomically" at line 148).
2. A confirmation that fails after the ledger is answered `alreadyProcessed` when it is
   retried, and its period is never added (`confirm-subscription-payment.service.ts:104`).
3. Two overlapping confirmations of one payment add the period twice (same file, 112).
4. A school gets FREE again after FREE, an upgrade and the end of the paid plan
   (`prisma-subscription.repository.ts:70`).
5. A school that submitted its NIF in time and was rejected later gets its old deadline
   back when the page is opened, and is suspended the next morning
   (`school-legal.service.ts:873`, against the text of the reminder).

The models also do things nobody may have wanted, but which no line of the repository that is
about them excludes; the properties name them as their exceptions:

* A school may be approved without a subscription, and stay ACTIVE without one: its plan ends
  while it is under review (the job then leaves the school alone), or the submission took a
  checkout that was never paid for a subscription
  (`submit-school-for-activation.use-case.ts:66`). `assertCanBePublished`
  (`school.aggregate.ts:490`) asks for "a valid plan/subscription", but only the submission comes
  to it, with that answer; `approveFromReview` does not (and `publish()` has no caller). Nothing is
  due any more, so neither the job nor a dashboard ends it; the public views ask for a valid
  subscription themselves.
* A logo URL that names a photo of the gallery makes the next logo, or its deletion, delete that photo
  (`create-or-update-school.use-case.ts:103` and 248, `delete-school-logo.use-case.ts:60`); the
  gallery goes on showing it. No overlap is needed.
* A price list sent without `feesAreFree` to a school "without fees" is stored with zeros
  (`school-pricing.entity.ts:97`), where the API documentation gives the field the default false
  (`create-or-update-school-price.http-dto.ts:87`); the row it is read from may have changed by then.
* A school the NIF job suspends has no reason and no review date of that suspension in its row
  (`school.aggregate.ts:641`: the reason goes into an event nobody hears and a mail).
* A FAILED or CANCELLED webhook that comes late overwrites PAID; a checkout that saves after its
  own webhook sets PAID back to PROCESSING.
* A profile saved while the logo is deleted, or while the school is decided on, brings back the
  URL of the deleted file and the old status.
* Two overlapping syncs of levels leave the union of what the two asked for.
* A class edited while it is deleted is active again.
* `institutionType` is read from the requests and persisted by no save of the school.
* The submission accepts a school whose only class is inactive, although its message asks for
  an active one.
* A user saved from an old copy is active again after an administrator deactivated him, or
  has his old password again.
* A second decision on an application or a visit, taken from a status read before the first, wins,
  and the family is told both.
* A rejected request for the beta that is approved while it is being reopened is PENDING again.
* After a turn that changes the needs without a search, the phase says "results" and the results
  are those of the needs before.

## 9. Not modelled

* **Of the school**: the layout, theme and palette columns of the public page (one statement
  each, `school-http-query.service.ts:382`; `updateProfile` at line 327 has no caller), the cover
  image (it goes the way of the logo), the counter of profile views, memberships, slugs beyond
  their uniqueness.
* **Of billing**: prices and invoices as amounts, the calendar arithmetic of `addBillingPeriod`,
  trial dates and `autoRenew` (no rule reads them), the HMAC and the HTTP format of the gateway.
* **Of the portal**: the text of messages and the regular expressions that read it, free-text
  search, distances and facets, phone numbers, rate limits, the contents of mails and
  notifications, the reminder cron (it sends mails and writes nothing).
* **Empty in the source**: documents and review of applications, students beyond one row, the two
  use cases of notification, the module ai.
* **No state**: presenters, DTOs, filters, interceptors, guards, JWT and password hashing,
  bootstrap, seed and scripts.
