# A TLA+ model of COURSES-API

COURSES-API is a NestJS service over PostgreSQL (Prisma) and Redis (BullMQ) that
sells video courses: teachers build courses and combos of courses, customers
put them in a cart, order them, pay by bank transfer, and study them lesson by
lesson. This directory holds TLA+ models of the parts whose correctness depends
on the order in which things happen, the TLC configurations that check them and
proofs of their main safety properties.

Paths below are relative to the repository; `O:` is
`src/routes/order/order.repo.ts`, `P:` is `src/routes/payment/payment.repo.ts`,
both inside the `src/` package, and a number is a line.

## 1. The system

| Part | State it keeps | Operations that change it | Interacts with |
|---|---|---|---|
| Cart (`routes/cart`) | `CartItem` rows, unique on (user, course) | add, remove; an order removes the item it consumes | orders (an open order refuses the item) |
| Orders (`routes/order`) | `Order` with status, `OrderItemSnapshot` with price and total | create (transaction, then a delayed job), cancel by the customer | cart, coupons, enrolments, queue, notifications |
| Payment (`routes/payment`, `queue/payment.consumer.ts`) | `Payment` rows keyed by the bank's id and by order; the delayed job in Redis | the bank's webhook (one transaction, then removal of the job), the job that cancels 24 hours later | orders, enrolments, queue |
| Coupons and pricing (`routes/coupon`, `shared/helpers.ts`) | `Coupon` rows | create, update, delete (single statements); validation and `getTotalPrice` are reads | orders |
| Enrolments (`routes/student`) | `CourseEnrollment`, soft deletes, unique on live (course, user) | bulk synchronisation of a course's students by a teacher, update, removal | orders, payment, lesson gate |
| Outline (`routes/chapter`, `routes/lesson`, `routes/course` reorder) | `Chapter` and `Lesson` rows with `order`, `isDraft`, `deletedAt`; `LessonProgress` | create, update, delete, reorder; a student opens and completes lessons | enrolments |
| Courses and combos (`routes/course`) | `Course` rows, the combo relation | create, update (connect/disconnect children), delete with everything under it | outline, orders |
| Sessions (`shared/guards/session-token.guard.ts`, `routes/auth`) | `SessionToken` rows, signed tokens | login, logout, renewal on use, removal on role change, nightly sweep | every request |
| One-time codes and registration (`routes/auth`) | `VerificationCode` (one per email and type), `User` | send, register, reset the password | e-mail |
| Roles, permissions, users (`routes/role`, `permission`, `user`) | `Role`, `Permission`, `User`; a process-wide cache of base role ids | administration by roles of different rank | sessions |
| Permissions' synchronisation (`initialScript/create-permissions.ts`) | a process of its own, which boots the whole application and exits | deletes, adds and relates permissions by the routes of the deployed code | the guard of every request |
| Videos (`routes/media`, `queue/duration.consumer.ts`) | files on the disk or in Azure, the queue of probes, `Lesson.duration` | uploads, announcements, probes; streams in ranges | outline, both processes |
| Lists and details (`routes/course`, `student`, `coupon`, …) | none | filters by owner, enrolment and price; pages | everything |
| Profile | the caller's `User` row | read, change the name or the password | users, password reset |
| Web sockets, e-mail, Telegram, validation | none of their own | I/O | – |

The process is one Node event loop, so code between two awaits runs undisturbed;
everything else interleaves: every await in a handler is a point where any
other request, the BullMQ worker or another connection may act. PostgreSQL runs
transactions at READ COMMITTED: a statement sees what is committed when it
starts, and waits for row locks and unique-index entries that an open
transaction holds. The bank calls the webhook and calls again until it gets a
success. Redis may refuse a call, and both the process and a connection may
die between any two awaits.

Hard behaviours, each listed at its line in `PROJECT.json` under `hazards`:
checks read before an await and acted on after it (cancel against pay, cart
check against order, renewal of one token by two requests); the same order
reached by webhook, customer and worker; duplicates and lost calls from bank
and queue; a transaction that loses to a unique index or a deadlock after doing
half its work; the swallowed errors after a commit; orders computed from counts;
and rows soft-deleted under a handler that has already looked at them.

What makes each part correct:

- **Checkout** (cart, order, payment, job): nothing is given away, every
  payment settles exactly its order, whoever has paid is enrolled, one cart item
  becomes one order, a purchase happens whole or not at all, no request waits
  for ever, an order whose job is queued is resolved in the end.
- **Outline**: lessons are completed in order, nobody is locked out, a diligent
  student finishes.
- **Sessions**: one row per session whatever renewals race, a logout is final, a
  request acts in a role its user has, the browser's cookie follows the row.
- **One-time codes**: a code admits at most one request; a failure does not cost
  the customer both code and account.
- **Enrolment administration**: the synchronisation ends with the roster it was
  given, or fails, and does not undo a purchase it has not seen.
- **Combos**: who buys a combo is enrolled in all that it was made of.
- **Coupons and pricing**: a coupon that a customer is shown a discount of is accepted,
  and the charge is the price less that discount, but for the rounding of two formulas.
- **Roles**: only an admin touches admins, whatever updates interleave.
- **Permissions**: a synchronisation that gets to its end leaves exactly the routes
  there are, related to the base roles by module; until then nobody loses a route
  that stays.
- **Videos**: every job ends and makes room, a duration that is due arrives, what a
  worker writes was measured on an upload of a pending job's name, a range is
  answered with its bytes.
- **Lists**: an agent is shown what he may edit, a customer what opens for him, and
  besides only courses in which he is blocked.

## 2. The plan

In order of importance; a check mark is a module that is here.

| Module | Models | Abstract specification | Composition |
|---|---|---|---|
| ✓ `Checkout` | cart, orders, payment, job, enrolment by purchase and by a teacher | ✓ `PurchaseLedger` | takes prices and combos as constants |
| ✓ `CheckoutProofs` | – | implements the ledger | extends `Checkout` |
| ✓ `Outline` | chapters, lessons, gate, progress | ✓ `Curriculum`, in which a completion is one step | takes the roster as input |
| ✓ `Session` | tokens, guard, logout, sweep | ✓ `SessionLife`: a session begins, passes from key to key and ends | – |
| ✓ `SessionProofs` | – | implements the life of sessions | extends `Session` |
| ✓ `Accounts`, `Registration`, `Profile`, `Administration` | the tables of users, roles and codes; one-time codes, registration, password reset; the own password; users and roles as staff edit them | ✓ `OneTimeCodes`, in which a code's use is one step | ✓ `AccountService` |
| ✓ `AccountProofs` | – | implements the one-time codes | extends `AccountService` |
| ✓ `Catalogue`, `Roster`, `Combos`, `Offers` with `Doubles`, `Listings` | the tables of courses, enrolments and coupons; bulk enrolment, moves, removals; combos; coupons, what is previewed and what is charged; lists, details and pages | ✓ `RosterEdits`, in which an edit is one step | ✓ `CatalogueService` |
| ✓ `Access` | permissions, roles, their synchronisation with the routes (`create-permissions.ts`), the guard's check | – | extended by `Library` |
| ✓ `Library` | uploads, jobs, workers in two processes, lessons' durations, ranges | ✓ `ProbeQueue` | ✓ `Platform` |
| ✓ `AccessProofs`, `PlatformProofs` | – | the safety of `ProbeQueue` | extend `Platform`, and the second the first |
| ✓ `OutlineProofs` | – | implements the curriculum | extends `Outline` |
| ✓ `CatalogueProofs` | – | implements the edits of rosters | extends `CatalogueService` |

## 3. How handlers become actions

Every handler is split at its awaits: what runs between two awaits is one action,
guarded by `req[s].pc`, the place the request in slot `s` has reached. A request
that returns early without having written anything goes back to `idle`; when even
its first read refuses it, it is not started at all (the refusal is the negation
of the first action's guard). What a handler has read and will use later is kept
in its record, so a stale value is stale in the model too.

A statement outside a transaction takes effect at once. Inside
`$transaction` the rows written are kept in the request's record and appear in
the commit action: that is READ COMMITTED. Row locks and unique-index entries are
read off the same records: `CartLocked`, `OrderLocked`, `WaitsFor` (Checkout),
`ChapterLocked`, `LessonLocked` (Outline). An action that needs a locked row is
not enabled until the holder is done, and then looks at the row again, as
PostgreSQL does. A cycle of waits is broken by `DeadlockVictim` / `Aborted`.

Ids are handed out in order and bounded (`MaxCarts`, `MaxOrders`, `MaxChapters`,
`MaxLessons`, `MaxTokens`, `MaxUsers`, `MaxRoles`, `MaxCourses`, `MaxEnrolments`,
`MaxCoupons`, `MaxPermissions`, `MaxKeys`, `MaxVersions`); past a bound a request is
dropped before it writes, and the script of `Access` stands still.
Other bounds: `MaxFaults`, `MaxEdits`, `MaxChanges`, `MaxTime`, and the `Budgets` of
`Platform`, from which every request, run of the script and fault takes one (`Spend`). `MaxTries` is no
bound but the job's `attempts`. At rest (the
catalogue and `Platform`: when the bound on requests is reached) a model stutters by its action
`Quiescent`, so deadlock checking is on in every run: a request or a job that can
never go on would be reported (in the catalogue, by `EditsEnd`).

### Checkout

| Code | Actions |
|---|---|
| `cart.repo.ts` createCart | `CartCheckOrder`, `CartCheckCourse`, `CartInsert` |
| deleteCart | `DeleteCart` |
| `O:` createOrder | `OrderReadCart` (coupon, cart item, price), `OrderTxBegin` (order.create, cartItem.delete), `EnrolFind`/`EnrolCreate` per course when the order is free, `OrderNotify`, `OrderCommit`, `JobAdd` |
| `O:` cancelOrder | `CancelRead`, `CancelWrite` |
| `P:` receiver, payment.service.ts | `PayReceive`, `PayCreate`, `PayRead`, `PayUpdate`, `EnrolFind`/`EnrolCreate`, `PayCommit`, `JobRemove` |
| payment.consumer.ts, shared-payment.repo.ts | `JobStart` (concurrency 1), `JobCancel`, `JobFails` (retried up to `MaxTries`) |
| faults | `RequestLost`, `JobAddFails`, `JobRemoveFails`, `JobFails`, `DeadlockVictim` |
| outside | `BankTransfer` (any order id, any amount), `EditCourse`, `TeacherEnrol`, `TeacherRevoke` |

State: `cartItem`, `order` (with its snapshot's total), `payment` (transfer id to
order), `enrolment` (live rows), `course` (price, visibility), `job`,
`transfer`, `notified`. `revoked` is a history variable: the orders whose
enrolment a teacher has taken away since the purchase granted it; without it
`PaidGrantsAccess` could not tell a revocation from a loss.

`PurchaseLedger` has no requests, locks, jobs or faults: seven kinds of atomic
steps over the same tables. `ImplementsLedger` says that every step of Checkout
is one of them or none; the refinement mapping is the identity on the tables,
and all the rest is hidden.

### Outline

One course. `CreateChapter`/`CountChapters`/`InsertChapter` and the same for
lessons (an order is a count taken before the insert); `UpdateChapter`,
`DeleteLesson`, `DraftCourse` are single statements; `UpdateLesson`/`WriteLesson`;
`DeleteChapter` or `DeleteCourse`, `DeleteLessons`, `CommitDelete` are the two
transactions; `ReorderRead`/`ReorderWrite`. A completion is `CompleteLesson`
(access), `ReadCurrent`, `ReadPrevious`, `CountIncomplete` (the gate), `Confirm`,
`Upsert`. The editor is the owner or an admin, so the `createdById` filters
pass. `Preceding` is the code's query for previous lessons, with what it leaves
out left out: it does not ask whether a lesson's own chapter is a draft or
deleted. `ShownBefore` is what a student would call "before". `reshaped` is a
history variable: whether a lesson has been added, published, moved or reordered
since the start. Whoever completed a lesson before such an edit need not have
completed what the edit puts in front of it, so `ProgressInOrder` speaks of the
time until then; hiding, showing and deleting chapters or the course, deleting
lessons and drafting them do not end it.

`Curriculum` knows who has completed what, which lessons are asked for before each, and
`reshaped`: a completion looks and writes at once, edits ask for less, or reshape the
course. Outline maps `asked` to what `Before` gives for the lessons that are there, and
hides requests, drafts and deletions.

### Session

`Send`, `ReadSession`, `CheckUser`, `DropSession`, `RenewSession`, `Permit` are the
guard; `Use` stands for any handler; `Logout`, `Login`/`LoginCreate`, `Respond`
(the browser sees the answer, in any order), `Sweep`, `ChangeRole`, `Tick`,
`RequestLost`. A renewal changes the primary key of the row, keeps `createdAt`,
and descends from a login: `signed[t].session` is that login's token, a history
value used by properties only. `loggedOut` and `ended` are history as well.

`SessionLife` has no requests, responses or cookies. A session, named for its first key,
begins, is renewed, ends by a logout, a drop or the sweep, and a key that is spent stays
spent. Session maps a session's key to the token of its login's that has a row; tokens
without a row are spent, unless a renewal in progress is about to write them; a session
is `doubted` while a request is about to drop it.

### Accounts

`Accounts` declares the tables and the requests, `Registration`, `Profile` and
`Administration` are three sets of handlers over them, and `AccountService` composes
these, with expiry (`Expire`) and restarts of the process (`Restart`), which lose
its requests and its cache.

| Code | Actions |
|---|---|
| `auth.service.ts` sendOTP, `auth.repo.ts` createOTP | `SendOTP`, `CreateOTP` (an upsert: one code per e-mail and type) |
| validateOTP | `PresentCode` (read and checks), `DeleteOTP` |
| register | then `FindStudentRole` (cache), `CreateAccount` |
| forgotPassword, changePassword | then `FindByEmail`, `ChangePassword` |
| `profile.repo.ts` changePassword | `VerifyPassword`, `StorePassword`, which looks for the user again and not for the password: a reset that comes in between is overwritten |
| `user.service.ts` create, update, delete | `CreateUser`/`InsertUser`, `UpdateUser`/`WriteUser`, `DeleteUser`/`MarkDeleted` |
| `role.service.ts` create, update, delete | `CreateRole`, `UpdateRole`/`WriteRole`, `DeleteRole`/`EraseRole` |

An administrator's e-mail, status and password are looked at by nothing before the
write and chosen there. `spent` is a history variable: whether a code has admitted
a request since the last one was sent. The requests carry what they have read:
`seen`, the target's role, and `byAdmin`, what the guard found the agent to be.

`OneTimeCodes` knows the keys (e-mail and purpose) that have a good code and those whose
code has admitted nobody, the address of each account, the accounts whose password a code
has set, and what each request may do, once: ask to be admitted, open an account for the
address of its key, find the account that has the address, set its password; and, for
staff and owners, enter or edit one account. `AccountService` maps a `VerificationCode` row
to a key, and a request's place and record to its permit. A code may expire, or be replaced
by the next, between the read of `validateOTP` and its deletion: the request is then still
admitted, by whatever row the deletion finds, and so `Admit` asks for an unspent code and
only `Present` for a good one.

### Catalogue

`Catalogue` declares the tables, `Roster`, `Combos` and `Offers` are the handlers over
them, and `CatalogueService` puts them together.

| Code | Actions |
|---|---|
| `student.repo.ts` createCourseEnrollment | `SyncCheck`, `ReadRoster` and `ReadUsers` in either order (a `Promise.all`), `Create` and `Drop` per student, `CommitSync`; `Abort` by deadlock detection |
| updateCourseEnrollment, deleteCourseEnrollment | `UpdateEnrolment` (the checks), then its one update as `LockRow` (the row) and `WriteEnrolment` (its new index entry, and the commit); `DeleteEnrolment` |
| `course.repo.ts` createCourse | `CreateSingle`; `CreateCombo`/`InsertCombo` |
| updateCourse | `UpdateSingle`; `UpdateCombo`/`Expand`/`Reshape` |
| deleteCourse | `DeleteCourse` (what is under it: Outline) |
| `coupon.repo.ts` create, update, delete | `CreateCoupon`, `UpdateCoupon`, `DeleteCoupon` |
| validateCoupon; createOrder's check and `getTotalPrice` | operators `Validated`, `DiscountAmount`; `Accepted`, `TotalPrice` |
| outside | `Buy` (Checkout has it in full), `SetActive` (an administrator blocks a user or lets one in again) |

The lists of a request's body are sets; so a synchronisation inserts and deletes in any
order, and lists with repetitions are left out: naming a new student twice fails the
whole synchronisation on the unique index, naming a course twice is refused. `updated`
is a history variable: the combos whose children have been updated.

A single update is a transaction of its own: PostgreSQL locks the row it finds, and only
then waits for the index entry of the row's new course and user. `held` are the rows that a
request has locked, to drop them or to change the one; the entry that a held row has now is
held as well (`EntryHeldBy`). So two changes of a row, each to the other's place, deadlock, and
so do one and a synchronisation; `WaitsFor` has all these waits. An enrolment's `status` is
written by updates alone, and read when a course is opened.

`Offers` has both formulas as the code has them: validateCoupon multiplies the price by
`(100 - discount) / 100` (`CoursePrice`), getTotalPrice by `1 - discount / 100` (`Reduced`).
`Doubles` is their arithmetic: a number is the set of the exponents of its powers of two, an
operation is exact and then rounded to 53 digits, half to even. `KnownAmounts` in
`MCCatalogue` is an amount on which the formulas differ, as Node prints it; both formulas
were also compared with IEEE doubles on 750 random amounts and agreed on each bit.

`Listings` are operators: what `generateFilter`, `buildWhereClause`, `generateWhere` and
`generateQuery` let through (`ManagedCourses`, `PublicCourses`, `ManagedRows`,
`ManagedCoupons`), the details next to them (`ManagedDetail`, `RowDetail`,
`CouponDetail`, `CanAccessCourse`), and the bought courses, which hand-written SQL lists
(`Bought`) and a filter counts (`BoughtCounted`), in pages (`Page`, `TotalPages`).
They are evaluated in every state that the handlers reach. `Places` are the pages and places
where a customer finds a course, up to the last page that is announced; he is to find each of
his in one of them, and no others but those in which his enrolment is blocked (`Blocked`), which
the SQL lists and canAccessCourse does not open (`FoundOnce`).

`RosterEdits` knows the entries of all rosters, pairs of a course and a user, and the plans
that synchronisations have drawn up from their reads. A purchase, a removal and a move
change one entry; a plan is carried out as a whole, if whom it drops is there and whom it
adds is not, or given up. The catalogue maps entries to the live rows, and a plan to what a
request has read, from its second read to its commit or end; combos, coupons, owners, locks
and single statements of the transaction are hidden.

### Access, Library and Platform

`Platform` is the service and, beside it, the process that runs
`create-permissions.ts`; they share the database and the queue.

| Code | Actions |
|---|---|
| `permission.repo.ts` create, update, delete | `CreatePermission`, `UpdatePermission`, `DeletePermission` |
| `role.service.ts`, `role.repo.ts` | `CreateRole`, `UpdateRole`/`WriteRole`, `DeleteRole`/`EraseRole` (with the relation to permissions; `Administration` has users and the cache) |
| `session-token.guard.ts` validateUserPermission | operator `Allowed` |
| `create-permissions.ts` | `StartScript`, `ReadPermissions`, `DeleteObsolete`, `AddMissing`, `Reread`, `FindRole`/`SetRole` for three roles in any order (a `Promise.all`), `ExitScript`; `KillScript` |
| `media.controller.ts` upload, upload-by-name | `Receive` (multer opens the file), `Accept` (the job), `Reject` (the pipe unlinks it) |
| init; the client; upload-success | `InitUpload`; `Put`; `UploadSuccess` (three attempts) |
| `lesson.repo.ts` create, update, delete | `CreateLesson`, `UpdateLesson` (with any duration), `DeleteLesson` |
| `duration.consumer.ts` | `TakeJob`, `Measure`, `FindLesson`, `WriteDuration`, `Complete` |
| BullMQ | `AttemptFails`, `Stalled` (a job whose worker is gone is queued again, once) |
| faults | `Break` (an attempt), a refused job in `Accept` and `UploadSuccess`, `Restart` |
| streaming routes | operators `LocalLength`, `LocalBytes`, `AzureLength`, `AzureBytes`, `Unsatisfiable` |

A video's key is the name of its job, so `job` is a function of keys. A duration is
that of the *version* of a file (`origin` has the name each version was
uploaded under), which tells a stale duration from a good one; what the body of a create or
an update holds may be any (`Durations`), also that of a file that is not there. `Whole` are the
versions that last whole seconds: ffprobe returns fractions, `Lesson.duration` is an
Int, and the model lets a write of any other version succeed or throw. The upload
routes write to the disk and add jobs in Azure mode as well; what a probe then looks for is
a blob, so that such a file is none to it (`OnDisk`). `undisturbed`,
`probed` and `awaited` are history variables: whether an administrator has written
since the script read; the lessons whose duration a worker wrote last; the keys whose durations
are due, from an announcement that adds the job, with the file there and one lesson
showing it, until file or lesson is touched or the attempts are used up.

`ProbeQueue` knows pending keys, uploads, durations and which of them a worker wrote last: a key
becomes pending and, by weak fairness, is settled; in between, a worker may give a lesson a version
uploaded under the key's name; owners enter any duration, which is then not a worker's any more. `ImplementsProbeQueue` maps `pending` to the keys that have a
job and hides workers, attempts, stalls and both processes.

## 4. The runs

Names in `PROJECT.json`; distinct states are of a complete run.

| Run | Shows | States |
|---|---|---|
| `checkout_races` | 2 requests, 2 transfers, course and combo, free coupon, a teacher who enrols and removes: all safety properties and the refinement | 1.4 M |
| `checkout_faults` | two faults of any kind at any await while price and visibility change: who is told, a queued job ends its order in spite of lost requests and failing attempts, an exact transfer, delivered again after failures, settles | 155 k |
| `checkout_deadlock` | two combos sharing two courses deadlock; requests end | 106 k |
| `outline_study` | every edit, two of them, against overlapping completions: in order, nobody locked out, a diligent student finishes | 311 k |
| `session_races` | 2 requests of one browser with renewal, logout, sweep, role change and one loss | 3.6 M |
| `accounts_races` | 2 requests out of registration, reset, own passwords and administration, an expiry or a restart: codes admit once, ADMIN stays, only admins make or touch admins, a customer who keeps trying gets an account | 487 k |
| `catalogue_edits` | 2 requests out of synchronisations, moves and combo edits, three requests in all with purchases, blocked users, deletions and coupons: what a synchronisation may and must change, who edits which row, combos of combos are complete, lists show what may be edited, what opens or is blocked, what a coupon takes off is what is charged, and requests end, deadlocked ones too | 280 k |
| `platform_sync` | administrators and a script that is killed and run again; uploads, lessons and probes with two faults; uploads beside the script, which abandons a probe when it exits: exact synchronisation, service meanwhile, due durations, ranges, the abstract queue | 566 k |

Runs that TLC refutes, each a finding in `PROJECT.json`:

| Run | What happens |
|---|---|
| `checkout_paid_final` | a cancel that read PENDING, or the job, turns a PAID order into CANCELLED |
| `checkout_two_orders` | an order placed between createCart's check and insert leads to two open orders |
| `outline_first_lesson` | a published lesson in a draft chapter shuts the first lesson on show |
| `session_parallel` | two requests with one token: the second is told its good session is invalid |

The models also contain behaviours of the code that no run states a property of,
because the code promises nothing else; a reader should know of them:

- a free order's success message (`O:251`) is sent inside the transaction and
  precedes a commit that may fail, so it can name an order that does not exist;
- one refused `queue.add` (`O:266`) leaves an order PENDING for ever, and its
  customer cannot put the course into the cart again until it is cancelled by hand;
- a chapter's or lesson's order is a count of live rows, so after a deletion, or
  with two requests at once, two of them have one order (`chapter.repo.ts:38`,
  `lesson.repo.ts:185`);
- `updateLesson` may move a live lesson into a deleted chapter
  (`lesson.repo.ts:228`), and createLesson may insert one into a chapter that is
  being deleted: it can no longer be edited and still counts in the gate;
- a reset looks for an ACTIVE account with the e-mail and not for a live one
  (`auth.repo.ts:155`), and may change the password of a deleted account in place
  of the live one;
- a code sent between validateOTP's read and its deletion is the one that is
  deleted (`auth.service.ts:28`);
- `register` returns its promise from the `try` without awaiting it
  (`auth.service.ts:59`), so that the refusals of the insert are not the ones
  written there; the code is consumed all the same;
- only ADMIN is spared by a rename (`role.service.ts:59`): STUDENT and TEACHER may
  be renamed, and the cached id then goes on to be given to who registers;
- an update or deletion that was checked against its target's role takes effect
  although the target has become an admin since (`user.service.ts:109`), and two
  admins may delete each other.

- a combo may contain combos, and after an update itself, although
  the repository's `README.md:33` calls it several singles: createCourse connects the combos asked for
  as well as their children (`course.repo.ts:530`), updateCourse only the children
  (`course.repo.ts:624`), which may be combos, among them the one that is updated;
- two overlapping updates of one combo leave a mixture of both (`course.repo.ts:629`),
  and two overlapping synchronisations of one course may leave the union of both
  rosters (`student.repo.ts:315`);
- a synchronisation neither sees nor touches the enrolments of blocked users;
- a video that is not an .mp4 is probed under a name it does not have
  (`duration.consumer.ts:26`) and never gets a duration; files of one key that differ
  in their extension share a job;
- a probe that runs before there is a lesson with its key leaves no trace, one that
  finds two updates either, and one that has found its lesson writes by id although
  the lesson shows another video by then (`duration.consumer.ts:30-32`);
- an upload over a video whose job is active adds none (`media.controller.ts:182`), and
  the old duration may stay; a rejected upload by name unlinks the video that was there;
- createLesson and updateLesson write whatever duration the body holds, 0 where it has none
  (`lesson.model.ts:12`, `lesson.repo.ts:191`, `:245`), over what a probe has measured;
- a total with a fraction, of which 34 % off 100000 is one only by rounding
  (65999.99999999999, shown as 66000), is never paid, because the webhook compares it with
  the whole amount of the transfer (`P:98`); such an order can only be cancelled;
- a student whose enrolment is blocked keeps the course in his list (`course.repo.ts:296`) and
  cannot open it (`course.repo.ts:847`);
- a bare `.catch()` handles nothing (`media.controller.ts:368`): a refused
  announcement fails the request, as the model has it;
- the local route announces more bytes than there are for a range past the end
  (`media.controller.ts:233`); the Azure route takes a suffix range for the whole file
  and asks for a negative count when a range is backwards;
- the script ends half-way if STUDENT or TEACHER has been renamed
  (`create-permissions.ts:130`), and takes from base roles what an administrator has
  filed under another module;
- the count of bought courses includes removed enrolments and heeds `skipCourseId`, the
  list does neither (`course.repo.ts:171`, `:296`);
- createOrder does not ask whether the coupon is deleted (`O:133`), as validateCoupon
  does, so a deleted coupon goes on discounting until it ends.

Outside the models:

- the list of bought courses sorted by `sale` orders by a column that does not exist
  (`course.repo.ts:307`), and sorts by price leave ties open, so that pages may overlap;
- a course's detail asks for the progress of `where.userId` (`course.repo.ts:86`): without one
  the filter lets everybody's progress through.

`ProgressInOrder` also shows why `outline_first_lesson` has no one-line remedy:
were the gate to ask only for lessons on show, a chapter shown again would have
unfinished lessons before finished ones.

**Bounds.** Handlers meet pairwise: they interact through one row, index entry
or job, so two slots give every order of two requests' steps, and the worker, the
bank, owners and teachers act beside them without a slot. Two cart items and two
orders are what two purchases need (also of one course twice), two
transfers what it takes to compete for an order; amounts are zero, the price
and, where prices change, another one. Two faults allow a failure and a failed
repair; they are fewer than the job's three attempts, which `JobEndsOrder`
needs. `checkout_faults` has one order: faults concern one
purchase, and what two do to each other is `checkout_races`. Two chapters of a
lesson each, which moves may put into one chapter, give both forms of "before";
two edits are enough to hide and show, or to move and delete. A lifetime of two
ticks is past its third after one, and the clock runs past the first expiry;
three tokens are a login and two renewals, or two logins and a renewal. In
`accounts_races` two edits are a promotion or a new role that meets another
request of staff or a change of the own password; staff enter the status BLOCKED, so that a row of theirs
differs from one that a registration makes, and the roles ADMIN and the first one
that may be created; five users are the two seeded ones and what two requests and
a repetition insert; one customer with one code value, since an old code with the
same digits as the new one is the worst case. In `catalogue_edits` (`MaxCourses`,
`MaxEnrolments`, `MaxCoupons`) three requests are two that overlap and one before,
between or after them, a combo and a combo of it, or two synchronisations that
deadlock over two students, or two changes that do so over the rows that a synchronisation
has made, or a change and a synchronisation over a row bought before; two singles of
different owners and two combos; one coupon. `RosterBodies` and `ComboBodies` are
the lists that are sent: one student or both; the singles, and a single with a combo.
The prices and coupons (`MCTerms`, `MCDiscounts`) are
one on which the two formulas part, one in quarters, which is exact, half off and a fixed
discount above the lower price; `OtherAmounts` adds percentages that round alike and the
largest price an Int holds. In `platform_sync` each of the `Budgets` is one question: two
administrators' requests (`PermissionBodies`, `RoleBodies`: a new route entered by hand
under another module, an old one again, a teacher's role by hand and one that is new
and inactive) beside a killed script; one beside two runs; three requests about videos
with two faults; two beside the script. Three routes are one that is gone, one that
stays and one that is new; two keys and three versions let an upload replace another,
two lessons (`MaxLessons`) let a key have two. The
proofs of section 6 hold without any of these bounds' values.

**Symmetry** is used for slots, transfers, roles and browsers, only where no
liveness property is checked.

## 5. Fairness

- `WF(Continue(s))`: Node runs on whatever request can run on.
- `SF(PayCreate(s))`: hopeless transfers may be delivered for ever, each holding
  the index entry for a while, but PostgreSQL queues the waiters, so that one of
  them is not overtaken for ever.
- `WF(JobStart(o))`, `WF(JobCancel(o))`: the BullMQ worker runs.
- `RedeliverySpec` adds that the bank delivers a booked transfer until it is
  recorded (the webhook's contract).
- `CustomerSpec` (Accounts) adds a customer who keeps asking for a code when there
  is no good one and keeps using the one there is: strong fairness, because both
  come and go while others send, use and delete codes. It is the hypothesis of
  `CustomersGetAccounts`; codes that expire count as faults and are bounded.
- `StudySpec` adds a diligent student, who keeps sending a request for an open,
  unfinished lesson. This is the property's hypothesis and not a claim about
  students.

- `WF(Work(p))`, `WF(Stalled(k))` (Platform): the worker of a process that is up goes
  on, and some worker looks for jobs that have stalled. The script, uploads and
  restarts are not fair.

`EditsEnd` (Catalogue) needs `WF(Continue(s))` alone: waits are for a commit that
nobody overtakes more than `MaxEdits` times, and a cycle of waits is broken by
PostgreSQL, which aborts one of its transactions.

Customers, teachers, owners, admins and faults are never fair.

## 6. What is proved

`CheckoutProofs` proves, with TLAPS and for every value of the constants that
satisfies the assumptions of `Checkout` (`BoundsAssumption`,
`CatalogueAssumption`, `MoneyAssumption`, `NoneAssumption`): `TypeCorrect`,
`NothingGivenAway`, `EachPaymentSettles`, `PayersAreEnrolled`,
`CartItemsOrderedOnce`, `ToldIsSettled`, and `PurchasesAreAtomic`, that Checkout
implements `PurchaseLedger`. They hold for any number of customers, courses, requests,
orders, transfers and faults.

All rest on the inductive invariant `IInv = TypeOK /\ RequestInv /\ TableInv`.
None of the table properties is inductive alone, because between its check and
its commit a handler relies on what it has read:

- `Shaped` says what a request carries at each await;
- `OrderTxSound` and `PayTxSound` say that what an open transaction has read still
  holds, since the rows are locked: the cart item is there, the new order is not,
  the transfer's order is unsettled and costs exactly the transfer's amount;
- `GrantSound` follows the enrolment loop: the bought course is still to be looked
  at, is being inserted, was inserted, was found in place, or has been revoked;
- `Apart` says that two transactions never hold one cart item, one new order id,
  one transfer or one order's payment.

The proof is by frames. Most actions write no table: for those (`TablesKept`,
`RequestFrame`, `OneRequestMoves`) it is enough to look at the request that
moves. The few that write (`OrderCommit`, `PayCommit`, cancellations, cart and
roster changes) are shown to be an evolution of the tables that spares what other
requests rely on (`Evolves`, `Spared`, `SparedSound`), from which
`TablesChange` gets everyone else's invariant at once. The refinement then needs,
per writing action, the ledger step it is, and a stutter for the rest.
`ToldIsSettled` adds `NotifyInv`: a free order's customer is told while its
transaction is open, so an order that is told of may not be there yet; its id is then in
use, and any transaction that may still place it has nothing to pay.

Liveness itself is TLC's, but what it comes from besides fairness is proved, for any
instance with finitely many slots, and finitely many courses. `NeverAllWait`: however
many requests wait only for one another (`Blocks`: for cart rows, orders, payments or
enrolments), one of them can go on, or PostgreSQL aborts it; the least set of requests
that each wait for another one is a cycle, and well-founded inclusion of finite sets
provides it (`CycleInside`). `WaitsAreAll` says that a step is taken only by a request that nobody
blocks, or by the victim of a cycle, so that what `Blocks` calls a wait is one.
`RequestsRunDown`: each step of a request leaves it fewer steps to go
(`StepsLeft`), and no other request's step gives it more.

`SessionProofs` proves all the properties of `session_races` from
`SessionAssumption` and `NoneAssumption` of `Session`: `TypeCorrect`,
`SessionsHaveOneRow`, `LogoutsAreFinal`, `HandlersActInRole` and
`CookiesFollowRows`, for any number of browsers, requests, tokens, roles, role
changes and losses, and any lifetime. The inductive invariant adds to them:

- `SignedInOrder`, `SignedSound`: an unused token id is really unused, and every
  row, cookie and logout is of a token that was signed at or below a login. Two
  renewals of one session therefore never sign the same token;
- `ReqSound`: what a request carries. Between the guard's look at the row and its
  update the row may have gone, so it says nothing of the row; it does say that
  the role the token claims was the user's at some time since the request began;
- `DeliveredOnce`: until a response brings a token, no cookie and no request's
  sent token is that token. This is what stops a request with the *new* token from
  renewing or logging it out before its own response has arrived, and so what
  makes a request that has renewed sure that its row is still there;
- `OneBrowser`: a session's tokens stay with the browser that logged in, so that
  the requests that can move a cookie's row are that browser's own;
- `RowsFollowed`: `CookieFollows` for a browser with answers under way, whose
  successor token is one of those answers. `CookieFollows` alone speaks only of
  browsers at rest and says nothing on the way there.

As in Checkout the steps that only move a request go through frames
(`RequestFrame`, `OnceFrame`, `OwnerFrame`, `FollowFrame`); the steps that write a
row, sign a token or deliver one have a lemma each.

`SessionsLiveOnce` shows that Session implements `SessionLife`, and
`ReplacedTokensOpenNothing` carries over what `SessionLife` promises
(`SpentKeysOpenNothing`): no two sessions share a token, and one that a renewal has
replaced, or whose session is over, opens nothing again. A second invariant, `LifeInv`, says
besides `IInv` what a renewal needs to be one: the row it would replace was created when
the request says, the new token has no row yet and never expires before the old one
(`RenewSound`); rows are of sessions that have not ended (`EndedSound`); and tokens of one
session are signed for one role (`SignedAlike`). `KeyFacts` characterises the key of a
session by its row, so that each step is looked at token by token.

`AccountProofs` proves the safety properties of `accounts_races` from
`AccountsAssumption` and `SeedAssumption` of `Accounts`: `TypeCorrect`,
`AdminRoleIsFixed`, `OneAdmissionPerSend`, `OnlyAdminsAppoint` and `AdminsSpared`,
for any e-mails, codes, roles, requests, edits and faults. The inductive invariant
is `TypeOK`, `AdminRoleStays`, and

- `Sound`: what a request has found out and nobody can take back. A role that a
  request is about to rename or remove is not ADMIN *now*, although its name was
  read before, because ADMIN is one id for ever; whoever carries the role ADMIN
  for a user has an admin as its agent; a user whose password is about to be reset
  exists, because rows of users are never removed;
- `SpentIsGone`: a code that has admitted a request is gone until the next is
  sent, so that a deletion which finds a row is the first since then;
- the cached id of STUDENT is not that of ADMIN, whatever else it has become, so
  that registering makes no admins.

The action properties follow from it by a case analysis of who may write
(`Admission`, `Appointment`).

`CodesAreUsedOnce` shows that AccountService implements `OneTimeCodes`: a code sent admits
one request, and an admission opens or resets one account at most. It says more than
`EachSendAdmitsOnce`, which ends with the admission: there is no other way to a row of
`User` than an admission or a request of staff, each spent by it, and no other way to a
password set by code; the account that is reset had the address when it was looked for. Each action is one
step of the abstraction by what it does to a permit (`PermitMoves`), to a row
(`RowShows`) and to the keys (`SendShows`, `AdmitShows`); that an inserted row is new
needs a least free id (`NextUserFree`). `RequestsRunDown` is what, with fairness, ends every
request: these handlers wait for nobody, and each step leaves them fewer.

`AccessProofs` and `PlatformProofs` prove all that `platform_sync` checks except
that jobs end: `SyncIsExact`, `ScriptKeepsServing`, `TypeCorrect`,
`DueDurationsLand`, `RangesServed`, and `JobsAreProbes`, the safety part of the
refinement of `ProbeQueue`. They rest on `AccessAssumption` and
`LibraryAssumption`, and hold for any routes, modules, seeded rows, keys, versions,
lessons, requests and budgets, since no bound but the shape of a budget is used.
There are three inductive invariants, each of which may use the one before it:

- `AccessInv`: ids of the sequence are unused, live roles have different names, and
  `ScriptSound`: as long as no administrator has written since the script read,
  what it is about to delete or add is what is wrong *now*, then the routes are
  right, then so is each role that it is done with. The permissions that a role is
  about to get are those read last, and the row it was found by is still that
  role's (`RoleSound`). Whatever earlier runs have left behind is not mentioned: it
  is what the first read has seen, and so killed runs need no argument of
  their own;
- `LibraryInv`: a file's version was uploaded under its name, and so was the one a
  worker has measured, although the file may be another by now; a job at which
  somebody works is active and nobody else works at it; a duration that a worker wrote
  last is of an upload under a name that workers probe (`ProbedMeasured`), whatever owners
  have entered elsewhere. It gives `TypeCorrect`, and the refinement: a step of
  a worker, a request or a process is a job that comes or goes (`OneJob`), an upload
  (`OneUpload`), a lesson that shows what has been measured (`OneLesson`), a
  measurement for a pending key, or nothing that the queue sees;
- `AwaitedInv`: `AwaitedProbesLand` alone speaks of keys whose job is gone; that it
  is right then needs, of a key that is due, that its file lasts whole seconds,
  that exactly one lesson shows it, and that whoever works at its job has this very
  version and this very lesson, up to the point where the lesson shows it (`Due`).

As elsewhere, most steps go through frames: `TablesAwaited`, `FilesAwaited` and
`LessonAwaited` say that what is touched is no longer due, `WorkerAwaited` leaves only the
key of the worker that moves.

`OutlineProofs` proves the safety properties of `outline_study` from
`OutlineAssumption`: `TypeCorrect`, `LessonsInOrder` and `NobodyLockedOut`, for any
outline to begin with, any plans of a reorder, students, edits and overlaps. The
inductive invariant `OutlineInv` adds to the types

- `Sound`: what a request refers to is there, which holds because rows are only
  marked as deleted, and `IdsDense`, so that a new chapter or lesson takes the place of
  no other;
- `CompletedInOrder`, as long as nothing is put in front of anything: whoever has
  completed a lesson has completed *all* published live lessons before it, those of
  hidden chapters too. `ProgressInOrder` speaks of the shown ones only and is not
  inductive, because a hidden chapter may be shown again;
- `Gated`: what the gate's four reads have brought so far. Deleting and hiding only make
  the set of lessons before one smaller (`BeforeShrinks`), so an old read asks for
  too much and never for too little.

`NobodyLockedOut` needs no history: of the unfinished lessons those in the chapters of
least order, and of these one of least order, have nothing unfinished before them.
The minima come from the well-founded order of the naturals (`WFMin`), since ties of
order are possible in both.

`GateIsAtomic` shows that Outline implements `Curriculum`: by `Gated` and `BeforeShrinks` the
write at the end of the gate is a completion that looks at that moment, and an edit that
is no reshaping asks for less. `CurriculumInOrder` is what the abstraction promises in turn.

`RowsDeletedOnce`: with `OutlineInv`, the rows a deletion has marked stay live until it
commits, and no other has marked them (`MarkedOnce`), whatever chapters, courses and lessons
are deleted, edited and reordered meanwhile; so `deletedAt` is never written over, and a
commit takes nothing from under another one. `StudyEnds` rests on `NeverAllWait`, `WaitsAreAll` and
`RequestsRunDown`: one of the requests that are under way can always go on, since a deletion that
has marked its lessons waits for nothing; the waits are all there are; and each step leaves
a request fewer steps, while no other touches it.

`CatalogueProofs` proves the properties of `catalogue_edits` but liveness, from `CatalogueAssumption` and `NoneAssumption` of `Catalogue`: `TypeCorrect`,
`CombosComplete`, `UnseenSpared`, `RosterAsAsked`, `OwnersEdit`,
`ListsEditable` and `BoughtReachable`, for any courses, staff, users, requests, coupons and bounds. The inductive
invariant `CatalogueInv` adds to the types

- `Refers`: what a request refers to is there, and its agent owns what it owned at the
  look-up, because courses never change their owner or kind; rows do change their
  course, which is why `OwnersEditTheirs` has its exception;
- `Holds`: what an open transaction has written is still as it was. Its new ids are
  nobody's, whom it has added is not on the roster, whom it has dropped still is, with the
  row as it was read, and the row that a change has locked is live;
- `Apart`: two transactions never hold one new id, one entry of a roster or one row. With
  `Holds` it makes a commit keep the partial unique index (`RowsUnique`), which the
  model's commit does not look at again;
- `Closed`: what a new combo is about to be connected to has all that is below it. It
  holds until a combo is updated, since until then the relation only grows under new
  courses, which nobody refers to yet (`InsertComboStep`).

`Outcome` says what becomes of each row at a commit, and the three action properties are
read off it; `WhoEnds` and `WhoWrites` show that a request which ends and has changed a row
has done so by its own commit or move.

`CoursesFound` says of every filter by price and every length of a page what `BoughtIsReachable`
checks of some: the SQL's list is the bought courses by rank, each rank is one place on one
page (`RankOnto`, `OnePlace`), and the count that announces the pages is never below the
list's length (`CountedListed`), since removed enrolments only add to it. A course that is
listed has a live row of the customer's, which is active, so that it opens, or blocked (`EntersOrBlocked`).

`EditsAreAtomic` shows that the catalogue implements `RosterEdits`. By `Holds`, at a
commit all that was dropped is still there and all that was added is not, and by
`RowsUnique` no entry has two rows, so that the commit carries out the whole plan
(`CommitEdits`) and a row that is bought, removed or moved is one entry (`OneEntry`); every
other step draws up a plan, gives one up, or shows nothing (`NoRowWritten`).

For `EditsEnd`, `NeverAllWait` and `WaitsAreAll` say of the requests on rosters what their
namesakes say of Checkout, with finitely many slots: a synchronisation that can neither
send a statement nor commit, or a change that cannot have its index entry, waits for another one
(`StuckWaits`), who is waited for has a transaction open (`HoldersHold`), and so one of those that
wait can go on or is in a cycle. `EditsRunDown`, with finitely many users, counts the statements a
synchronisation has left.

## 7. What is only model-checked, and what is not modelled

Liveness (`JobEndsOrder`, `RequestsTerminate`, `ExactTransferSettles`,
`StudyEnds`, `CustomersGetAccounts`, `EditsEnd`, and in `ImplementsProbeQueue` that every
job ends) and whatever speaks of `ENABLED` is beyond the prover and rests on TLC
alone. Of `RequestsTerminate` and `EditsEnd` that leaves two things: that a request which can go on
has an action enabled, and what fairness makes of it; the rest is proved. Of `StudyEnds`
and `CustomersGetAccounts` it leaves more: that students and customers come again, which
is assumed of them, and that in the end nothing is left to do. Every
safety property that a run checks is a theorem, except those that the code refutes and
`PreviewIsCharged`: that two roundings stay close for all amounts is analysis of doubles, for
which the provers have no means.
What is defined over a set of any size is proved by a least element or a least subset
instead of induction over data.

Not modelled:

- the caller's own profile but for its password (names), web sockets, e-mail and
  Telegram (I/O; what a customer is told about an order is `notified`), and the
  schemas of requests and responses;
- titles, images, wording, searches and the orders of lists; the lists of orders,
  carts, users, roles and permissions, which filter by their owner or not at all;
- uploads of pictures, and the storage beyond names, versions and ranges of bytes;
- a coupon's code and its dates, and prices in Checkout, which takes any
  `TotalPrice`, and leaves open whether a coupon is valid;
- whether a course is shown, in `Catalogue`; hard deletes, which no controller
  asks for; the ownership filters of edits in `Outline`.

The components without a module, or with a part of one, are marked in
`PROJECT.json`.
