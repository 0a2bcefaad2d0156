# Verification of mazoomen-backend

TLA+ models of the server in `src/src` (NestJS, Prisma on PostgreSQL, a Redis or
in-memory cache, S3, Tap Payments), checked with TLC and, where stated, proved
with TLAPS. Paths below are relative to the repository root `src/`.

## The system

The server sells invitation templates. A client asks for a template (perhaps
with a coupon) or pays for it; an approved request yields a *purchase*; a
purchase carries one published invitation, on which guests answer and leave
photos. Every operation is an HTTP call. There is no queue and no scheduler:
all concurrency is that of overlapping calls, which interleave at every `await`
(and, with several instances, at every query), on the database, the cache and
S3. Only `$transaction` groups writes; it runs at PostgreSQL's READ COMMITTED.

| component | state | operations that change it | what is hard | what makes it correct |
|---|---|---|---|---|
| purchase requests (`purchase-request.service.ts`) | `purchase_requests`, `purchases`, `coupons.used_count`, `users.phone_number` | create, updateStatus, cancel | checks read rows that a later query relies on; cancel is not a transaction | an approval and its purchase come together; a request is decided once; one pending request per user |
| coupons (`coupon.service.ts`) | `coupons` | create, update, toggleActive, softDelete, restore | limit checked in one query, counted in another, edited in between | count = requests that hold the coupon; count within the limit |
| payments (`payment.service.ts`) | `orders` | createCharge, handleWebhook, getOrderStatus, fulfillTemplateAccess | repeated and reordered webhooks beside status checks; bodies and charge ids taken on trust; death between COMPLETED and fulfilment | COMPLETED only on a charge captured at Tap that no other order has; who paid owns the template; no unbounded double fulfilment |
| purchases (`purchase.service.ts`) | – (reads) | – | – | – |
| invitations (`invitation.service.ts`) | `invitations`, cache `invitations:slug:*`, S3, `media` | create, update, toggleStatus, addMoment, guestUpload, findBySlug (fills the cache) | read-through cache filled with stale rows, cached NOT_FOUND, whole lists written back over concurrent pushes, S3 deletion before the row update | a reader eventually sees the last edit; no stored URL dangles; photo limit |
| RSVPs (`rsvp.service.ts`) | `rsvps`, idempotency locks, guestbook in the invitation's cache entry | create, toggleHide, softDelete | get-then-set lock, find-then-create per guest name | one answer per guest name; hidden messages disappear from the guestbook |
| media (`media.service.ts`, `s3.service.ts`, `scripts/migrate-local-images-to-s3.ts`) | S3 objects, `media` | uploadMedia, uploadAvatar, deleteMedia, cleanupOrphans, the script | two stores and the references to them without a transaction; clean-up works on a snapshot | objects, rows and references agree; a photo that is shown is not cleaned up |
| sessions (`auth.service.ts`, `jwt.strategy.ts`) | `refresh_tokens`, cache `users:id:*` | login, refresh, logout | rotation in two writes, logout beside refresh, cached accounts | one live token per session; who is logged out or deactivated stays so; a change of an account is seen after the key is deleted |
| accounts (`auth.service.ts`, `user.service.ts`) | `users`, `email_otps`, cache `otp:*` | sendRegisterOtp, register, reset, updateProfile, admin updates | code in two stores, unique fields checked before the write | a code works until it is used, and is used once; the checked account is the stored one |
| rate limits (`abuse.service.ts`) | counters and windows in the cache | checkRateLimit, login counters | read-modify-write without Redis | at most `limit` calls per window; a lockout after `limit` failures |
| testimonials, templates | rows, list caches | createOrUpdate, remove; create, update | stale cache fill; check before upsert | a removed review does not return |
| contact, notifications, audit log, mail, health, bootstrap, seed | single rows or none | – | – | – |

Interactions: payments write the tables of purchase requests directly
(`fulfillTemplateAccess`), an RSVP or a guest photo deletes the invitation's
cache key and inserts a notification, invitations and templates delete S3
objects and `media` rows, and every authenticated call reads the account cache.
`PROJECT.json` lists every component with its status and every hazard with its
line.

## Modules

| module | models | composes / refines |
|---|---|---|
| `PurchaseRequests` | purchase requests and coupons | refines `AccessLedger` and, without overlap, `RequestLifecycle` |
| `AccessLedger` | abstract: a request is approved at most once, with its purchase, and access stays | |
| `RequestLifecycle` | abstract: submitted, then decided once, as the controller documents | |
| `Payments` | orders, webhooks, status checks, fulfilment; Tap as environment | extends `PurchaseRequests` over the same tables |
| `Invitations` | invitations, their slugs, the page cache, RSVPs and the guestbook | |
| `Accounts` | one-time codes, registration, password reset, edits of accounts, Google, the account cache | |
| `Sessions` | password sign-in, refresh tokens, counters of failures | extends `Accounts` over the same tables and workers |
| `Media` | S3, the table `media`, galleries, previews and avatars, the clean-up, the migration script, the window of guest uploads | |
| `Catalog` | template and review lists with their cache | extends `Media`: an edit of a template deletes a file, writes the row and drops the keys |
| `MCPurchaseRequests`, `MCPayments`, `MCInvitations`, `MCSessions`, `MCCatalog` | constants for TLC | |
| `PurchaseRequests_proofs`, `RequestBounds_proofs`, `SerialRequests_proofs` | theorems and their proofs: with overlap, the two counts per user, without overlap | extend `PurchaseRequests`, the last two also the first |
| `Payments_proofs` | theorems and their proofs | extends `Payments` and `PurchaseRequests_proofs` |
| `Invitations_proofs` | theorems and their proofs | extends `Invitations` |
| `Sessions_proofs`, `SessionSafety_proofs` | the types; tokens, lockout, cached accounts and codes | extend `Sessions`, the second also the first |
| `Catalog_proofs` | theorems and their proofs | extends `Catalog`, and so `Media` |

### How state and actions correspond to the code

*Tables* are functions from ids to rows (`requests`, `coupons`, `orders`);
`purchases` is the set of requests that have a purchase row, because
`purchase_request_id` is unique and no code deletes a purchase. `phone` is
`users.phone_number`.

*Calls.* Each HTTP call runs on a worker (`Workers`, `PayWorkers`). The record
`calls[w]` holds the step its handler stands at and what it has read so far, so
a stale read is a stale field. One query, or one `$transaction`, is one action.
A call whose first query throws changes nothing and is not an action.
`calls[w] = Idle` means that the worker is free.

*Transactions.* `CreateCommit` and `UpdateCommit` are atomic: they write rows
that they address by id and read nothing, so READ COMMITTED allows no
intermediate state for others to build on (the row locks of the first write
order them). A unique key that refuses an insert rolls the transaction back
(`UpdateRollback`).

*Death of a call.* `Fail`/`PayFail` end a call between two awaits: the process
stops or a query is refused. Its writes stay. `MaxFailures` bounds the number.

*Data.* Ids are model values. A coupon's discount matters only when it is 100%
(`full`), a template's price only when it is 0 (`FreeTemplates`): prices are
stored in cents and discounts are 1 to 100 percent, so `finalPrice <= 0` exactly
in those cases. `templateDetails`, names, slugs and languages are left out. A
template's price is constant here although an administrator may change it: only
the price read at the start of `create` counts. The random slug of a purchase is
taken to be unique. `MaxUsesValues` and the
edit records follow the DTO validators; an absent field is `None`.

*Orders.* The charge that `createCharge` asks for has the name of its order;
`charge` in the row is `tapChargeId`, which is unique (`ChargeTaken`).
`checkout` is the set of orders whose customer was given the URL, and with it
the order's id. Tap (external) may refuse the
charge, lose its answer, capture or decline a charge, and repeat each webhook
any number of times in any order (`notices` only grows). Neither the webhook nor the
status check knows who calls: the webhook takes the order, the charge and the
status from the body, signed by nobody, and the status check asks Tap about the
charge its caller names. `Posts` are the bodies that others than Tap may post and
`Strays` the charges that a caller may name; `posted` and `misnamed` record the
orders concerned (see *Assumptions on callers*). The account is looked up by the
order's address at fulfilment, which may find any account or none
(`FindAccount`, `found`). `PaidIds` reserves the
request ids that `fulfillTemplateAccess` may insert, so that purchase requests
cannot use up the bound.

*Invitations.* `invitations` is indexed by purchase, because `purchase_id` is
unique; no code deletes an invitation. `active` stands for every column an
editor changes, since they are all written by one update. `cache[s]` is the key
`invitations:slug:<s>`: empty, NOT_FOUND or a page with the guestbook it
carries. A reader that finds its key filled changes nothing, so only misses are
calls. `locks` are the idempotency keys, however they are made from the form.
Time-outs (`Expire`, `LockExpires`) may happen at any moment. Attendance,
messages and the owner's notification are left out; spam is refused or not,
either way after the key has been set. The counters in front of the handlers
(failed look-ups per address, submissions per address) only refuse calls and
are left out here; the same code is modelled in `Media` (windows) and in
`Sessions` (counters).

*Codes.* A code is a letter: its number, to whom it went, whether it has been
mailed, whether it has expired and, as history, how often it was accepted.
`otps` is the table `email_otps`, `otpCache` the copy under `otp:*` that is
asked only when the table has no row. Two random codes are taken to differ, and
a form carries a code that was mailed to somebody: any other is refused before
anything is written. The two deletions after a use end in
`.catch(() => null)` and may fail by themselves (`DropFails`).

*Accounts.* A row of `users` is an address, a phone number, whether there is a
password (`hash`) and `active`, which stands for `role` and `isActive`. `Lower`
is `toLowerCase`; the DTOs of sign-in and of codes apply it, so that their
addresses are `Mailboxes`, while `updateProfile`, the administrator's handlers
and Google's sign-in store what they were given. A body names the columns it changes. The unique columns are read first
(`CheckEmail`, `CheckPhone`, which is `validateUniqueFields`) and the write is
refused by the unique key (`Taken`) if somebody was faster. A password or an
avatar inside the body of `updateProfile` or `updateUserByAdmin` is left out;
avatars are in `Media`. `accounts` is the cache of `JwtStrategy.validate`; a
request whose account is cached changes nothing, so only misses are calls.

*Tokens.* A refresh token has a row that is never deleted, so that tokens are
positions in a sequence; `parent`, `root` and `given` are history: what a
token replaces, the sign-in it descends from, and whether an answer named it.
Only a given token can come back. Access tokens are signed and not stored.
`fails` are the counters `login:fail:*`, each a `get` followed by a `set`.

*Files.* A file is a number, the key of its object in S3. `CLOUDFRONT_URL` is set, so
that the server stores the URL of that key below it and the conversions between key
and URL lose nothing. The script stores URLs of the bucket instead. It matters
for photos only (`raw` of a gallery): `mapInvitationResponse` shows them
below `CLOUDFRONT_URL`, the editor sends them back like that, and `update` compares
strings, so that a photo it keeps counts as removed (`PhotoUrls`, `Removed`).
Previews are shown as they are stored, and a clean-up also compares keys. `images` and `hidden` stand for several columns that are cleaned
up alike, `moments` is the photo list guests push to. A file is used in one
place, which its uploader chooses afterwards (`Spare`; `OnePlaceAssumption` for
the first galleries and templates): every upload has a key of its own, but nothing
in the code forbids to link it twice, and whoever then takes it off one list deletes
it for the other. That is outside the model. The invitation is active
and takes uploads, since only then does anything happen. `cache` is whether the
store is Redis, where the window of uploads is kept in one transaction, or
memory, where it is read and written in two steps; it does not change while the
server runs. A file grows old (a day) and a minute passes at any moment, with one
bound: calls are short, so a file grows old only when the calls in progress began
after the call that stored it had ended. Objects, rows and the
reference are one action each; a request to S3 or the query beside it may fail
(`RequestFails`), and each handler goes on as its `catch` says (`AfterFailure`).
The script runs as one call in two phases, previews and photos. `guests` is
history: which file a guest pushed to which gallery, since the same file may be
pushed to one and linked to another.

*Lists.* `shelf` holds the keys `templates:all`, `templates:active`,
`templates:id:*` and `testimonials:all`. What a list shows is the view of the
rows at the time of the query. Reviews are joined with the names of reviewers and
events, which are left out: whoever renames them does not delete the key.

*History variables.* `peak[c]` is the largest limit a coupon has had, `paidBy`
the order whose fulfilment inserted a purchase, `found` the accounts that fulfilments
found, `posted` and `misnamed` the orders of calls that were not genuine,
`overlapped` whether calls have overlapped, `disturbed` whether they have or one has
failed, `deleted` the files deleted by their id or though an edit keeps them. No
action reads them.

*Mutations.* A definition `X_Something` placed before `X` is a plausible wrong
version of `X` (a dropped check, an off-by-one, a forgotten write). No
specification uses it; `PROJECT.json` pairs each with the property that fails
when it replaces `X`, which shows that the property depends on the code.

## Runs

| run | instance | shows |
|---|---|---|
| `pr_concurrent` (PRConcurrent.cfg) | 1 user, 1 template, 1 coupon, 3 requests, 2 workers, 1 death, all four target statuses; 1.4 million states | with overlap and death: an APPROVED request has its purchase; coupon overshoot, pending requests and uses of a coupon per user are bounded by the number of overlapping calls; `AccessLedger` is implemented |
| `pr_serial` (PRSerial.cfg) | 2 users (one without phone number), a free and a priced template, 1 coupon with limits 1 and 2 and every kind of edit, 3 requests, 1 worker; 0.7 million states | without overlap: `usedCount` is exact, limits hold, each request follows the documented life cycle, a phone number is set at most once |
| `pr_cancel_over_approval` | 2 requests, 2 workers | finding: two overlapping decisions, the second overwrites the first |
| `pr_two_pending` | 2 requests, 2 workers | finding: two pending requests of one user |
| `pay_live` (PayLive.cfg) | 2 orders, 2 payment workers, 1 death, callers may name the charge of the first order for the second; 0.17 million states | one captured charge completes one order; with genuine callers, what was captured is never left FAILED, the purchases of one order are bounded by the overlapping calls, and every captured charge ends in a COMPLETED order |
| `marketplace` (Marketplace.cfg) | 1 order, 2 payment workers beside 1 worker for purchase requests, no death, anybody may post that the order is captured; 0.34 million states | the composition: an approved request is owned or being fulfilled although payments approve in two writes; the account found for a COMPLETED order owns the template or is being given it, whoever posted; who paid owns the template if nobody else posted |
| `pay_lost` (PayLost.cfg) | 1 order, 1 payment worker, 1 death | finding: COMPLETED and never unlocked |
| `invitations` (Inv.cfg) | 2 purchases (one with an invitation), 2 slugs, 1 guest name, 3 answers, 3 changes and any number of reads on 2 workers, 1 death; 0.4 million states | without overlap a cached page is the stored one and `purchases.slug` agrees with the invitation; with overlap and death a guest has at most as many answers as calls overlap, and every stale page or NOT_FOUND goes away for good after the last edit |
| `guestbook_stale` (GuestbookStale.cfg) | the same, no death | finding: a reader and a guest leave an old guestbook in the cache |
| `accounts` (Sessions.cfg) | three addresses of two mailboxes, one account with a session and a code in the mail, 3 calls on 2 workers, 1 time-out, 1 death or failed deletion; 1.4 million states | undisturbed, a mailed code works until it is used and then never again, a session has one live token, a logout is final, deactivation stops new tokens, the cached account is the stored one and the lockout is exact; in any case a code is used, and a token replaced, once, or once per worker when calls have overlapped, and once more for each failure |
| `media` (Catalog.cfg) | an invitation with an image and a photo, a template, one purchase to review, 3 calls on 2 workers, 1 time-out, 1 death or failed request; 1.4 million states | without overlap and failure objects, rows and references agree after every operation, apart from photos that the script moved and an edit sends back; cached lists are the stored ones, a removed review stays removed; with overlap and failure the clean-up never takes a guest's photo, and the photo limit is passed by at most one photo per other worker, and by none undisturbed; in Redis the window of uploads is never passed |
| `avatar_orphaned` (AvatarOrphaned.cfg) | 2 calls on 1 worker, 1 time-out | finding: the clean-up deletes an avatar that is in use |

`pr_concurrent` and `pr_serial` split the question on purpose. The exact claims
(`CouponCountExact`, `CouponWithinLimit`, `ImplementsLifecycle`) are false when
calls overlap; the bounds are what remains true, and with one worker they
become the exact rules: `PendingBounded` then says "at most one".
`CouponCountExact` also needs the administrator to send only APPROVED and
REJECTED: the DTO's message names PENDING, APPROVED and REJECTED but
`IsEnum(RequestStatus)` accepts CANCELLED as well, for which `updateStatus` does not
give the coupon use back.

### Bounds and why they are enough

Two workers give every interleaving of two handlers, and all races found in
this code are between two; three requests allow a pending one, a decided one
and a new one. Two orders show that one order's calls do not disturb another's.
Three changes of an invitation allow a write, a
rename and one more (a third answer, a second owner of a slug); the refusal of
`purchases.slug` by its unique key (in `WritePurchaseSlug`) needs a fourth and
a third slug, which is out of reach of a run of a few minutes.
`MaxBelowZero` stops the exploration of releases that take a count further
below zero than 1 (two overlapping cancels reach -1). `Room` keeps a create call
(or, in `Invitations`, a form) from starting when all ids are used up; there are
more answers than workers, so that it does not hide a breach of `AnswersBounded`. Requests and workers are
symmetric in the runs that check safety only.

In `accounts` and `media` all calls are counted. Two calls that overlap and a
third before or after them show every race that a property names: refresh beside
refresh, then use of a successor; upload beside clean-up, with the edit before
it; a code drawn, drawn again and given back; a gallery with one photo and two
guests. One time-out and one failure allow a code, a token, a key or a file to be
out of date in any of these, and a single failure at every point where a handler may
stop. `UseLimit` is 2 after an overlap and 2 after a failure, which three calls can
pass; after both it is 3, which takes a fourth call and is left to
`CodesAlwaysBounded` and `SuccessorsAlwaysBounded`. The limits are small so that three
calls reach them (`LoginLimit`, `UploadLimit` and `GuestLimit` 2, `MomentLimit` 3
instead of 5, 5, 50 and 100). Deadlock checking is off in these runs because they end when the
calls are used up. They check safety only and state no fairness; workers are
symmetric.

`GuestPhotosSafe` and `GuestPhotosBounded` leave out invitations whose lists
somebody edits: an edit sends whole lists back, so a photo pushed meanwhile is
taken off the list again, and an owner may link more photos than guests may push.
Nothing in the repository promises otherwise, so that this is described and not
claimed to be wrong. `CatalogFresh` leaves out the time after the script has run,
which writes the rows of templates without deleting keys.

### Fairness

`FairPaySpec` and `FairSpec` (in `Invitations`) state fairness. Weak fairness of `PayStep(w)`: a handler in
progress goes on, since nothing in it waits for another call. Strong fairness of
receiving a webhook: Tap repeats a webhook until it is answered, and the server
has no bound on calls, so only the model's small `PayWorkers` makes a webhook
wait. Nothing is assumed of customers, of administrators or of status checks.
With `MaxFailures = 1` and an endlessly repeated webhook, `CapturedIsCompleted`
shows that a death before the COMPLETED write is repaired by the retry;
`PaidIsUnlocked` is checked without deaths, because `pay_lost` shows that it
fails with one. Deadlock checking is off in the payment runs, where all orders
may be finished, and in `accounts`, `media` and `avatar_orphaned`, where the calls
are counted; it is on in the others.

In `Invitations`, a handler in progress goes on for the same reason, and a key
that stays set reaches its time-out, which the store enforces. Nothing is
assumed of readers, owners or guests. `EventuallyFresh` holds because of the
time-outs only: deleting the key does not help against a reader that fills it
afterwards.

`CapturedNotFailed` and `GrantsBounded` assume that an outcome at Tap is final
(`Retryable = FALSE`). If a declined charge could be paid later, a late webhook of the
decline, handled beside the capture, could leave the order FAILED.

### Assumptions on callers

`POST /payment/tap/webhook` (`payment.controller.ts:50`) has no guard and checks no
signature, and `handleWebhook` believes what it is sent: that its calls come from
Tap is an assumption of this project, which nothing in the code ensures. A body that
somebody else posts with the id of an order turns that order COMPLETED without a
payment, or FAILED with one. Likewise `getOrderStatus` (`:255`) asks about the charge its
caller names and not about the order's own. `Genuine(o)` says that neither has
happened to order `o`. The model contains both kinds of calls, and each property says
what it needs:

* `CompletedWasCaptured` needs genuine webhooks, but holds whatever charges
  callers name: a captured charge completes one order, because `tapChargeId` is
  unique. Which order that is, its caller decides;
* `CapturedNotFailed` and `GrantsBounded` need both for the order they speak of, and
  `CapturedIsCompleted` and `PaidIsUnlocked` for all orders: a charge
  that a caller has named for another order is refused for its own;
* `CompletedHasAccess` and `ApprovedIsFulfilled` need neither.

## Findings

1. `purchase-request.service.ts:258` says that only PENDING requests can be
   transitioned. The status is read in one query and overwritten in a later one
   by id, so `cancel` beside `updateStatus` turns an APPROVED request CANCELLED
   while its purchase stays.
2. `purchase-request.controller.ts:59` documents a conflict if the user has a
   pending request. Two overlapping `create` calls both pass the check.
3. `payment.service.ts:216` reports "Order completed and template access
   approved". The order is stored COMPLETED first; if the call dies, or
   `fulfillTemplateAccess` swallows an error, the retried webhook is skipped
   (`:193`) and the template stays locked.
4. `rsvp.service.ts:138` deletes the page's key "so guestbook updates instantly".
   `findBySlug` fills the key (`invitation.service.ts:346`) with a row it may
   have read before the answer was stored; if it does so after the deletion,
   the old guestbook is served until the key times out.
5. `media.controller.ts:71` cleans up "orphaned media files". `cleanupOrphans`
   (`media.service.ts:125`) collects the references of invitations and templates
   but not `users.avatar_url`: a day after its upload an avatar that is in use is
   deleted from S3 and from `media`.

Four more observations, without a run of their own. `createUserByAdmin` and `updateUserByAdmin` (`user.service.ts:225`)
store an address as it was typed, and the DTO of the sign-in lower-cases what it is
given: an account stored with capital letters cannot sign in with its password.
A payment for an e-mail address without an account
(`payment.service.ts:336`) is COMPLETED and unlocks nothing, also when the
account is created later; `CompletedHasAccess` and `PaidIsUnlocked` are about
the accounts that are found.

The comment at `invitation.service.ts:205` speaks of "S3 storage and DB cleanup for
removed images, moments, and audio". After `scripts/migrate-local-images-to-s3.ts` has
moved a photo, an edit that sends back the photos it was shown deletes the object and
the row of that photo although it is still in the list: the stored URL is one of the
bucket (`:34` of the script), the one shown is not, and `:233` compares the two. No
overlap and no failure is needed. `FilesAgree` excepts these photos, by way of
`deleted`, and is violated without the exception. Running
`scripts/migrate-s3-urls-to-cloudfront.ts` before the next edit avoids it.

The last one is what *Assumptions on callers* says of the webhook.

## Proofs

Every theorem holds for every number of users, templates, coupons, requests,
orders, invitations, answers, accounts, codes, tokens and overlapping calls, and any
number of deaths and time-outs, unless it says otherwise. All rest on the named assumptions of the
models only: finite sets of workers and requests, and first states as calls that did
not overlap leave them.

### Purchase requests

In `PurchaseRequests_proofs`:

* `TypeCorrect`: `Spec => []TypeOK`. `TypeOK` alone is not inductive: a write
  needs that the call's fields hold what its earlier steps read. `TypeInv` adds
  `CallsOK` (at each step the fields that step uses are set, and the request a
  decision refers to is a stored row). `StepCalls`, `ReturnCalls` and
  `GotoCalls` reduce each action to the one call that moves.
* `ApprovedHasPurchaseAlways`: `AccessInv` strengthens it with what calls rely
  on: the status of a stored request turns APPROVED only in the two commits,
  which add the purchase.
* `LedgerImplemented`: every step of `Next` is a step of `AccessLedger` or
  leaves its variables unchanged, given `AccessInv`.
* `CouponOvershootAlwaysBounded`: the invariant itself counts the calls past the
  limit check. `CouponInv` adds that a limit in force is at most `peak` and
  that an existing coupon's calls are finite in number; the proof follows
  how each action moves a call in or out of `CallsPastLimitCheck` and uses the
  cardinality lemmas of `FiniteSetTheorems`.

In `RequestBounds_proofs`, `PendingAlwaysBounded` and `UsesAlwaysBounded`: the
same argument with the pending requests and the live uses of one user. Each
step of a create call moves that call from "past the check" to "stored", and a
call that passes the check sees no stored request.

In `SerialRequests_proofs`, what one worker gives (`OneWorker`, as in `pr_serial`).
What a call has read still holds when it writes (`ReadsHold`), because only an
administrator's single-query actions come in between:

* `CouponAlwaysWithinLimit`, `PhoneIsNotReplaced` and `LifecycleImplemented` (the
  refinement of `RequestLifecycle`), with any deaths and any target status;
* `CouponCountAlwaysExact`, without deaths and with APPROVED and REJECTED as the
  only targets: a call that dies between its two writes, or an update to
  CANCELLED, leaves the count off by one.

### Payments

In `Payments_proofs`, over all steps of payments and of purchase requests
together:

* `PayTypeCorrect`, from `PayTypeInv`: `TypeInv` plus what each payment call has
  read and what Tap knows.
* `CompletedOnlyIfCaptured`, for any `Posts` and `Strays`: unless somebody else
  posted, a call that is about to write COMPLETED has seen the capture of the charge
  that it writes with it (`CapturesAgree`), a charge that is captured stays so, and
  no two orders have one charge (`UniqueCharges`). Its charge is made by one call,
  before the customer can pay it or anybody ask about it (`OneCharging`).
* `CapturedIsNotFailed` and `GrantsAreBounded` assume final outcomes at Tap
  (`~Retryable`) and speak of genuine orders. The first adds that whoever writes
  FAILED holds a
  decline that is still true (`DeclinesAgree`); the second counts, per order, the
  purchases and the calls that may still insert one (`GrantInv`): an order turns
  COMPLETED once, so that only calls that read it before can.
* `CompletedAlwaysHasAccess` and `ApprovedIsAlwaysFulfilled` assume that no call
  dies, and nothing of callers. `pay_lost` shows that the first is false otherwise.
  `PaidAccess` speaks of every order with a found account, COMPLETED or not: a late
  webhook of a decline may turn a COMPLETED order FAILED.

### Invitations

In `Invitations_proofs`:

* `TypeCorrect`, from `TypeInv`: each step has the fields it uses, and the invitation
  or answer a call refers to is stored. It stays stored (`Grows`), because no code
  deletes an invitation and an answer is deleted softly.
* `AnswersAlwaysBounded`, for any interleaving: `Bounded` adds to the live answers of
  one guest the calls that are about to insert one (`Inserting`). A call becomes one
  of them only when it finds no live answer, so that the sum is then at most the
  number of calls.
* `PurchaseSlugAlwaysAgrees`: with one call in progress (`Alone`), the slug that
  `checkSlug` found free is still free at both writes (`Renamed`), so that the second
  is never refused; between them only the invitation being renamed may disagree
  (`SlugsAgree`). It rests on the unique slugs (`SlugsUnique`), which hold always.
* `PagesAreFresh`: a cached page is stale only under a key that the call in progress
  still owes to delete (`Owed`, in `PagesFresh`). That the owed keys are the right ones
  needs `Informed`: the slug a writer read at its start is still the slug of the
  row it writes, and what a reader fetched is still the page.

### Accounts and sessions

`Sessions_proofs` proves `TypeCorrect`. `TypeInv` says of each operation which steps
it can be at and what it has read by then (`OnItsWay`, `HasRead`); ids stay in
range because tables only grow and because each call that creates an account
was counted when it began (`UsersCounted`).

`SessionSafety_proofs` proves all other properties of the run `accounts`. Two lemmas
reduce `Next` to what matters: `StepMoves` (one call moves, to the next step of
its way) and, per store, what a step writes (`TokensMove`, `AccountsMove`, `UsersMove`,
`CodesStep`). `Alone` says that an undisturbed history has at most one call in
progress and no failure, so that the exact claims are proved for a single call,
while the bounds hold for any interleaving. The invariants:

* `SuccessorsInv` for `SuccessorsAlwaysBounded`. `SuccessorsBounded` is not
  inductive: a call that has looked at a token will add a successor. `CountedOne` adds
  those calls to the successors. It is kept when a call begins because a token
  that is still good has at most one successor per call that is about to revoke it or
  has died (`UnusedOne`), and calls that begin and calls that revoke are different
  calls in progress (`BusyBound`).
* `CodesInv` for `CodesAlwaysBounded`: the same idea over two stores. `CodeCounted`
  adds to the uses of a code the calls that have passed the check, `RowUnused` and
  `CopyUnused` bound the uses of a code that is still in the table, or in the cache,
  by the calls that are about to delete it and the failures. The bound of both is
  `UseLimit`: one, or the number of workers when calls have overlapped, and one more
  for each failure (a call that dies between the two deletions, or a deletion that
  fails, leaves a copy that is taken once more). Codes are deleted by
  address, so `Addressed` is needed: what is stored under an address, and what a
  call of that address gives, was drawn for it.
* `MailInv` for `MailedCodeAlwaysWorks`: the stored code is the newest one mailed
  (`NoneNewer`), the last one mailed is stored or is being replaced by a send in
  progress (`StoredIsLast`), and a call knows the row it is about to delete
  (`KnowsRow`).
* `LiveInv` for `SessionHasOneToken` and `EndedSessionsStayEnded`: two good tokens
  of a session are a token and its successor in the hands of one call that is
  about to revoke the first.
* `ActiveInv` for `TokensAreForActive`, `LockInv` for `LockoutIsExact` (a counter is
  behind, or ahead, by what the one sign-in in progress owes or forgives), `FreshInv`
  for `AccountIsFresh` (the stale entry is the one that the edit in progress is about to
  delete).

To prove these, the first states had to be said precisely: codes used before are no
longer stored (`InitLetters`), a session has one good token and a token that was
replaced is revoked (`InitTokens`), and there is a worker.

### Files, photos and lists

`Catalog_proofs` proves all safety properties of the run `media`, for any number
of galleries. As for the sessions, `StepMoves` reduces a step to the one call that
moves: either it reads something new (`Reads`, six actions), or what it has read
stays (`Keeps`). `StartsAt` says the same of calls that begin. `Alone`: an
undisturbed history has at most one call in progress.

* `TypeCorrect`, from `TypeInv`. That a new key is one of `Files` is not obvious: the
  script stores a file per local file. `Drawable` counts, for each call, the
  files it may still store (`Pots`), so that keys drawn and keys still to be
  drawn never exceed what was counted when the calls began.
* `UploadsHold`, from `WindowOK`: what passed in the last minute is among the
  cached time stamps of that gallery; in memory, also among those the one call in
  progress has read and is about to store with its own.
* `PhotosBounded`: `RoomKept` adds to the photos of guests and those the gallery held
  at first (`Counted`) the calls that found
  room and have not pushed yet (`Inflight`). A call becomes one of them only
  when it sees fewer photos than the limit, so that the sum passes the limit by the
  other workers at most (`Roomy`). `Linked` and `FirstKept` are needed to know that
  what is counted is still in its gallery: only somebody on record in `edited` takes
  a photo off.
* `GuestPhotosKept` follows a file through its life in `PhotosKept`: still to come
  (`ToCome`: nobody knows its number), carried by a guest's call (`Carried`: no
  clean-up that is in progress will find it old, because no day passes on it while that call
  lasts), and shown (`Shown`). In each, no other call touches it (`Untouched`):
  it is not on a list of files to delete, no body or list to be written holds it, and
  each clean-up either knows that it is in use or will find it too young. The last
  is needed because `cleanupOrphans` reads the references first and the ages
  afterwards: a file pushed in between must not have grown old by then, which `seen`
  and the bound on the length of calls (`GrowOld`) give. That
  `guests` names the gallery matters with two galleries, which the run `media` does not
  have: a file pushed to one may be linked to another whose lists are edited.
* `FreshCatalog`: `CatalogFresh` is true between calls; within one, only the keys that
  call still owes may be stale (`DetailsExist`, `Informed`: what a reader fetched is
  still the view).
* `RemovedHolds`, from `RemovedOK`: a call that is about to write a text has seen that
  the review is not removed.

* `FilesInStep` proves `FilesAgree` from `Tidy`, which says of an undisturbed
  history what holds within a call too. Object and row of a file differ only while the
  one call in progress has written the first and not yet the second (`StoresAgree`,
  `Apart`). A file that galleries or templates show has a row, unless it is local,
  deleted by its id, kept by an edit that deletes it all the same, or about to be dropped by
  the write of that call (`RefsAgree`, `Leaves`): `update` deletes before it writes, and
  what it deletes (`Removed`, which compares URLs) is what its write drops
  (`Dropped`, which compares files) or is on record in `deleted`. Each file is shown in one spot
  (`OnePlace`), so that what is taken off one list is missed in no other; this is
  inductive because a call puts to use only files in no use (`Free`), which it
  must remember from its first step to its write (`CallTidy`: an edit's body only
  adds free files, `FitBody`; a clean-up has seen every spot; the script has read
  previews that differ). `OnePlace` is why the proof needs a fresh key at
  `PutObject` (`AllDrawn`) and `OnePlaceAssumption` at first. The lemmas `TidyStays`
  and `TidyWrites` say once what a step has to show, without and with a new
  reference; then there is a lemma per action.

They rest on `MediaAssumption`, on `ReferencesAssumption` (galleries and
templates refer at first to files that have been stored) and, `FilesInStep` alone, on
`OnePlaceAssumption`.

### Only model-checked

Liveness (`CapturedIsCompleted`, `PaidIsUnlocked`, `EventuallyFresh`) is out of the
prover's reach: it needs `ENABLED` and a chain of steps that each must happen.
Every safety property that a passing run checks is a theorem as well; the
runs show that its hypotheses are met (calls that overlap, fail or time out do occur)
and that a plausible mistake in the code breaks it. What the runs that expect a
violation refute is no theorem, of course.

## Not modelled, and the plan

Left out for good:

* mail, health, bootstrap, filters, guards, logging: no state, or pure output;
* the audit log: it is only written, and the promise of its insert is not
  awaited, so that it cannot be ordered against any other write;
* contact messages and notifications: single-row updates by one actor, which
  nothing else reads;
* `seed.ts`, which fills empty tables with constants, and the migrations;
* three one-off scripts, run from one process with nobody to race: `migrate-s3-urls-to-cloudfront.ts`
  (rewrites URLs of the bucket in `media`, `templates` and the images and moments of
  invitations), `migrate-videos-to-s3.ts` (uploads videos of templates and lists them in
  `media`) and `update-template-translations.ts` (texts of templates). `migrate-local-images-to-s3.ts`
  is part of `Media`;
* reads that change nothing (`findRsvps`, `findAll`, the statistics) and the
  download of a file through the server;
* the windows per address of all requests and of RSVPs: the code whose other use
  is in `Media`;
* file type detection, slugs and phone formats: pure data.

Next, more abstract specifications to implement: what a session promises
(`Sessions`) and what a store of files promises (`Media` without overlap) are stated
as invariants so far, and purchases that payments and approvals grant together
could be one ledger.
