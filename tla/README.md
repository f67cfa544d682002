# A TLA+ model of the REOS backend

REOS is a monolithic Go HTTP server for renting out property: accounts and
sessions, staff invitations, properties, units and listings with their review,
leases, applications and rent, disputes and maintenance, and a WebSocket hub. It
keeps **all of its state in one in-memory `Store` behind one `sync.RWMutex`**,
and writes every record to MongoDB in goroutines nobody waits for. Every HTTP
request is a goroutine, and a handler is a row of critical sections under that
mutex with unlocked work in between. Nearly everything that can go wrong in this
program comes from one of four sources:

1. the mutex is taken again by somebody who has it, is not given back, or is kept
   while waiting for somebody else;
2. a handler decides in one section and acts in a later one;
3. memory and MongoDB drift apart, and a restart believes the latter;
4. a long sequence of legal requests reaches a state nobody thought of.

The modules below follow this list. All of them are plain TLA+, checked with TLC
and, where it says so, proved with TLAPS.

## 1. The system

| part | source | state | operations | talks to | hard because |
|---|---|---|---|---|---|
| Store mutex | `internal/store/store.go` (939–953), all handlers | one `sync.RWMutex` | `Lock`, `RLock`, … , used by Store methods and by handlers around them | everything | re-entry, missing or doubled unlock, waiting on a peer with the lock held |
| Store records, persistence | `store/store.go` | 30 maps of pointers; the MongoDB collections | `Create*`, `Update*`, `Delete*`, `writeDoc`, `LoadFromMongo` | MongoDB | asynchronous, reordered, failing writes; crash; partial load |
| Invitations | `handlers/invitations.go`, `operations.go` (`InviteStaff`, `ListStaff`) | invitations, users, memberships | create, details, accept, revoke, resend, repair | Store, mail | check-then-act on a status through a shared pointer |
| Leases, units, applications, rent | `support.go`, `properties.go`, `invitations.go` | leases, units, applications, ledger | move in, apply, review, vacate, transfer, pay | Store, hub | three records changed in separate sections; retried payments |
| Listing and property review | `operations.go`, `properties.go`, `support.go`, `cmd/server/main.go` | approval status, publication status | create, approve, reject, delist, update, hourly worker | Store, hub | a worker that lets go of the lock in the middle of its loop |
| Rate limiter | `middleware/middleware.go` | one token bucket per address | `Limit` | – | boundaries of the refill |
| Sessions, access control | `middleware/auth.go`, `access.go`, `handlers/security.go` | sessions in the users | look up, role check | Store | lock sections in front of every handler |
| Accounts and login | `handlers/auth.go` | users, one-time codes | register, log in, Google, OTP, profile, recovery, WebAuthn | Store, mail | found, compared and changed in different sections; sessions taken back by requests under way; late failures |
| WebSocket hub, Redis | `handlers/websocket.go`, `store/redis.go` | connections per user, presence | connect, dispatch, broadcast | Redis, peers | one mutex over the writes to all clients, clients that do not read, lost messages, several servers |
| KYC, tiers, suspension | `support.go`, `operations.go` | verifications, tier level and history | upgrade, verify, suspend | Store | unlocked read-modify-write, a decision that stops the program |
| Disputes, maintenance, dashboards | `dashboards.go` | disputes and their messages, tickets | create, message, resolve, escalate, statistics | Store | status changes without a look at the status |
| Regions, jurisdictions, commission rules | `regions.go`, `jurisdictions.go`, `commission_rules.go` | one record each | create, update, toggle, delete | Store | unlocked changes, deletes that race writes |
| Bookings, leads, commissions; inspections, deductions, viewings | `operations.go`, `support.go` | one record each | insert, list | Store | no rule relates them |
| Service layer | `internal/services/` | – | – | – | nothing calls it |
| Uploads, email | `uploads.go`, `email_templates.go` | – | file and HTTP output | external services | I/O only |

What makes each part correct, in a line: *mutex* — whoever waits is served, and the
handlers that break this are known by name; *persistence* — what was answered reaches
the database unless a named accident happened, and what was deleted in the database is
gone; *invitations* — one account per address, nobody unknown gets in, acceptance is
final; *leases* — the unit's lease is a lease of the unit, nothing approved is without
its lease, no rent is paid twice; *review* — what the guests see was approved as it
is, everything is decided in the end; *rate limiter* — burst plus refill and no more,
patience is rewarded; *accounts* — one address one user, a revoked token comes back in
two named ways and no other, what was answered is saved; *hub* — a user is shown
online as long as a connection is open and no longer, and nobody waits for ever to
leave; *tiers* — one step at a time, one history item per step. Where the code keeps
such a rule only up to some accident (an overlap, a lost message, a failed write), the
property names the accident.

## 2. Modules

| module | what it is | extends |
|---|---|---|
| `StoreLock` | Go's RWMutex and goroutines that run lists of lock operations | |
| `LockPaths` | those lists, one definition per handler | |
| `LockRules`, `MCStoreLock` | the two together, and which handler breaks which rule | `StoreLock`, `LockPaths` |
| `ReadersWriter` | what the handlers rely on when they take the mutex | |
| `StoreLockProofs` | proofs | `LockRules`, `TLAPS` |
| `Invitations`, `MCInvitations` | staff invitations under overlapping requests | |
| `InvitationsProofs` | proofs | `Invitations`, `TLAPS` |
| `Leases`, `MCLeases` | units, leases, applications, ledger | |
| `LeasesProofs` | proofs | `Leases`, `TLAPS` |
| `SnapshotStore` | what the Store promises of its database | |
| `Persistence`, `MCPersistence` | memory, MongoDB, write goroutines, crash, load; implements `SnapshotStore` | |
| `PersistenceProofs` | proofs | `Persistence`, `TLAPS` |
| `Moderation` | listings, properties, reviewers and the hourly worker | |
| `ModerationProofs` | proofs | `Moderation`, `TLAPS` |
| `LeakyBucket` | what the rate limiter decides, with one time per address | |
| `RateLimiter`, `RateLimiterProofs` | the token bucket, and proofs; implements `LeakyBucket` | |
| `Accounts` | users, their sessions, and every way to log in | |
| `Tiers` | verification files and the ladder of tiers | |
| `Landlords`, `MCLandlords` | the two composed | `Accounts`, an instance of `Tiers` |
| `LandlordsProofs` | proofs, of the composition and of its parts | `Landlords`, `TLAPS` |
| `Hub` | WebSocket connections and presence on servers that share Redis | |
| `HubProofs` | proofs | `Hub`, `TLAPS` |

The MC modules only add a symmetry set. A definition whose comment begins
with *Mutant* is a plausible bug of the definition below it; no specification
uses it. `PROJECT.json` says which property finds which mutant, and which source
lines each definition stands for.

### StoreLock, LockPaths, LockRules, ReadersWriter

A goroutine is the list `rest[g]` of lock operations it has still to make:
`RLock`, `RUnlock`, `Lock`, `Unlock`, `Mongo` (a database call by the goroutine
itself) and `Peer` (a write to a client, a WebSocket or Redis). What it computes
in between is left out. `Start` picks a handler and one of its lists, that is,
one of its control paths, early returns included.

`sync.RWMutex` is modelled by its documented algorithm: `Announce` is the first
half of `Lock` (the writers' mutex is taken, new readers are kept out), `Enter`
the second (the readers inside have left), `Park` an `RLock` behind an announced
writer, and `Unlock` lets all parked readers in before the next writer. It is
not re-entrant: a goroutine with a read lock that asks for another one parks
behind a writer that waits for the first. `Misuse` is an unlock of what is not
held; Go ends the process there, or the lock is taken from under another
goroutine, so the model stops.

`LockPaths` has every handler that holds the mutex over a call – there are
seventeen, and the worker – beside two plain ones (`PayRent`, `UpdateProperty`)
that stand for the rest. A call is one of the Store, of MongoDB, or one that writes
to a peer: a WebSocket message, an answer encoded under a deferred unlock, an
`http.Error` before it. That these are all was read off the source: in each function
of `internal/handlers` and `cmd/server`, what stands between taking the mutex and
giving it back. Loops are cut after one or two rounds, as each
definition says. Each `Session`/`SessionUser` prefix is what
`GetUserIdFromAuthHeader` and `GetUserByID` do in front of the handler; the role
middleware adds only more plain sections and is left out.
`LockRules` gives each handler its paths and says which handler breaks which rule.

`ReadersWriter` is the lock as its users see it: readers share it, a writer closes
the door to new readers, owns the lock when the last reader has left, and lets in
whoever has waited. It knows no handlers and no lists. `StoreLock!Mutex` is the
mapping: `shares` is the read counts, `waiting` the parked goroutines, `door` the
announced writer and `alone` whether it is inside.

### Invitations

The invitation an `AcceptInvitation` (or revoke, resend, details) request looks
up is a *pointer* to the shared record, and its status is read at one moment and
written at a later one. So one action is one section under the mutex or one
unlocked read: `AcceptInvitation` → `LookPending` → `LookDue` → (`Expire` |
`FindUser` → [`Enrol`] → `Accept` → `Join`); `CreateInvitation` → `CheckInvitee`
→ `InsertInvitation`; `RevokeInvitation` → `LookRevocable` → `Revoke`;
`ResendInvitation` → `LookResendable` → `Renew` → `Restore`; `ListStaff` →
(`Heal` → `HealCheck` → [`HealCreate`])* → `ListDone`; `InviteStaff` → `Hire`;
`Register` in one step. `WeekPasses` is the expiry.

The code draws a UUID for whatever a request creates; here it is named after the
request (`status[r]`, `account[r]`), so a request runs once. `mail[r]` is the address
in the request's body, which nothing forces to be the invited one. `FindUser` also
covers the Google path, where the account linked to the Google identity may have any
address; `CreateUser` may fail for a phone number as well, which is a free choice once
anybody is registered. `early`, `owed` and `unchecked` are history variables for the
properties; the last has the invitations that became pending although nobody looked
for another one, or somebody looked too early. All invitations have the same sender
and a staff role: a tenant's invitation differs after `Accept`, and that part is
`Leases!MoveIn`. Letter case of addresses is left out.

### Leases

Leases, applications and entries are named after the request that makes them;
every unit has one listing, in `auto` review mode for the units of `AutoUnit`.
`MoveIn`, `CreateApplication` and an approving `UpdateApplication` share
`CreateLease` → `TakeUnit`, `TransferTenant` comes to them by `FreeUnit`. The
first section of each handler is its arrival. `VacateLease` → `GiveNotice` →
`MarkUnit`; `PayRent` → `Scan` → `AddRent`. `CreateLease`/`CreateUnit` calls that
only save a record changed before are not steps: memory does not change. The
status a reviewer sends is "approved" or "rejected"; the code takes any text, and
any text but "approved" acts like "rejected". Amounts are left out: nothing
computes with them here.

### Persistence

The content of a record is the set of the requests whose changes it has. `WriteDoc`
starts a goroutine (`write[r] = "queued"`); `Marshal` begins to read the record *as it
is then*, without a lock, and `Send` has finished: of the changes made between the two
the image may have any, a later one without an earlier one included. That is what the
data race of writeDoc with the handlers can produce field by field; half-written
single fields are left out. `Land` replaces the document, in any order; `Fail` is a
database error, which the code only prints; `GiveUp` is the end of the 10 s, after
which the write may still land, or never. `Delete` → `Drop` holds the mutex (`locked`)
over the database call, whose error is ignored: `undone` has the records whose last
`DeleteOne` failed or was cut off by a crash, and `DropLate` carries such a one out
after all. `Create`, `Lookup` → `Mutate` → `Save` are the two ways records change;
`Mutate` needs no lock because `UpdateRegion`, `ToggleRegion` and
`UpdateCommissionRule` take none. `LinkGoogleID` is the one change that is never
saved. `Crash` forgets memory, requests and goroutines, but what they have sent may
still land (`"orphan"`), also when the next process has loaded the record before:
`overdue` has the records this happened to. `Restart` is `LoadFromMongo`, where a
collection or document that cannot be read is skipped, and a database that cannot be
reached leaves the process working in memory only (`attached`). `keyed[d]` is what the
map has the record under, because `LoadFromMongo` keys invitations by id where the
rest of the program uses the token. A request that gives the id as the token finds
such an invitation (`Lookup`).

`SnapshotStore` says the same without requests, locks, keys and goroutines: a record
in memory takes in changes; snapshots of it are begun, finished (with all it had at
the beginning and nothing it had not at the end), and arrive, in any order, or get
lost; a finished one outlives its process; a document is one of them, or erased; a
process starts with what the database has or less of it. `Persistence!Snapshots` is
the mapping: memory is `obj`, the document `db`, and the snapshots are the images of
the write goroutines, as sets, so that two goroutines with equal images are one
snapshot, which therefore may but need not be gone when one of them is through
(`Removed`).

### Moderation

One action per handler, each one section. The worker is split where it reads its
clock, takes the mutex, and gives it back: `Tick` → `BeginRound` → (`Publish` →
`Save` → `Announce` | `Warn` → `Warned` | `Skip`)* → `EndRound`. `Unlocked` is
false while the worker has the mutex, also while it warns. `PeerStalls` is a
client that stops reading while it is written to; the server sets no write
deadline, so that is for good. `age[l]` is the time since submission, capped at
`Day` and counted only while `l` is pending, since nothing reads it afterwards;
`roundAge` is what the worker's `now` makes of it. `CreateListing` decodes the whole
record and sets the approval status alone, so the status and the name of the approver
are what the body says: any status may come with a pending listing, and the worker's
name (`by`) with one it never saw. `UpdateListing`,
`PublishProperty` and `UnpublishProperty` are not here: with an existing record
they never reach their assignments (see `ReentryConfined`).

### Accounts, Tiers, Landlords

A handler of `auth.go` finds a user (`Find`, or `Authenticate` with a session),
compares what the client sent with no lock (`Check…`), and then changes, and in a
last section saves, the user: `Find` → `CheckPassword` → `CheckStatus` → [`Heal` →
`HealSave`] → `AddSession` → `Save` is `Login`; `Find` → `CheckCode` → `Activate` →
`Save` is `VerifyOTP`; `Find` → `CheckPhrase` → `Reset` → `Save` is
`RecoverPassword`; `Authenticate` → `UpdateProfile` → `Save`, or → `RefuseProfile`,
is `UpdateProfile`; `CheckPasskey` and `Challenge` are WebAuthn; `GoogleSignUp` and
`Find` straight to `AddSession` are `GoogleAuth`. Whether a password or a phrase fits
is a free choice; whether a code does is not, because a code is used up. A session is
named after the request that opened it; the session in the old format is the user's
id and counts while the user has no other, so whatever empties the list makes it good
again (middleware/auth.go:38–44). `gone`, `carried` and `emptied` are the history of
this: what was revoked, what of it an update under way had come with, and who was left
without a session. Two ways in are not here: the WebSocket handshake takes the old format
always (websocket.go:267–271), and `AcceptInvitation` answers with a token of that format
which it does not store (invitations.go:446). Fields nothing is decided by are one set
of the requests that changed them. `doc[u]` is the record as it was given to
`writeDoc`; what becomes of it is `Persistence`.

In `Tiers` every statement of `UpgradeTier` after the lookup is an action, since it
holds no lock; the append to the history is a read and a write. `VerifyKYC` decides
and then waits for itself (finding 1): `wedged` is the mutex from then on, and no
section under it is entered any more, while statements without lock go on.

`Landlords` joins the two where the program does: a landlord's file is opened by the
last section of `Register`; an upgrade or a decision begins with the session lookup
of `Accounts` and hands the request over (`pc[r] = "away"`, `Ask`); and `wedged` stops
the sections of both. `Answer` also stands for handlers of other components, which
leave accounts and files alone.

### Hub

A connection's goroutine is `HandleWS` (up to `registerClient`) → online announcement
→ what its client sends → `ReadFails` → offline announcement → `unregisterClient`. An
announcement is a `Publish` on a server that found Redis at its start, else a
`Dispatch` by the goroutine itself. `sending[s]` is `clientsMutex`, with the message
it is held for and the connections still to be written to; `WriteJSON` writes to any
of them, `Stall` is a client that has not read for so long that the write waits, which
is decided by the client alone (`Resume`). `Deliver` is Redis: in order, at most once,
and lost for any server whose subscription is down or whose channel is full.
`Broadcast` is what other handlers send: a notification to one user, a dispute message
to two, the system's health to everybody, so to any set of users. `Crash` ends a
server with its connections and starts it with Redis or without.

What is followed is the presence of one user, `Subject`; since it may be any, what
holds of it holds of all. A presence message a client sends has the client's user
(the hub sets it) and whatever status the client likes. `latest[s]` is history: the
last announcement about the subject that was meant for `s`, or why it says nothing.
Dispute messages reach the users the *payload* names; the comment at websocket.go:176
("make sure it reaches both complainant and respondent") describes the sender's
good will, so `Notice` allows any set of users.

### RateLimiter

One limiter; the general and the strict one are two instances of it. Time runs in
steps that refill one unit each, a token is `Cost` units, so each rate is a choice
of the step. `since` and `spent` measure an interval an observer chooses
(`Measure`). `full` and `drawn` are history of each bucket: when a request last found
it full, and what was drawn from it since.

`LeakyBucket` decides the same without buckets, refills and caps: what is admitted
drains at one unit per step, and `clear[ip]` is when all of it has. `RateLimiter!Meter`
maps a bucket to the time when it will be full.

## 3. Runs

| run | bounds | states | shows |
|---|---|---|---|
| `lock_clean` | 3 goroutines, `PayRent`, `DeleteRegion` | 99 529 | the mutex is a `ReadersWriter`; every request is answered |
| `lock_all` | 2 goroutines, all 20 of `LockPaths` | 92 286 | which handlers wait for themselves, which unlock twice, which wait for a peer with the lock; that none of the others does |
| `lock_publish` | 2 goroutines | violation | finding 1 |
| `invitations` | 5 requests of any kind, 2 addresses | 1 503 311 | what survives any interleaving of invitation requests |
| `leases` | 4 requests of any kind, 2 units, 1 key | 370 363 | the same for leases, units, applications and payments |
| `pay_twice` | 3 requests, 1 unit, 1 key | violation | finding 2 |
| `persistence` | 4 requests, 2 records, 1 crash | 309 864 | what is sure to be in the database, and for how long; that it all is a `SnapshotStore` |
| `restart_invite` | 1 request, 1 record, 1 crash | violation | finding 3 |
| `rate_limiter` | 2 addresses, 2½ tokens of 2 units, 10 steps | 1 259 496 | bounds of the bucket in every interval, from above and from below |
| `moderation` | 2 listings, 1 property, a day of 4 steps | 1 257 605 | reviewers, owners and the worker |
| `accounts` | 4 requests of any kind, 2 users, 1 address, 3 tiers | 1 130 544 | what revocations, saves, registrations and tier upgrades can be relied on for while other requests are under way |
| `hub` | 1 server, 2 connections, 2 users, 1 message in Redis | 123 823 | what the presence shown is worth; that whoever leaves gets to leave |

Why these are enough. *lock_clean*: with three goroutines one can be inside, one
announced or deleting, one parked, which is every role there is; the proofs cover the
rest. *lock_all*: a read re-entry needs one writer besides, misuse needs one holder
besides. *invitations*: the longest interesting history needs a creation, an
acceptance, a second acceptance or revocation, a registration and a repair: five
requests, of which any may be of any kind. *leases*: a move-in, a second lease, a
transfer between the units and one more request about any of them; two payments, a
retry and their lease. *persistence*: a create, two updates and a delete of one
record, around a crash. *rate_limiter*: a bucket can be emptied and filled twice, and
half a token is left over. *moderation*: the second listing is the one a reviewer
decides while the worker announces the first. *accounts*: a user, a session, an update
that came with it and a recovery or revocation beside it; a registration and two
upgrades of one file with a decision; the address of one user taken by another. *hub*:
two connections are one that leaves and one that stays, of one user or of two, or one
that writes and one that does not read. There is one server because liveness is
checked without symmetry; the safety properties are proved for any number of servers
and were besides checked with 3 connections to one server (3 960 221 states) and, to a
depth of 14 steps, with two servers. Requests (and addresses, goroutines, client
addresses where nothing tells them apart) are symmetric; symmetry is used in runs of
safety properties only. Runs whose requests all come to an end say `CHECK_DEADLOCK
FALSE`; `lock_clean` and `rate_limiter` check for deadlock (`Measure` is always
possible in the latter, so there it is `lock_clean` that counts).

## 4. Properties

- `ImplementsReadersWriter`, `EveryRequestAnswered`: the mutex and its queueing, for
  handlers that use it one section at a time. `WedgeNeedsReentry`: whenever somebody waits,
  somebody who has or gets the lock can move, or somebody waits for itself, or has
  returned with the lock – several goroutines never wait in a circle.
  `LockRulesKept` joins four rules of the mutex. `NothingLeaked`: every path gives
  back what it took. `ReentryConfined`,
  `MisuseConfined`, `PeerWaitConfined`: only the handlers named re-enter, unlock
  twice, or write to a peer with the lock held. They are the positive side of
  defects: eleven handlers can stop the whole program by themselves or with one
  writer's help, two can end it, and eight (the worker among them) have it wait for a
  peer that does not read; of these `SubmitReview` and `RespondToReview` write only
  the short text of an error, which may stay in the response's buffer.
- `OneAccountPerEmail`, `NobodyUnknown`: two accepts or an accept and a
  registration find nobody and both try to create the account.
  `OnlyOverlapUndoesAcceptance`: an acceptance can be overwritten only by a
  request that had read the status *before* and was still at work.
  `HealingComplete`: the repair in `ListStaff` misses nobody, whatever runs beside
  it. (It may create a membership twice: its check and its creation are two
  sections. No comment of the code promises otherwise.) `SecondPendingExplained`:
  "Check 2" (invitations.go:125) and the insertion are two sections, and a resend
  makes no check, so two invitations to one address can be pending; never without
  such an overlap or resend.
- `CurrentLeaseIsOfUnit`, `VacancyExplained`, `ApprovedHasLease`: what remains true
  of units and leases although handlers race for them; a unit shown as available
  under an active lease is possible, and only when another lease of it has ended
  or is under notice. `RetryPaysOnce`: a retry after the answer pays nothing.
- `WriteHasItsChange`, `LandedChangeLostOnlyToOlderWrite`, `QuietMeansSaved`,
  `DeletedStaysDeleted`: see the comments in `Persistence`. The records these
  exempt are exactly those of the accidents the code does not handle. A change that
  was answered may not be in the database when a write of its record failed, was given
  up, overlapped another, was cut off by a crash, or was never made (`LinkGoogleID`,
  invitations.go:310). One that is there is lost again only to a write that was under way
  when it came, or where a write of a dead process came in behind the back of the next
  (`overdue`). **A deleted record comes back** if a change or a write of it was under way, or
  at the next start if `DeleteOne` failed, whose error is dropped (store.go:1232), or
  a crash cut it off; and in no other way. `ImplementsSnapshotStore`
  is the whole in one formula: no document has what its record had not, or mixes
  two images.
- `DelistedStaysHidden`: a listing taken down, which is delisted and no longer
  pending, stays so, whoever approves it and whatever the worker had begun. It does not
  cover a listing its owner's body creates as "delisted" (operations.go:73): that is
  pending, and the worker publishes it after a day like any other. `DecisionStands`: the
  worker overrides no decision made while it had let go of the mutex. `CronWaitsADay`:
  approved in the worker's name means a day has passed, although a body may claim that
  name. `ApprovalCoversLastChange`: no change since the decision, which is not to say
  that the administrator, who decides by id, had seen the last one before it.
  `EveryListingDecided`: the worker decides what nobody else does, unless a peer that does
  not read has stopped it.
- `WindowBound`: no address gets more than the burst and the refill, in any interval.
  `RefusalIsEarned`: it gets all of that, a request is refused only when what was
  drawn since the bucket was full leaves less than a token of it.
- `RevocationHolds`: "revoke_others" writes back the session the request came with,
  so an update under way undoes a revocation or a password recovery
  (auth.go:632). The other way back is for a token in the old format, `session_` and the
  user's id: it is good, also if it had been revoked, once a revocation
  (auth.go:634) or a recovery has taken the last session. The latter contradicts the
  comment at auth.go:691, "Revoke all sessions on password recovery reset for safety!".
  The property says that there is no third way, however many log in meanwhile.
  `QuietAccountSaved`: memory and what was given to the database agree when nobody
  is about to save; the exception is an update refused for its password after it had
  changed other fields (auth.go:620). This is said of `auth.go` and the tiers;
  `AcceptInvitation` links a Google account without a save (invitations.go:310), which is
  in `Persistence`. `SharedAddressExplained`: `CreateUser` looks
  for the address, `UpdateProfile` (auth.go:574) does not; only by the latter two
  users get to share one. `TierExplained`: tier, snapshot and history of a file
  agree unless upgrades overlapped (operations.go:563) or support approved it, which
  sets tier 2 whatever the tier was (support.go:165).
- `NoGhostOnline`, `OfflineOnlyByOverlap`: presence is announced per connection and
  shown per user. Nobody is shown online who has gone, unless the message was lost;
  somebody connected is shown offline when a connection ends while another is open
  (websocket.go:98), or a client says so of itself, and not otherwise.
  `LeaversLeave`: the mutex that is held over writes to clients is given back, unless
  a client that is still connected stops reading for good.

Some properties are stated in the modules and proved, but are in no run, because a run
would add nothing to the proof; each was checked by TLC on the instance of its
component's run before it was proved (`ClientsAgree` on two servers, to a depth of 14
steps, and `LinkGoodUntilCrash` and `NoLinkSurvives` with three requests and two
crashes).

- `Exclusion` is part of what `ImplementsReadersWriter` says; `SilenceIsRewarded`
  follows from how a refused bucket keeps its refill.
- `ImplementsLeakyBucket`, `VerdictsAgree`: the limiter lets through, and refuses, exactly
  what a leaky bucket would.
- `WaitedForCanMove`: among handlers that break no rule, whoever is waited for stands
  before a step that nothing holds up. `WaitsForItselfForGood`, `NeverAnswered`: a
  goroutine that waits for itself does so for good and takes the lock from everybody.
- `ActsForOwner`: a request that a session let in acts for the user who had logged in,
  whatever logins, recoveries and profile updates overlap.
- `LinkGoodUntilCrash`, `NoLinkSurvives`: the two sides of finding 3.
- `EachListingOnce`, `RoundMissesNobody`: the safety `EveryListingDecided` rests on. The
  worker lets go of the mutex in the middle of its loop, and still ends its round, with
  nobody left who was due.
- `LeavingOnlyGoesOn`: the same for `LeaversLeave`. Whoever leaves only gets
  further, and a write it waits for has fewer and fewer clients to go.
- `ClientsAgree`: two clients are shown different things of a user, on one server or on
  two, only if one of their servers missed the last announcement.

### Findings

1. **`PublishAnswered`** (`lock_publish`). `PublishProperty` takes the write lock
   (properties.go:878) and calls `GetUltimateOwnerID` (887), which read-locks the
   same mutex in `GetUserByID`. The request waits for itself for ever, and with it
   every request that needs the Store. The comment at properties.go:856 says it
   sets the publish status. `UnpublishProperty`, `UpdateListing`, `SuspendUser`,
   `VerifyKYC` and `ListApplications` do the same; `Me` does for a token without
   a session.
2. **`OneEntryPerKey`** (`pay_twice`). The idempotency check (properties.go:373)
   and the entry are two sections; a payment sent twice at once is entered twice.
3. **`LinkFindsInvitation`** (`restart_invite`). `LoadFromMongo` keys invitations
   by id (store.go:244); after a restart no link of a pending invitation works, and
   none ever will again (`LinksDieForGood`), while before the first restart all do
   (`LinkGoodOnce`).

## 5. Fairness

`StoreLock!FairSpec`: every goroutine that can run is run (weak fairness of
`Work`). `Announce` has strong fairness, because the writers' mutex is free only
now and then; Go's `sync.Mutex` hands it to a waiter after 1 ms (starvation
mode), which is that. MongoDB calls made under the lock end by their context's
timeout, so `CallMongo` is part of `Work`. Nothing makes a peer read:
`http.ListenAndServe` is used without timeouts, so `WritePeer` has no fairness,
and no `Start` has any: nobody must send a request.

`Moderation!Spec`: time passes, the ticker fires, and the worker is run and gets
the mutex, since each handler's section ends. That is only so while none of the
handlers of finding 1 has stopped the program: the module's liveness is about a
process in which none of them ran. `EveryListingDecided` allows for a stalled
peer because the worker then really stops.

`Hub!FairSpec`: a connection's goroutine that has something to do of its own runs in
the end (`Goroutine`: announcing that it joins or leaves, unregistering; not what
its client makes it do), and so do the Redis listener and the goroutine that has
the mutex. Strong fairness, because `clientsMutex` and room in the channel come and
go: `sync.Mutex` hands itself to a waiter after 1 ms. For the write to a client it
says that one who reads again and again lets it through; a client that stops for good
is the exception in `LeaversLeave`. Clients, other handlers, Redis and crashes have no
fairness.

The other modules state safety only and assume no fairness.

## 6. Proofs

`StoreLockProofs` has two parts. The first is for any number of goroutines, any
handlers and any lists of lock operations, well bracketed or not, from
`NobodyAssumption` and `PathsAssumption`: `TypeCorrect`, `MutualExclusion`
(`Exclusion`), `NoCycleOfGoroutines` (`WedgeNeedsReentry`) and `Refinement`
(`ImplementsReadersWriter`). The inductive invariant adds to these what TLC's runs
take for granted: an idle goroutine has nothing left to do, a parked one stands before
an `RLock` and behind a writer, an announced writer stands before its `Lock`. Without
the second, `Unlock` could take an operation that is not an `RLock` off the list of a
goroutine it wakes. `WedgeNeedsReentry` follows from the invariant in each state. For
the refinement, `Start`, `Mongo`, `Peer` and what ends the process change nothing
of the lock, and each other operation is one step of it (`StepIsLocks`); that a
goroutine which moves does not wait (`ActiveOnes`) is where the invariant is needed.

The second part is about the handlers and their lists in `LockPaths`, and reduces
what goroutines do together to what each list says by itself. What a goroutine holds
is a number, of read locks or -1 for the write lock; `After` says what an operation
makes of it and `Obeys` whether the rules allow the operation there. A list keeps the
rules (`Keeps`) when its operations obey one after another until it ends with nothing
held, or gets to an operation that waits for itself, which the handler must be named
for. That is a recursion over the list, which could not be proved about; so `Leads`
says it without one: there is a *set* of pairs (what is held, what is left of the list)
that contains the start, and from each of whose members the next operation obeys and
leads to another. TLC checked the invariant with the recursion in its place before it was
proved. Lemmas put such sets together for
the concatenations `LockPaths` is written with (`LeadsCons`, `LeadsOn`), and
`EveryPathKeeps` goes through the table. `ListsSuffice` is the reduction: if each list
keeps the rules, `LockRulesKept` holds for any number of goroutines and any
interleaving. `RulesKept` puts the two together, for any selection of the handlers.
Two corollaries: `CleanHandlersMoveOn` (`WaitedForCanMove`), the part of
`EveryRequestAnswered` that is not fairness, and, by induction over the steps of
others, `StuckIsForGood` and `StuckIsNeverAnswered`, which make finding 1 a theorem
about every handler that calls the Store under the lock, but for the assumption that
such a handler gets there, which `lock_publish` shows.

`RateLimiterProofs`, for any rate, any burst of at least a token and any number of
addresses: `TypeCorrect`, `Bounded` (`WindowBound`), `Silence`
(`SilenceIsRewarded`) and `RefusedOnlyWhenSpent` (`RefusalIsEarned`). `WindowBound`
is not inductive: the invariant `Conservation` says that what was spent *and what is
in the bucket now* came from a full bucket and the refill of the interval. For
`RefusalIsEarned` that has to be an equation, which holds since the bucket was last
full and no longer, because what is refilled over the brim is lost: `Exact`.
`Refinement` (`ImplementsLeakyBucket`) and `Verdicts` (`VerdictsAgree`) rest on one
lemma, `Missing`: what is missing in a bucket is what is left to drain, and the cap on
the refill is the leaky bucket's disregard of the past. A refused request changes the
bucket and its date, and not the time when it will be full.

`InvitationsProofs`, for any number of requests and addresses, from
`NoneAssumption`: `TypeCorrect`, `NoDoubleAccount` (`OneAccountPerEmail`),
`NoStranger` (`NobodyUnknown`), `RepairIsComplete` (`HealingComplete`),
`AcceptanceIsFinal` (`OnlyOverlapUndoesAcceptance`) and `DuplicateIsOverlap`
(`SecondPendingExplained`). Of these only
`OneAccountPerEmail` is preserved with little help. The invariant `IInv` adds:

- `HeldExists`, `NotYetThere`, `MailGiven`: a request holds an invitation that
  exists, what it has not created is not there, and the addresses it uses are
  given. They say that `status[at[r]]` and `mail[r]` mean something, and that
  inserting an invitation overwrites none.
- `UserKnown`, from which `AcceptedBySomebody` and `MembersKnown` follow step by
  step: between `FindUser` and `Join` a request goes on with a registered user.
  `InviteStaff` is the exception, which is why `NobodyUnknown` leaves its
  memberships out.
- `ReadersRecorded`: whoever stands between reading the status of an accepted
  invitation and writing it is in `early`. It makes the action property a
  consequence of the state before the step.
- `DebtCovered`: an invitation a `ListStaff` request owes a membership has one, or
  is still in the request's list, or is the one it holds, with the one user its
  address has. `OneAccountPerEmail` is what makes that user the right one. Others'
  steps keep it because memberships are never removed, an accepted invitation
  keeps its address and an address its account (`LackStays`).

`LeasesProofs`, for any number of requests, units and keys and any choice of the
units let automatically, from `NoneAssumption`: `TypeCorrect`,
`CurrentLeaseIsRight` (`CurrentLeaseIsOfUnit`), `VacancyHasReason`
(`VacancyExplained`), `ApprovalIsHonoured` (`ApprovedHasLease`), `RetryIsSafe`
(`RetryPaysOnce`). The invariant adds three arguments to the bookkeeping:

- a lease never changes its unit and never becomes active again (`LeasesStay`, from
  `LeaseMade` and `LeaseGiven`), and `TakeUnit` comes after `CreateLease`: so
  whoever is last to take a unit points it to a lease of it;
- `ApprovalUnderway`: an approved application has its lease or a reviewer stands
  before `CreateLease`;
- `AnsweredPaid`, `NotPaidBefore`, `EntriesSigned`: an answered payment with a key
  left an entry with it, so a later `Scan` finds it and never gets to `AddRent`.
  What fails for overlapping payments (`pay_twice`) is that both scan first.

`PersistenceProofs`, for any number of requests, records and crashes, from its
three assumptions: `TypeCorrect`, `WriteIsNotTooOld` (`WriteHasItsChange`),
`QuietIsSaved` (`QuietMeansSaved`), `DeletionIsFinal` (`DeletedStaysDeleted`),
`LandedIsLanded` (`LandedChangeLostOnlyToOlderWrite`). The invariant says what
makes the asynchronous writes work as far as they do: while the process is up a
record only grows (`ImageIsOld`), it has all its document has as soon as anybody
can find, change or write it (`MemoryIsAhead`, which `LoadFromMongo`
re-establishes), so a write can only take out of the document what got there since
the write marshalled (`Overwritten`). `OneWrite` and `Settled` follow a record
through its one write, with an exception while a change is made but not saved yet.
`Alone` is for a process that did not reach the database when it started, where
deleting does not touch the database: it has no record that is there. `Gone` needs
it. `Refinement` (`ImplementsSnapshotStore`) uses the same invariant, which gives that
an image has nothing its record has not; then each action is one of the abstract
store's (`ChangeIsTakenIn`, `DropErases`, `WriteIsSnapshot`, `WriteEnds`,
`ProcessDiesAndStarts`) or changes nothing of it (`NothingToSee`). `LinkGoodOnce`:
before the first crash nothing was loaded, so nothing is keyed by id (`NotLoaded`).
`LinksDieForGood`: a request creates its invitation once, so what a crash has taken
comes back by `LoadFromMongo` alone, under its id (`Lost`, `LostStep`).

`ModerationProofs`, for any listings and properties and any two ages, from
`AgeAssumption` and `KindAssumption`: `TypeCorrect`, `SilenceTakesADay`
(`CronWaitsADay`), `ApprovalIsCurrent` (`ApprovalCoversLastChange`),
`DelistingIsFinal` (`DelistedStaysHidden`), `WorkerOverridesNobody`
(`DecisionStands`). `RoundIsNotAhead` relates the worker's `now` to the clock,
`NoneDelistedBefore` that before its creation no listing is delisted, so that one taken
down has been decided and is out of the worker's way for good. Of
`EveryListingDecided` the safety is proved: `RoundEnds` (`EachListingOnce`) and
`NobodyMissed` (`RoundMissesNobody`), from `DueAreDone`, by which a listing that was
due is decided or still to be looked at. What fairness adds is that the worker is run.

`LandlordsProofs`, for any number of requests, users, addresses and tiers (at least
two), from the three assumptions of `Accounts` and `Landlords`: first that the
composition implements each of its parts (`AccountsImplemented`, `TiersImplemented`:
`AllSpec => Spec` and `AllSpec => T!Spec`), then `TypesCorrect` (`AllTypesOK`),
`Revocation` (`RevocationHolds`), `QuietSaved` (`QuietAccountSaved`), `SharedAddress`
(`SharedAddressExplained`), `LadderExplained` (`TierExplained`) and
`SessionsHaveOwners` (`ActsForOwner`). `Fresh` says that a session is nobody's before
its request opens it, without which a login could bring back a revoked one; `Held`,
that an update under way came with a session its user still has, or that is in
`carried`; `Spent`, that a token in the old format was revoked only with a list of
sessions it was stored in, and is back in one only through `carried` or `emptied`;
`Undisturbed`, how much of the file an upgrade that is alone has changed, stage by
stage. A session's owner is the user its request was about when it opened it, which no
step changes from then on (`Untouched`, `OwnersStay`), so the user a token is found
with is its owner (`OwnersFound`).

`HubProofs`, for any servers, connections, users and any channel, from the three
assumptions of `Hub`: `TypeCorrect` (`TypeOK`), `NoGhost` (`NoGhostOnline`),
`OfflineExplained` (`OfflineOnlyByOverlap`). Between an announcement and what a client
is shown lie the channel of Redis, the message that has the mutex and the writes left.
`OnItsWay` says that the last announcement for a server is the last in its channel, or
what is being written, or what every client was told; `OnlineOfSomebody` and
`OfflineOfNobody` what it tells of the connections there are; `Announcing` that a
goroutine which dispatches dispatches its own announcement. `Agreement` (`ClientsAgree`) needs
besides that servers with Redis have the same last announcement, but for one that
missed it or has heard nothing yet (`SameWord`). `Leaving` (`LeavingOnlyGoesOn`) needs
only the shape of the state: that a goroutine which leaves has left the table only when
it unregistered, and that nobody takes the mutex from a write under way.

Each inductive invariant was also checked by TLC on the instance of its run
(`INVARIANT IInv` in the configuration, the proof module extended in place of the
module), where it holds in every reachable state, so no proof rests on a
contradiction.

Only model-checked: liveness (`EveryRequestAnswered`, `EveryListingDecided`,
`LeaversLeave`, which rest on fairness and `ENABLED`), and what the `violation` runs
show, which is that a state is reached.

## 7. Not modelled

- Bookings, leads, commissions, inspections, deductions, viewings: insertions and
  lists with no rule between them (a booking does not look at availability).
- The service layer is called by nobody. Uploads, mail and templates are I/O.
- The bodies of `UpdateListing`, `PublishProperty`, `UnpublishProperty`,
  `SuspendUser`, `VerifyKYC` and `ListApplications` after their self-deadlock: no
  execution reaches them.
- Disputes and maintenance tickets: every change of a status is one section that
  looks at nothing (`EscalateDispute` escalates what is resolved), so the code has
  no rule to check beyond its assignments.
- Deadlines, documents and upsells of verification files; who may do what by role.
- Crashes in the middle of a lease change (the hazard at support.go:332): nothing
  repairs it and nothing is promised.
- Formatting, validation of bodies, prices and scores.

## 8. Plan

1. An abstract registry (an address has one account, an accepted invitation one
   owner, until a named overlap) that `Invitations` and `Accounts` both implement.
2. Leases under a crash, if the code comes to repair what a crash leaves of a
   transfer.
3. `Hub` and `Landlords` with `StoreLock`'s paths in front of them, to see which of
   their requests wait for which mutex.
