# Verification of the hair-salon backend

TLA+ models of the NestJS backend under `src/`, the TLC runs that check them on
small instances and the theorems TLAPS proves about them for all instances.
`PROJECT.json` lists components, runs, mutants, findings, hazards and theorems,
and maps every definition to the lines it models.

## 1. The system

One Node process (the code states that there is a single instance:
`src/src/whatsapp/application/per-sender-queue.ts:11`) in front of one Postgres
database. Code between two `await`s runs alone; at every `await` other requests,
webhooks and cron jobs run. Almost no use case opens a transaction around its
read and its write, so most of what is hard here is a row that was read, an
`await`, and a write computed from the old row.

| Component | State | Operations | Interacts with |
|---|---|---|---|
| Reservations (`reservations/`) | table `reservations`: status, window, stylist, pinned, owner | create, cancel, confirm, reschedule | staff, calendar, notifications |
| Reservation cron | none of its own | hourly settle (two UPDATEs), daily purge | reservations table |
| Staff (`workers/`) | table `workers`, the default worker | hire, rename, remove, load of a day or week | reservations (foreign key) |
| Sessions (`auth/`) | table `refresh_tokens` | login, refresh, logout, logout-all | accounts |
| Accounts (`auth/`) | `users`, `auth_tokens` | register, Google link, verify, change e-mail / password / profile, reset | sessions, e-mail |
| Assistant (`assistant/`) | conversations, usage, daily token ledger, cooldown per number | bounded tool loop, summaries | reservations, catalogue |
| Pending bookings (`assistant/`) | `assistant_pending_bookings` | propose (supersede), confirm, discard, purge | reservations |
| WhatsApp inbox (`whatsapp/`) | processed message ids, per-sender queue, rate limiter | webhook, handle a message, purge | assistant, reservations, pending bookings |
| Notifications | none (in-memory sockets) | dispatch to the channels | reservations call it after saving |
| Calendar and availability | none | opening hours, holidays, free slots | reservations, assistant |
| FAQs | positions | create, reorder, remove | - |
| Catalogue, reviews, images, MCP, bootstrap | plain tables | create-read-update-delete, or I/O | reservations copy services on creation |

What makes each part correct, and what is hard in it:

- **Reservations.** No stylist in two visits at once; a chosen stylist is never
  replaced; status follows its machine; overdue rows are settled. Hard: the
  check (`countOverlaps`) and the write (`save`) are separated by awaits; `save`
  writes *all* scalar columns of an aggregate read earlier, without a version
  check; cron jobs change and delete rows under running requests; the process
  may die between the two UPDATEs of the settle job.
- **Sessions.** One live token per browser session; a token that is replayed
  after its rotation costs the session; a password reset ends all sessions; a
  session lasts a fixed time. Hard: rotation, logout, family cut and reset race,
  each deciding from a row it read earlier.
- **Accounts.** An old e-mail link must not verify a new address; an old password
  must not come back. Hard: stale `users.save`.
- **Pending bookings / inbox.** A proposal is consumed once; messages of a sender
  are handled in order, at most once. Hard: redelivery, crashes between steps.
- **Budget.** Concurrent turns must not exceed the day's tokens by more than the
  reservations allow. Hard: seeding and day change while turns are in flight.

## 2. Modules

| Module | What it is |
|---|---|
| `WorkerCalendar` | abstract specification: an agenda is a set of visits, a step writes one visit that clashes with nobody's, or frees some |
| `Reservations` | reservations, their cron jobs and the staff, over the two tables |
| `ReservationsProofs` | its theorems |
| `AuthSessions` | refresh tokens: login, refresh, logout, logout-all, the sessions' side of a password reset |
| `AuthSessionsProofs` | its theorems |
| `PendingBookings` | the table of proposals, one operator per statement |
| `SenderQueue` | the webhook's queue per sender, the log of processed messages, the sliding window |
| `WhatsAppChannel` | composes the two with the handler, its buttons and the agenda |
| `WhatsAppChannelProofs` | its theorems, those of the queue and of the proposals included |
| `AssistantTurns` | admission, ledger, seeding, limits, the bounded loop and the saves of a turn |
| `AssistantTurnsProofs` | its theorems, with what they need about sums over finite sets |
| `Accounts` | accounts and mailed links |
| `AccountsProofs` | its theorems |
| `DomainErrors` | pure: the errors and what each edge (HTTP, tools, WhatsApp) makes of them |
| `AssistantTools` | the tools and the loop that runs the model's calls |
| `AssistantToolsProofs` | its theorems |
| `SalonCalendar`, `Availability` | pure: dates, holidays, opening hours, clock; agendas, occupancy, free hours |
| `TurnScreening`, `Catalogue` | pure: what judges are asked and how they are read; the catalogue's searches |
| `Messages`, `Notices` | pure: payloads, lists and answers of WhatsApp; who is told of a change |
| `FaqBoard`, `CatalogueDesk`, `StaffDesk` | the writes of the three small tables, statement by statement |
| `FaqBoardProofs`, `OfficeProofs` | the theorem of the first, the theorems of the other two |
| `MCReservations`, `MCAuthSessions`, `MCWhatsAppChannel`, `MCAssistantTurns`, `MCAccounts` | TLC instances of the module they name |
| `MCOffice` | one instance for the remaining modules (below) |

### Reservations

`row` is the table `reservations` (an id is `unborn` until its INSERT and
`purged` after its deletion), `staffing` the table `workers` without the default
worker. A request is a process `p`: `pc[p]` is the `await` it is at, `op[p]` what
it is, `target[p]` its reservation, `agg[p]` the aggregate in its memory and
`cands[p]` the assigner's remaining candidates.

| Action | Code |
|---|---|
| `BeginCreate` | `CreateReservationUseCase.execute` up to the first query about stylists |
| `BeginCancel`, `BeginConfirm`, `BeginReschedule` | `findById` and the domain's decision |
| `ReadWorkloads`, `TryCandidate` | `WorkerAssigner.elegir`, one query per step |
| `CheckOverlap` | `countOverlaps` of a create, or of a reschedule with a chosen stylist |
| `Save` | the repository's `save`: INSERT or UPDATE by id, subject to the exclusion constraint and the foreign key |
| `SettleConfirmed`, `SettlePending`, `Purge` | the cron jobs, one statement per step |
| `HireWorker`, `RemoveWorker` | `WorkersService.create`, `remove` |
| `Restart` | the process dies: every request and a half-done settle run are lost |

A `Begin` action joins a read with the decision that follows it: the decision is
synchronous, so nothing runs between the answer of the query and the next
`await`. Deciding at the instant of the read rather than a little after it
differs only in the clock. A request the rules reject leaves no trace and has
no action.

Abstractions: time is counted in slots and all days have the same hours (the
real ones are in `SalonCalendar`); services appear as their total duration, catalogue
look-ups and duplicate checks are left out; an owner is the set of identities
(a user, a normalised phone) that may act on the row, empty if there is no user
and the phone does not normalise; workloads are read as one answer; removing a
worker joins its count with the foreign key's RESTRICT, which refuses a removal
the count allowed if a row was inserted in between; the row read again after saving and the notification change
no state here (whom it tells is in `Notices`; the default worker's rows are in
`StaffDesk`). `confirmed` is a history variable: the ids some confirmation wrote.

### AuthSessions

`token` is the table `refresh_tokens` by hash. A family is named by its first
token (the code draws a uuid). `password[u]` counts the resets of a user.
`seen[p]` is the row a request read, with the changes it decided; `dirty[p]` the
columns TypeORM found different when it read the row again inside `save`.

| Action | Code |
|---|---|
| `BeginLogin`, `Open` | the credentials are checked; `issueRefreshFor` inserts the token |
| `BeginRefresh` | `RefreshSessionUseCase`: find, reuse detection, `assertUsable` |
| `CutFamily` | `revokeFamily` after a reuse |
| `Rotate` | `saveRotation`, one transaction |
| `BeginLogout`, `LoadForSave`, `WriteDirty` | `LogoutUseCase` and the two halves of TypeORM's `save` |
| `LogoutAll` | one UPDATE |
| `BeginReset`, `FinishReset` | `ResetPasswordUseCase`: the password is saved, later the sessions are revoked |

Abstractions: all accounts are active (no code deactivates one); revocation dates
are a flag; how a user proves the right to log in or to reset is left to
`Accounts`; registration and Google open a session like login does,
and a change of password from the profile revokes nothing, so it has no action here.
History variables: `late` (tokens issued from a row or a password that had changed
since it was read, and their successors), `cut` (families revoked by reuse
detection), `unswept` (users whose reset has not revoked yet, or never will
because the process died). They are written, never read, by the actions.

### The WhatsApp channel

A delivery of the webhook is a process `l`, chained behind the sender's last one
(`link[l].prev`) as `PerSenderQueue` chains promises. `log` is the table of
processed messages, `marks` the limiter's memory, `pending` the table of
proposals, `visit` that of reservations as far as this channel sees it.

| Action | Code |
|---|---|
| `Deliver` | the webhook's `POST`, `PerSenderQueue.run` |
| `Take` | `markProcessedIfNew`, the limiter, and the dispatch of the content |
| `SaveProposal`, `Answer` | `proponer.tool.ts` (supersede, insert) and the end of a turn |
| `Confirm`, `Discard`, `ExplainWhy`, `CreateBooked` | `ConfirmPendingBookingUseCase`: one statement each |
| `MostrarOpciones` ... `Mover` | the handler's methods of the same names |
| `Fail`, `Crash` | a step that throws; the process dies: links, queue and marks are lost, tables stay |
| `PurgePending`, `PruneLimiter` | the cron jobs |

Abstractions: the content of a message is chosen when the handler reads it, and
a button may name any row there is; the use cases on a reservation are single
steps (their awaits are in `Reservations`); the purge of the log of processed
messages is left out, since it keeps 30 days and Meta redelivers for at most 7;
`RateHeld` is about the marks in memory, which a restart empties.

### The assistant's turns

`turn[p]` holds the local variables of turn `p`, `conv` and `msg` are the two
tables, `ledger` is `DailyTokenLedger`, `seed` the promise `siembraEnVuelo`.
`Begin` is `execute` up to its first `await`; `SeedRead`, `SeedLand`, `SeedFail`
and `Resume` the seeding that concurrent turns share; `LoadPhone`, `LoadWeb`,
`Count` the choice of the conversation and the limits; `Ask` one call to the
model; `Summarise` the summary every few messages; `SaveNew`, `SaveScalars`,
`InsertMessages` the repository's `save`; `Reply` and `Fail` settle the reserve.

Abstractions: a call to the model costs one token; a tick is a whole day; a
ceiling of 0 (none) is left out; `findById`'s two reads are one; the waiters of a
seeding resume one by one; the reasons that cut the loop are one choice.

### Accounts

`user` and `token` are the tables; a request `r` reads, decides, and writes
through TypeORM's `save`, which is two steps: `Load` reads the row again and
`Write` updates the columns that differ (`Merged`). The password is not selected
by that read (`select: false`), so it always differs and is always written.
`Spend`, `InvalidateAllOfType` and `Issue` are the statements on `auth_tokens`.
History: `chosen` (the password last set on purpose), `proven` (addresses whose
owner was shown to read them), `disturbed` (accounts on which requests overlapped,
or on which one died half-way).

Abstractions: one account, whose e-mail nobody else takes (the unique index is
therefore not reached); `MaxDisturbed` stops new requests once the account is
disturbed, after which only those already running go on.

### The office

The remaining parts keep little state, and their tables are disjoint. `MCOffice`
extends the four modules with state, instantiates the pure ones, and lets `desk`, chosen at the start, say which one moves.

- `AssistantTools`: a turn's calls, one by one, for web, WhatsApp and MCP: the
  memo of repeated calls, the role of whoever asks, the owner's notice with its
  cooldown, a restart. The model's calls and the judges' verdicts are arbitrary.
  The hour does not pass within a turn; the provider may fail after any round.
- `FaqBoard`: two clerks; create, edit, remove, and the reorder under its lock,
  with TypeORM's `save` in two steps and the row that is gone and inserted again.
- `CatalogueDesk`: services with images and tags; each job is its statements, and
  any of them may fail or be the last. A missing `childrenIds` finds every tag,
  as `In([])` of a list nobody gave does; the placeholder image is left out.
  Any of the images kept may become the principal one when none is marked:
  the `find()` that lists them gives no order.
- `StaffDesk`: processes that start, list, hire, edit, remove and die. Names are
  left out; an edit's `save` re-inserts a row that is gone.
- The pure modules answer one question of each kind per step (`Ask`): days of
  agendas seen from before, on and after the day, the years 2024 to 2063, instants around a change of offset, searches,
  replies of judges, errors, payloads (with offsets and names of actions the
  channel never writes), lists, answers, notices. Their properties
  are written as action properties over the question asked (`question'`).

## 3. What is checked

Every run lists its properties in `PROJECT.json`; every property of a passing
run has a mutant, a plausible bug in one definition, under which TLC finds it
violated.

| Run | Instance | Shows |
|---|---|---|
| `reservations_booking` | 2 ids, 2 requests, 2 stylists, windows that overlap by half, clock 0..1 | `NoWorkerOverlap`, `WorkersExist`, `SnapshotsAgree`, `RequestsAdvance`, and that every step is one of `WorkerCalendar` |
| `reservations_lifecycle` | 1 id, 2 requests, 1 client, default worker only, two days, 1 restart | `FulfilledIsEarned`, `BookingIsKept`; `OverdueIsSettled` under fairness |
| `reservations_terminal` | as lifecycle | violated: a terminal reservation comes back |
| `reservations_confirmation` | as lifecycle | violated: a reschedule undoes a confirmation |
| `sessions` | 3 tokens, 2 requests, 1 user, TTL 2, 1 reset, 1 restart | all safety properties of sessions |
| `sessions_reset` | the same without restart | violated: a refresh in flight survives a reset |
| `inbox` | a client and the owner's number, 3 messages (2 of the client), 3 deliveries, 3 proposals of which one is there at the start, 3 visits of which one is somebody else's, crashes | `OneAtATime`, `HandledOnce`, `RateHeld`, `OneLiveProposal`, `BookedOnce`, `Disclosure`, `ButtonIsLive`; `QueueEmpties` under fairness |
| `turns` | 3 turns, a web user, a client's number and the owner's, 2 conversations, 2 days, ceiling 3, reserve 1, 2 iterations, crashes | `NoReserveLeaks`, `CallsAreBounded`, `PhoneLimitsHold`, `AdmittedUnderCeiling`; `TurnsEnd` under fairness |
| `turns_owner` | without the client's number | violated: a conversation changes owner |
| `accounts` | 1 account, 2 requests, 2 addresses, 2 passwords, 3 links, links that expire | `VerifiedIsProven`, `PasswordIsTheLastChosen`, `OldLinksAreDead` |
| `accounts_link` | 2 links, one overlap | violated: an old link verifies the new address |
| `office` | 2 clerks, 3 FAQs, 4 jobs on the catalogue, 3 hirings by 3 processes, 2 turns of tools, the questions of the pure modules | `EffectsToldOnce`, `EffectsHaveAnOwner`, `OrderIsKept`, `CatalogueIsSound`, `StaffIsSound`, `SalonTimeAgrees`, `SearchKeepsItsWord`, `JudgesOnlyAdvise`, `WordsKeepTheirMeaning` |

Bounds and why they are enough. Every race in the code is between two requests,
or a request and a cron job, over one row (status) or two rows (overlap), so two
requests and two ids show them all; the theorems below lift the
safety properties to any number. `Starts` and `Durations`
make windows equal, half overlapping and adjacent; `booking` leaves `confirm` and
the clients out because neither touches the agenda, `lifecycle` has a
stylist-free salon because the status does not depend on who attends. The
assigner's loop over several stylists is in `booking`, too large for liveness
without symmetry, so `RequestsAdvance` states there as an invariant what makes every
request end once its queries are answered: whatever it waits for, the next answer
leaves it with fewer to wait for, three and one per stylist at most; a loop
that tried a busy stylist again is its mutant. In `lifecycle` the clock passes the first
day's visits, the purge age and a second day, so settling, purging and
rescheduling to later all happen. Three tokens are a login and two rotations, or
two sessions and one rotation; a four-token instance is too large for a quick
run and adds only longer chains. Three deliveries are two messages of one sender
and a redelivery, or the other sender's between them; three turns are two that
race and one that comes after, or three at a ceiling of three; a limit of two
messages a day and of two turns a conversation is reached by them. Two
addresses, two passwords and three links are what a change of address, a resend
and a reset need. In `office` a day of agendas is asked about with the clock in
its morning, after closing, the evening before, the day after, and 90 and 91 days
before, where the code begins to refuse; a search lists two services at most of
a catalogue of five, so that the cap leaves some out (`MAX_RESULTS` is 8 in the
code); `PALABRAS_VACIAS` holds two of the words the code's list has. `NoReserveLeaks` counts what
was answered *since* the ledger's day, not on it, because the query that seeds the
ledger has no upper bound: an answer stored after midnight is in yesterday's total
if the seeding reads late. The run passes one night, the theorem any number.
`MaxTime`, `MaxResets`, `MaxRestarts`, `MaxLinks`,
`MaxBookings`, `MaxVisits`, `MaxDay`, `MaxConversations`, `MaxTokens`,
`MaxDisturbed`, `MaxFaqs`, `MaxJobs`, `MaxHired`, `MaxTurns` and `MaxAgenda` bound
what would otherwise grow for ever. Deadlock is checked except in `accounts`,
where all links may be used up and the clock at its end, and in `office`, whose
jobs and turns may all be done. Symmetry is used only where no liveness property
is checked.

Fairness (`FairSpec` of Reservations): weak fairness of the two
statements of the settle job, which a cron fires every hour. Nobody must send or
end a request, hire, purge, restart, or let time pass. `OverdueIsSettled` holds
because an overdue row is settled by the next run even if a confirmation lands
between the two UPDATEs, or the process dies between them.

`Spec` of `WhatsAppChannel` has weak fairness of each delivery's `Handle`, that of
`AssistantTurns` of each turn's `Step` and of the seeding: queries, the model (which
has a timeout) and Meta's API answer or fail. Nobody must write, tap or press.
`QueueEmpties` says that the map of the queue is empty again and again, `TurnsEnd`
that no turn waits for ever, not even on a seeding another one started.

## 4. What is proved

All theorems are for every value of the constants that satisfies the named
assumptions (`IdAssumption`, `WorkerAssumption`, `ActorAssumption`,
`TimeAssumption`; `NameAssumption`, `BoundAssumption`; `PendingAssumption`,
`QueueAssumption`, `ChannelAssumption`; `TurnsAssumption`; `AccountsAssumption`;
`ToolsAssumption`, `FaqAssumption`, `DeskAssumption`), which TLC evaluates too. The
last three are hypotheses of their theorems, for their modules are also used in
instances. The bounds a model needs to be finite are constants like the others, so
a theorem is about every value of them. Every safety invariant but `RequestsAdvance`,
and every action property of a module with state, that a run checks is a theorem.

**Reservations.** The table's invariants are not inductive without knowing what
an in-flight aggregate may be: it is written over the row later. `SnapshotsAgree`
is that strengthening - an aggregate agrees with its row in owner, services, the
pin and a chosen stylist; it is never fulfilled; it is confirmed only if the salon
confirmed it; a create is alone on its id - and it is itself checked by TLC.
From `TypeOK`, `FulfilledIsEarned`, `WorkersExist` and `SnapshotsAgree` together
follow `BookingsKept` and the status theorems. `NoOverlap` needs no snapshots:
the constraint decides on the row as written. `RefinesCalendar` shows that
`Reservations` implements `WorkerCalendar`: `Save` is `Write` of one visit (or a
release, when it cancels), settle and purge release visits, all else stutters.

**Sessions.** `IInv` is the six invariants, that cut families have tokens, and
`SnapshotsFit`: the row a request holds has its token's user, family, expiry and
password, a successor it knows of exists, a rotation holds a row that was live,
and a logout's write revokes. Each step also only *grows* the table: rows keep
their identity and stay revoked, which gives `NeverUnrevoked` and keeps the other
requests' snapshots. In the rotation step a successor that is not late has a
predecessor that was live, so whatever could be wrong with the successor was
already wrong before.

**The WhatsApp channel.** Everything rests on `Chain`: a delivery's predecessor is
older and, while at work, of the same sender; an unsettled delivery with an older
unsettled one of its sender has a predecessor that has not settled and is no older
than that one; the map holds the youngest unsettled one, or nothing. So the one
that runs is the first, and alone (`OneByOne`). The supersede and the insert of a
proposal are two statements; that a number has one open proposal at most, and
none between the two, is inductive only because the delivery that stands between
them is its sender's only one at work (`Alone`): `OneLive` is a theorem about the
two components together. `BooksOnce` adds that a delivery about to create holds a
confirmed proposal of its sender, which no other delivery about to create holds and
no visit carries yet; spent proposals stay spent. `ButtonsLive` follows from what an offer in a
running turn is: open, of its sender, the newest of hers. `RateKept` strengthens
`RateHeld` with the finiteness of the windows and that no mark lies in the future:
a mark is added only when what is left of the window has room for it.

**The turns.** `TypeInv` adds to the types what a turn holds at each of its steps,
and that whoever waits for a seeding waits for one in flight. `CallsBounded`
needs no more. The ledger's theorems rest on `Balanced`: what the ledger says
was spent lies between the sum of what each turn has cost for sure (its reserve
while it is in flight, its stored tokens afterwards) and the sum of what it can
have cost (its reserve, the calls it made, or what it stored since that day), and so
does the total a seeding has read and not landed yet. `InOrder` says that no
turn in flight is of a later day than the ledger's, and that a seeding is for a
later one. From the upper sum follows `NoLeaks`, from the lower one `UnderCeiling`.
The lemmas about sums (the sum of a finite set does not depend on the order, adds up,
is monotone, changes by one term) are proved in the module by well-foundedness of
the proper subsets of a finite set. `PhoneLimits` counts messages long before they
are stored; what makes it inductive is `Serial` - a number has one turn at a time,
which the queue of the channel gives - and `Fits`, that the room a turn found is
still there.

**Accounts.** `TypeInv` says what a request holds at each of its steps. `AccountInv` is
about accounts no two requests have overlapped on: what a request read of the row is
still so (`Fresh`), a link it is about to store is for the present address
(`MailsCurrent`), a verification under way follows such a link (`VerifiesCurrent`),
and any link that can still verify was mailed to the present address
(`LinkIsCurrent`) - except while a change of address is between its `save` and its
invalidation (`Moving`), which is where finding 5 lives: the theorem's exception and the
run's counterexample are the same window. `DeadLinks` needs another invariant, `LinkInv`:
links are numbered as they are stored, and those a request had invalidated before it
stored its own remain so. It holds whatever overlaps.

**The tools.** The hypothesis on who asks, `IsContext`, is what the two adapters give:
the web's role is the session's, and the owner's number comes with the owner's role;
that nobody else comes with it is not assumed. Each tool is shown `Sound`: its result
agrees with who asked (`Entitled`), no visit changes hands and a notice is
written with its mark (`Kept`), and a proposal is for the number that asked
(`Offered`). `ToolsInv` then carries this through the turn: the memo's signatures
differ (`MemoInv`), the reply is written with every result seen and never hides a
question (`ReplyInv`), results stay right because visits keep their owner
(`EntitledInv`), and a notice of this process is remembered until its window is
over (`NoticeInv`; a restart forgets the marks, so the window holds within one process).

**The questions.** `FaqInv`: the rows of the order last accepted carry their place
in it, every other row and every insertion under way comes after them, and an edit
under way writes the order its row has - for requests that neither asked for a
place nor read before the order was given. Those are exactly the exceptions of
`OrderIsKept`.

**The staff and the catalogue.** `StaffSound` rests on `Handling`, what each
process may hold between two statements (a removal never holds a default worker, an
edit that inserts a row again never holds one either), and on `OneDefault`. For
`CatalogueSound` the invariant says of each job what is left undone between two
of its statements; it is long because every one of them may be the last. One job
runs at a time, in the model and in the theorem.

Only model-checked, and why:

- Liveness (`OverdueIsSettled`, `QueueEmpties`, `TurnsEnd`) and `RequestsAdvance`: TLAPS
  does not reason about ENABLED, on which weak fairness rests too.
- `SalonTimeAgrees`, `SearchKeepsItsWord`, `JudgesOnlyAdvise` and
  `WordsKeepTheirMeaning`: what recursive or sorting definitions compute, for every
  input, takes an induction over data, which the installed provers cannot do.
- The violated statements, which are counterexamples.

## 5. Findings

1. **A terminal reservation is not final** (`reservations_terminal`): `save`
   writes the status of the aggregate it read. A reschedule that read the row
   before a cancellation brings it back, if its window is still free.
2. **A reschedule can undo a confirmation** (`reservations_confirmation`), after
   which the hourly job cancels the visit the client attended.
3. **A password reset does not end a refresh in flight** (`sessions_reset`):
   `saveRotation` inserts its successor after `revokeAllOfUser`.
4. **A conversation can change owner** (`turns_owner`): the guard of `claimBy`
   looks at the copy the turn read before it called the model, and the update
   writes `user_id` by id: an anonymous turn writes the empty owner it read over a claim.
5. **A link sent to the old address can verify the new one** (`accounts_link`):
   the address is saved before the old links are invalidated, and a verification
   reads its account after its token.

What holds despite them: no double booking (the constraint), no change of what
the client chose, no `cumplida` without a confirmation, no revoked token back to
life, and only tokens issued from a stale row escape a family cut or a reset; no
message is handled twice and no proposal books twice; no reserve of the
token budget outlives its turn and no turn is admitted over the ceiling; and without
overlapping requests an account is verified
only at an address its owner reads and has the password last chosen.

Smaller observations, in the hazards of `PROJECT.json`: N turns in flight at
midnight are charged to neither day, where a comment speaks of one; an eleventh
visit cannot be reached from WhatsApp's list; two processes that start on an
empty table add two default stylists; a panel's socket outlives its token; a
profile saved late restores the password a reset has changed; if the
stylist's name cannot be read, no channel tells of the change; an assistant's turn
the provider cut short may do its effects again in the next turn.

And in the pure modules, stated there as the code has it: `button-payload.ts:90`
says that reading a button never guesses, but the offset is read with `Number()`, so
that `09`, `0x9`, `1e1` or nothing at all are offsets too, and the table of actions is
a plain object, so that a name every object has (`constructor`) is read as an action,
for which the handler has no case; the free hours of a day that is already over are
its opening hours, and the refusal comes when one is asked for.

## 6. Not modelled, and what is left

- The text of messages, prompts, summaries, e-mails and templates, log lines and
  telemetry: no property is about their wording.
- The adapters of the language model (`infrastructure/llm`) and of the judge's HTTP
  call, Meta's and Cloudinary's clients, the MCP transport: translation and I/O; what
  they may answer is an arbitrary choice in the models.
- `calibracion/`: a bench of example sentences, not part of the running program.
- Seeds, modules, dependency injection, configuration parsing beyond the switches
  `TurnScreening` and `Notices` read, request validation, and the migrations except
  for the constraints the models use.
- Access tokens and guards: stateless checks.
- Plans, details, reviews, shared info: plain tables without interaction.

Worth adding next: the pure functions that need no induction (opening hours, what
an edge makes of an error, the limits of a list) as lemmas for every input; the
confirmation of a proposal composed with the full `Reservations` instead of its
single step; the safety half of `RequestsAdvance` (no step of a request leaves it
with as many answers to wait for) as a theorem.
