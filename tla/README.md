# Trutina in TLA+

Trutina is a double-entry bookkeeping engine in Python: a chart of accounts, a
journal, postings and a trial balance over PostgreSQL, driven by a REST API and a
CLI, with an authentication package beside it. This directory holds TLA+ models of
its behaviour, the TLC configurations that check them, and proofs that the TLA+
proof system checks. Everything is derived from the Python source; the definitions
keep the names the source uses.

- [Inventory](#inventory): the system's parts, what they keep, how they interact
- [Modules](#modules): which module models what
- [Abstractions and bounds](#abstractions-and-bounds)
- [Runs](#runs): what each TLC run asks and shows
- [Findings](#findings): where code and documentation disagree
- [Fairness](#fairness)
- [Proofs](#proofs)
- [Not modelled](#not-modelled)
- [Plan](#plan)

To check a run: `tlc -config ledger_race.cfg MCBooks` (or `MCAuthentication`,
`MCApiServer`, `MCCliSession`, see the table). To check the proofs: `tlapm LedgerProofs.tla`, and so on.

## Inventory

### Bookkeeping: `packages/core` over `packages/storage-postgres`

| Part | State | Operations | What makes it correct |
|---|---|---|---|
| `AccountService` (`core/account`) | none of its own; rows `accounts`, `audit_events` | `create_account`, `update_account`, `delete_account`, reads | codes and canonical names are unique; lookup keys match names; every change is audited; an account with postings stays |
| `JournalService` (`core/journal`) | `journal_entries`, `journal_lines`, the number sequence | `create_journal_entry`, `list_journal_entries`, `get_journal_entry` | numbers are fresh; entries are immutable, balanced and readable for ever |
| `PostingService` (`core/posting`) | `postings` | `post_journal_entry`, two reads | an entry is posted whole and at most once |
| `TrialBalanceService` (`core/trial_balance`) | none | `get_trial_balance` | debits equal credits at every cut-off date |
| repositories (`storage_postgres/*/repository.py`) | the tables | one session per call, one transaction per write | UNIQUE and CHECK constraints back up the services' checks |
| `PostgresExecutor`, `translate_postgres_errors` | none | runs one unit of work, maps errors | a failure surfaces as `STORAGE_TIMEOUT` or `STORAGE_UNAVAILABLE`, whatever happened on the server |

A service method is a coroutine. Each repository call it awaits opens its own
session: nothing spans two of them, so a method is a sequence of statements with
everybody else's statements in between. This is where the hard behaviour is:

- **check, then act.** `create_account` asks whether the code and the name exist
  and inserts later; `post_journal_entry` asks whether the entry is posted and saves
  later; `delete_account` asks whether there are postings and deletes later. Some of
  the gaps are closed by constraints, some are not.
- **read, then write back.** `update_account` fills omitted fields from a row read
  earlier, and the session's flush writes only the columns that differ from yet
  another read.
- **what is checked is not what is stored.** Amounts are validated as the
  caller's `Decimal` and stored as `NUMERIC(18,2)`; the validators run again on every
  read; dates are compared with two clocks.
- **lost answers.** A commit may succeed while its caller gets a storage failure.

### Authentication: `packages/authentication` over `packages/storage-postgres`

| Part | State | Operations | What makes it correct |
|---|---|---|---|
| `PasswordAuthenticator` | dummy hash | `authenticate`: length checks, lookup, verify, rehash | only the stored password of an active user signs in |
| `ThrottledAuthenticator` | rows `login_attempts` | count, delegate, record and purge, or clear | failures of one client and address are bounded; nobody else is affected; a throttled client is let in again |
| `RegistrationService` | rows `users` | `register`: validate, pre-check, hash, insert | one registration of an address wins and its password stays |
| `Argon2PasswordHasher` | a semaphore | `hash`, `verify` on worker threads | slots are neither lost nor freed twice |
| `PostgresUserRepo`, `PostgresLoginAttemptRepo` | the tables | one statement each | unique addresses |
| `set_active`, `tools/purge-login-attempts.py` | the tables | by an administrator, at any time | take effect on later logins; the tool forgets what is older than it is told to keep, counted failures too if that is less than the window |
| `Identity`, tokens, `RefreshTokenRepo` | none yet | contracts without an implementation | rotation: one winner among concurrent calls |

Hard here: the count and the record are separate statements of concurrent
attempts; the clock is read before the statements that use it; a user is read once
and acted on several awaits later; verifications, rehashes and registrations compete
for a few hashing slots.

### The applications: `apps/api`, `apps/cli`

| Part | State | Operations | What makes it correct |
|---|---|---|---|
| the error contract (`shared/errors`) | none | builders of `AppError`, `get_field_violations` | nothing an adapter needs is lost in the translation |
| the connection (`storage_postgres/shared/connection`) | an engine | `connect`, `disconnect` | whoever creates an engine disposes it |
| API composition (`api/composition`) | engine, container, the process's phase | lifespan: connect, build, serve, disconnect | no service is called without a checked connection; always disconnected |
| routes, mappers, presenters (`api/features`) | none | 14 routes | each request gets one response |
| exception handlers, middleware (`api/shared/errors`, `observability/asgi.py`) | the correlation id of a request | exception to status, body, header and log line | client and log are told the same, under the same id |
| `CliContext` (`cli/composition`) | lazy connection, cached repositories and services | accessors, `aclose` | nothing cached outlives its connection; what was opened is closed |
| shell, dispatch, completion (`cli/shell`) | the loop | read a line, resolve it, run it, survive it | one bad command does not end the session; completions are understood |
| commands and the error boundary (`cli/features`, `cli/shared`) | none | 12 commands of prompts, parsers and calls | a failure is reported once and the exit status tells what happened |
| `config`, the rest of `observability` | settings, logging | read once, configure | no behaviour over time |

Both are thin adapters around the same services, and both put two loops into one
process: the API serves requests concurrently on one event loop, the CLI runs its
commands on the main thread and hands each service call to an event loop on another.
Hard here:

- **two sides of the middleware.** The handler for `Exception` runs outside
  `CorrelationIdMiddleware`: when it answers, the middleware has already logged the
  request's completion and reset the context variable.
- **one failure, several translations.** The services turn domain codes into
  `UNKNOWN_ERROR` with the code as the value; API and CLI undo it, each for itself.
- **nested boundaries.** Some commands run a fetch that has a boundary of its own
  inside another, some prompts run inside none.
- **interrupts.** Ctrl-C reaches the main thread; the handler it waits for runs on. In
  the shell typer turns Ctrl-C into a return to the prompt, so that the handler may
  still connect beside the next command's `connect()`, or while, or after, the context
  is closed.
- **lazy connections.** Any command may be the first to connect, or the first after
  a failure.

`PROJECT.json` lists every part with its sources and status, and under "hazards"
every behaviour above at its line.

## Modules

```
              AbstractLedger                     Calls      IdentityStore
                    ^ implemented by             ^   ^            ^
Storage  <-- AccountService -----+               |   |   Hasher --+
   ^  Calls <--^                 |               |   |     ^      |
   |                             +-- Books ------+   +--- Login, Registration
JournalService <-- PostingService+     ^                     ^
                                       |               Authentication
                 MCBooks --------------+                     ^
  BooksTypes <- LedgerProofs <- ChartProofs            MCAuthentication
        Sums <-------^                          AuthenticationProofs <- ThrottleProofs

Errors <-- ErrorResponses, ServiceErrors <-- ApiRoutes --+
   ^ ^---- ErrorPanels  --------------------------- ApiServer <-- ApiServerProofs
   |            ^------ CliCommands <---+                ^------- MCApiServer
Connection <----------- CliContext <-- CliSession <-- CliSessionProofs
   ^---------------------------------- ApiServer  ^--- MCCliSession
```

| Module | Models | Correspondence |
|---|---|---|
| `Calls` | the callers | `pc[c]` names the statement that the call of `c` awaits; `outcome[c]` is the result or the code of the error raised |
| `Storage` | the bookkeeping tables, their column conversions and constraints, the shared rules on names, lines and dates | a variable per table; one operator per SELECT, constraint or validator, with the Python name |
| `AccountService` | `create_account`, `update_account`, `delete_account` with `PostgresAccountRepo` | one action per awaited statement: `CreateCheckCode`, `CreateCheckName`, `CreateInsert`, `UpdateGet`, ... `DeleteCommit`. `loaded[c]` is the ORM row a session holds between its SELECT and its commit |
| `JournalService` | `create_journal_entry`, `list_journal_entries` with `PostgresJournalRepo` | `JournalValidateAccounts`, `JournalNumber`, `JournalSave`; a listing is two SELECTs |
| `PostingService` | `post_journal_entry` with `PostgresPostingRepo`; the trial balance | reading the entry (two SELECTs), the pre-check, the batch INSERT; `TrialBalanceIsBalanced` is the aggregation |
| `AbstractLedger` | the promise: fresh entries are recorded and never change, each is posted whole and at most once | two actions, `Record` and `Post` |
| `Books` | the composition both applications build, its properties, the refinement of `AbstractLedger` | `Next` interleaves the callers' statements |
| `IdentityStore` | `users`, `login_attempts`, and the statements on them; the purge tool | one operator per repository method; the tool takes any cutoff (`OlderThan`) |
| `Hasher` | the semaphore of `Argon2PasswordHasher` | `Acquire`, `Release`: a hash is two steps, others run in between |
| `Login` | `ThrottledAuthenticator` around `PasswordAuthenticator` | `CountFailures`, `Lookup`, `StartVerify`, `EndVerify`, `StartRehash`, `EndRehash`, `UpdateHash`, `Clear`, `RecordFailure`, `Purge` |
| `Registration` | `RegistrationService.register` | `BeginRegister`, `CheckEmail`, `StartPasswordHash`, `EndPasswordHash`, `CreateUser` |
| `Authentication` | the composition, the clock, `set_active`, the purge tool, fairness, properties | `seen_active` is a history variable and has no counterpart in the code |
| `Errors` | `ErrorCode`, the exceptions that cross a service boundary, `get_field_violations` | an exception is a record of its class, its code, the keys of its context and its violations; texts are left out |
| `ServiceErrors` | what each call of the bookkeeping services may raise | a set per service method, read off its `raise`s and those of the repositories and validators below it |
| `ErrorResponses` | the API's catalog and exception handlers | `Handle` picks the handler along the class hierarchy, as Starlette does; each handler is an operator from exception to response |
| `ErrorPanels` | the CLI's formatters and the boundary's log line | `PanelsOf`, `_log_failure`, `Caught` |
| `Connection` | `connect`, `disconnect` of one process | two steps around the `SELECT 1`, of several engines at once (`connecting`); `ConnectBreaks` is an exception other than `OperationalError`, which leaves the engine behind (`abandoned`, a history variable) |
| `ApiRoutes` | the routers, schemas and mappers | a record per route: what its schema and its mapper may refuse, its service, its status |
| `ApiServer` | one API process: lifespan, middleware, requests, handlers | `phase` is the lifespan, `stage[r]` the await or callback a request is at; `cid` is the id in the scope, `bound` the one in the context variable |
| `CliContext` | `CliContext` | a repository is known by the engine it reaches, a service by the set of what it reaches; the accessors before and after the one await they have (`Assemble`, `AssembleConnected`), `aclose` around its own (`BeginClose`, `Drop`) |
| `CliCommands` | the commands, prompts and parsers | a command is a set of possible sequences of steps: ask, confirm, refuse, parse, call, print, each at a depth of `error_boundary` blocks |
| `CliSession` | one CLI process: `run()`, the shell loop, dispatch, completion, the portal, the boundaries | `stage` is what the main thread does; `asked[e]` is the service that the handler waiting for `e` is to get; a handler whose caller was interrupted is in `orphaned` and goes on at any stage (`OrphanConnects`, `OrphanFails`). `StopPortal` waits for it after a shell that was left at its prompt and cancels it after an exception |

Every action is the whole statement: what follows the await up to the next one,
early returns and the error path included. `AccountFailure`, `JournalFailure`,
`PostingFailure`, `LoginStorageFails` and `RegisterStorageFails` let any statement
fail without effect; a commit may also take effect and be reported as a failure.
The applications do not repeat the services: to them a call is a step that returns
or raises one of the exceptions that `ServiceErrors` lists for it.
`PROJECT.json` maps each definition to its lines. An operator introduced by
"Faulty variant" is a plausible mistake in the code beside it; no specification
uses it, it exists to see that the properties notice.

## Abstractions and bounds

- **Names** are a casefolded key, a spelling and whether they are padded: what
  `clean_account_name`, `account_lookup_key` and the name pattern tell apart.
  Addresses and passwords are a normalized value and the form normalization erases.
- **Amounts** are sub-units, `SubUnits` = 4 to the cent, so that a half and a quarter
  cent exist and rounding ties can be seen.
- **Dates** are days; `Today` is the process's clock and `DbToday` the database's.
  Both are constant: a run is shorter than a day.
- **Audit rows** are counted per account code and action.
- **Time** in the authentication modules is relative: a row carries the ticks since
  it was stamped, a call the ticks since it read the clock. A row older than the
  window and the longest delay can neither be counted nor escape a purge, and is
  dropped. One clock is assumed, and that it does not go back. `MaxDelay` bounds how
  old a clock reading may be when used: `Tick` waits for such a call, which stands for
  the statement timeout.
- **Argon2** is equality of secrets; a stored hash also says whether its parameters
  are the current ones.

- **Exceptions** keep what an adapter can tell apart: class, code, context keys,
  violations, and whether a delay is digits. Their texts are a set of placeholders,
  filled or not.
- **Correlation ids** are the request's slot: ids are unique or the client's own
  choice. A malformed request line or body encoding is refused by the server in front.
- **External**: uvicorn (lets requests in once startup is complete, shuts down when
  when none is in flight) and typer (resolves words to commands; `-h` is like `--help`;
  turns Ctrl-C into `Exit(130)` and the end of input into `Abort`, so that
  `app(standalone_mode=False)` returns after the one and raises the other). Neither is
  in the repository; `uv.lock` pins the versions.
- **Prompts** that ask again until the answer can be taken are one step, and the pairs
  of prompt and parse for the lines of a journal entry are one pair.
- **A boundary** is its depth: an exception passes one block per step.

| Bound | Where | Why it is enough |
|---|---|---|
| two callers | the concurrent runs | every race found or excluded here is between two calls; the proofs cover any number |
| `MaxJournals` = 1 or 2 | guard of `JournalNumber` | two entries race for numbers, one entry is posted by two |
| `MaxAccounts`, `MaxUpdates` 0 to 3 | guards of the inserts and commits | a delete and a re-creation, a rename chain of two |
| `AttemptIds` 3 or 4 | guard of `record_failure` | within the window at most `MaxFailures` - 1 plus the callers count at once (`ThrottleBound`); the others are on their way out |
| `OlderThan` from -1 to `Window` | what the purge tool is told to keep | less than nothing, nothing, part of the window, all of it; more is like all of it |
| `Window` 1 or 2, `MaxDelay` 1 | `IdentityStore` | a row is inside the window, at its edge, or past it but not past a late purge |
| `MaxFailures` 1 or 2, `MaxConcurrency` 1 | the runs | below, at and above the limit; a slot that two calls want |
| input sets | `MCBooks`, `MCAuthentication` | one representative per case that the guards distinguish |
| two `Requests`, one engine id | `api_requests` | a request meets a shutdown and another request; the process holds one engine at a time. The proofs cover any number |
| `EngineIds` = two | `cli_session` | one engine whose `connect()` lost its caller, or that a broken check left behind, and one more beside it; with both abandoned no command connects. The invariants were also checked with three (two orphans beside a third engine, 0.4 million states); the proofs cover any number |
| `IdsLeft` | guard of `Interrupt` | a `connect()` is interrupted only while an id is left for another engine: otherwise all later commands would be stuck for want of an id. One orphan beside one `connect()` is what two ids allow |
| `MCLines`: all lines of one and two words, those of three that ask for help of a group or a command | `cli_session` | the command tree is two words deep, and `help` is a shorthand at the ends only |

Callers are symmetric: actions and invariants treat them alike, so runs without
liveness use `Permutations(Callers)`. Deadlock is checked in every run.

## Runs

| Run (module) | Question | Properties |
|---|---|---|
| `ledger_race` (`MCBooks`) | do two callers recording, listing and posting, with failures and lost answers at any statement, amounts finer than a cent and a database still in yesterday, keep the ledger right? | `PostedWholeAndOnce`, `OutcomesTruthful`, `DrawnNumbersFresh`, `TrialBalanceBalances`, `ImplementsLedger` |
| `books_race` | do entries stay readable while the accounts they name are deleted? | `OnlyAppErrors` |
| `chart_race` | do creations, renames and deletions in parallel keep keys unique and audited? | `AuditExplainsChart`, `ChartKeysUnique` |
| `books_sequential` | what does the documentation promise that holds as long as calls do not overlap? | `TypeOK`, `NameKeysCurrent`, `OmittedFieldsRetained` |
| `throttle_race` (`MCAuthentication`) | do attempts in parallel, slow statements and purges keep the throttle's promises? | `ThrottleBound`, `OthersUnaffected`, `ForgetsOnlyItsOwn` |
| `identity_race` | one address registered twice, one account signed in to while it is rehashed, disabled and enabled | `TypeOK`, `SlotsAccounted`, `RegistrationsTruthful`, `LoginsGenuine`, `PasswordsStand` |
| `login_liveness` | does everybody get through, for ever? | `EveryCallEnds`, `ThrottleLifts` |
| `api_requests` (`MCApiServer`) | do two requests, on any route and ending in anything their services may raise, get one story each while the process starts, serves, is told to stop and is started again? | `TypeOK`, `LogTellsWhatWasSent`, `IdsMatch`, `DetailsNameTheRule`, `MessagesComplete`, `CallsAreConnected`, `ClosedAtExit`, `EveryRequestAnswered`, `StopsWhenAsked` |
| `cli_session` (`MCCliSession`) | do sessions and single commands, failing, declined and interrupted anywhere, keep the context, the reports and the exit status right, also when a handler that nobody waits for connects beside a later command? | `TypeOK`, `OneEngine`, `NothingOutlivesItsConnection`, `CallsAreConnected`, `ClosedAtExit`, `FailuresReportedOnce`, `ExitStatusTruthful`, `CompletionsUnderstood`, `ShellSurvives`, `CommandsEnd` |
| `stale_name_key`, `rename_delete`, `unreadable_entry` | see Findings: TLC finds the violation | one each |

What the passing runs show, beyond "no error":

- The unique constraint on `(journal_number, line_index)` is all that keeps two
  posting calls apart, and it suffices, also when the first one's commit is reported
  as a failure and the call is repeated. The ledger seen from outside is that of
  `AbstractLedger`.
- Rounding may unbalance a stored entry, but such an entry never reaches the ledger:
  posting reads it back through the validators. So the trial balance balances in
  every reachable state, though not every accepted entry can be posted.
- Deleting an account does not harm the entries that name it, because reading an
  entry does not look its accounts up. `books_race` uses whole cents and no renames;
  with fractions of a cent, or with renames that overlap, `OnlyAppErrors` fails (see
  Findings); that nothing else makes it fail is proved.
- The properties of `books_sequential` are weaker promises: with a second caller each
  but `TypeOK` fails. `NameKeysCurrent` is a finding. `OmittedFieldsRetained` ("omitted
  fields retain their current values", `account/service.py`) says what one caller may
  rely on: an omitted field is written back as it was read, over another caller's change.
  Which overlap it takes, the conditions of the proofs say.
  Two more windows are open that the documentation does not claim to close, and nothing
  is stated of them: postings may appear between a deletion's check and its commit, and
  a second deletion of one account leaves a second DELETE audit row.
- The throttle overshoots by at most the attempts in flight, as the package's
  `CONTEXT.md` says, and the purge of a login with an old clock reading forgets no
  failure that counts. The purge tool keeps that promise only if it is told to keep at
  least the window: `--older-than-hours` may be less, and `login_window_seconds` more.
- An API client and the log are told the same about every request, also when the
  catch-all handler answers after the middleware is done; a client that is told only
  "validation failed" still gets the code of every rule it broke, and the same ones
  that a user of the CLI sees. Every text it gets is filled, but for the one of a chart
  that cannot be built (`UnreadableChart`, see Findings).
- A shutdown does not take the connection from under a request, because nothing is let
  in after it begins and the lifespan ends after the last request.
- Beside the engines that a broken check left behind and those whose `connect()` lost
  its caller, the CLI never has more than one. With such an orphan it may have two, and
  the one that is cached last replaces the other, which nothing disposes:
  `ClosedAtExit` bounds the engines left at the end by the orphans. Repositories and
  services may then reach either, but always one that is open, and no service is called
  over anything else. As long as no orphan connects, all that is cached is on the one
  cached connection.
- `LoginsGenuine` says what `is_active` guarantees: not that the user is active when
  the login succeeds (it is read before the password is verified) but that it was
  at some time during the call.

Every property has been seen to fail when a plausible mistake is made in the code it
is about (a dropped constraint, a missed release, a comparison off by one); the
mistakes are the faulty variants, listed in `PROJECT.json` under "mutants".

## Findings

| Run | Documentation | What happens |
|---|---|---|
| `stale_name_key` | "a rename can never leave the lookup key stale" (`account/repository.py`) | two concurrent renames leave the name of one and the key of the other: the flush omits a column whose value did not change since the row was loaded |
| `rename_delete` | an account with postings is not deleted (`account/service.py`) | postings keep the name they were recorded under; after a rename the check finds none. No concurrency is needed |
| `unreadable_entry` | only `AppError` and `ValidationAppError` leave a service (`core/CONTEXT.md`) | 0.01 = 0.005 + 0.005 is accepted, stored as 0.01 and 0.01 + 0.01, and every later listing raises `pydantic.ValidationError` |

Smaller disagreements met while modelling, which no run is spent on:

- An amount below half a cent is stored as zero, violates a CHECK, and takes the
  conflict path that `journal/repository.py` expects "to be unreachable". The conflict
  has code `UNKNOWN_ERROR`: `DUPLICATE_JOURNAL_NUMBER` is never raised.
- `handlers.py` says that every error leaves in the standard envelope with a log line.
  No handler is registered for `HTTPException`: an unknown path or method gets
  FastAPI's own body and no failure line.
- One unreadable entry turns the API's listing of all entries into a 422 that blames
  the request ("request.invalid").
- The chart's validators raise pydantic errors of types of their own. One that passes
  `create_journal_entry` untranslated (two accounts of one canonical name, which
  `stale_name_key` leads to) reaches the API's pydantic handler, which sends the
  catalog's text as it is: "An account named '{value}' already exists." (`handlers.py`,
  `catalog.py`).
- `context.py` says of the connection that calls "reuse the same connection until the
  context is closed". `_get_connection` awaits between its check and its assignment: a
  command that follows one interrupted in `connect()` makes a second connection.
  Whichever is ready last is cached over the other, whose engine stays open.
- `main.py` and `context.py` promise cleanup whatever happens; besides the engine just
  mentioned, a handler interrupted while it connects may cache its connection after
  `aclose()`. The documented `async with build_context()` is used by no entry point.
- `dispatch()` documents the errors it renders and lets the rest pass. Ctrl-C in a
  command ends the command only, but the end of input at a prompt inside a command ends
  the shell, as does `posting get-by-account "[/x]"`, whose title rich cannot print.
- Exit status 2 does not say that nothing was called: `account update X --category bad`
  fetches the account first and refuses the category afterwards.
- `connect()` disposes its engine on `OperationalError` only; a refused connection
  reaches it from asyncpg as an `OSError`.
- `hint.py` and `errors.py` require an entry for every member of `ErrorCode`;
  `REQUEST_VALIDATION_ERROR` has none. `loop.py` says that `quit` ends the loop like
  `exit`; it is a word like any other to the shell, and an unknown command.
- Accounts may have names of 150 characters, journal lines and postings name them by
  100: a longer name cannot be used. A name with a slash cannot be a path segment of
  `GET /postings/by-account/...`.
- `account update` without options writes back the values its prompts were filled with,
  and `account delete` shows the name it fetched and deletes by code: both are as old as
  the user's answer.

## Fairness

The bookkeeping model assumes none: all its properties are safety properties, and a
call that never goes on stands for a crashed process.

`FairSpec` of `Authentication` is for `login_liveness`:

- weak fairness of each call's own steps (`GoesOn`): the event loop runs every
  ready task, and a statement ends, at worst by its timeout;
- strong fairness of taking a permit (`GetsSlot`): `asyncio.Semaphore` wakes its
  waiters in order, so none is passed over for ever. Weak fairness would not do, as
  the permit comes and goes;
- weak fairness of `Tick`: time passes. A stamped call that keeps `Tick` waiting
  ends under the first condition.

`FairSpec` of `ApiServer`: weak fairness of each request's own steps and of the
lifespan's (the event loop runs what is ready, statements and sends return). Whether
the process is told to stop, and whether requests come, is left open.

`FairSpec` of `CliSession`: weak fairness of the main thread and of the orphaned
handlers (a `connect()` ends, at worst by its timeout, whether or not somebody waits for
it; a shell that ends waits for it). Steps that ask are among the main thread's, so
`CommandsEnd` supposes that a question is answered; what is typed at the prompt, and
Ctrl-C, are left open.

Nothing is assumed of clients, of the administrator or of the purge tool: nobody has
to call. In particular `ThrottleLifts` holds for a client that never stops trying.
The instance has one pair of client and address whose logins fail until a
registration succeeds; the rehash is left to `identity_race`, where no progress is
asserted.

## Proofs

TLC's runs are small; the theorems hold for every value of the constants that meets
the named assumptions: `StorageAssumption` and the other modules' assumptions on
inputs say that the seeded chart is well formed and that inputs have their declared
shapes; `IdentityAssumption`, `HasherAssumption`, `LoginAssumption` and
`RegistrationAssumption` the same for users, logins and bounds (`MaxDelay`, `Window`,
`MaxFailures` and `MaxConcurrency` are positive, callers are finitely many).
Users have passwords that registration would accept, neither blank nor over the limit;
`OthersUnaffected` needs it, as a login refuses such passwords unseen.
`ConnectionAssumption`, `ContextAssumption`, `SessionAssumption` and `ServerAssumption`
only say that `None` is no engine, exception, request or response, and that what a
caller supplies to the context is no engine of its own; `LinesAssumption` that typed
lines are sequences of words, `EnginesAssumption` that engine ids are finitely many (of
any number), as engines are counted. TLC evaluates each of them in every run of its module.

| Theorem | States | Argument |
|---|---|---|
| `BooksTypes!Typed` | `[]TypeOK` of `Books` | `TypeOK` alone is not inductive: a step assigns from a call's saved input, so `InputsOK` (a call in progress has its input, row and entry) is carried along |
| `LedgerProofs!NumbersFresh` | `[]DrawnNumbersFresh` | `NumbersInv`: the journal's numbers lie below the sequence, and drawn ones are distinct and unused |
| `LedgerProofs!Posted` | `[]PostedWholeAndOnce` | `LedgerInv` = `NumbersInv`, `StoredInv` (stored lines are fixed points of rounding), `ReadInv` (a call about to save holds the stored entry, which nothing changes any more) and the property |
| `LedgerProofs!Truthful` | `[]OutcomesTruthful` | from `LedgerInv` and what each step tells its caller |
| `LedgerProofs!Refines` | `Spec => Ledger!Spec` | every step maps to `Record`, `Post` or a stutter: the constraint makes a second `Post` impossible |
| `LedgerProofs!Balances` | `[]TrialBalanceBalances` | `BalancedInv`: a posted entry's postings, all in the table or none, have equal debits and credits at every cut-off date, as a batch is one row for each nonzero amount of a stored entry that balances. `PostedNumbers` splits the table by entry, `GroupedTotals` by account; that both give the same totals is what `Sums` proves of sums over finite sets |
| `ChartProofs!KeysUnique` | `[]ChartKeysUnique` | `ChartInv`: ids stay below the identity, and a row loaded before an UPDATE still has its code |
| `ChartProofs!AuditExplains` | `[]AuditExplainsChart` | `AuditInv` bounds creations by deletions, from both sides |
| `ChartProofs!KeysCurrent`, `OneCallersKeys` | `[]NameKeysCurrent`, given `[]UpdatesAlone`; for a single caller without it | `KeysInv`: a row and what an update has loaded of it agree on name and key for as long as no other update writes it, hence the columns that a flush leaves out are those that need no change |
| `ChartProofs!OmittedKeep`, `OneCallersFields` | `OmittedFieldsRetained`, given `[]RereadsAlone`; for a single caller without it | `RereadInv`: between its two reads of an account an update's first read stays current, so that what it fills in for an omitted field is what it then loads, and the flush leaves the column out, whatever has been written meanwhile |
| `ChartProofs!ErrorsTranslated`, `OneCallersErrors` | `[]OnlyAppErrors`, given `RoundingBalances` and `[]UpdatesAlone`; for a single caller given `SafelyRounded` | `ReadableInv`: every stored entry passes its validators again, as the constraints of the columns and the balance leave nothing else for them to refuse; the chart can be built because its keys are unique (`KeysUnique`) and current (`KeysCurrent`) |
| `AuthenticationProofs!Typed`, `SlotsNeverLost` | `[]TypeOK`, `[]SlotsAccounted` of `Authentication` | inductive only together: a release keeps `slots` in range because a call that ends a hash holds a permit |
| `ThrottleProofs!Throttled` | `[]ThrottleBound` | the number of failures alone is not inductive; with the attempts in flight added it is: a count admits an attempt only below the limit, a record moves one from "in flight" to "failed", a tick only removes |
| `ThrottleProofs!Forgetful` | `ForgetsOnlyItsOwn` | from the types alone, step by step: a purge keeps what counts because a clock reading is never ahead of the clock. The tool's purge is exempt when it is told to keep less than the window |
| `ThrottleProofs!Unaffected` | `[]OthersUnaffected` | `WrongInv`: every recorded row comes from a wrong attempt. A row is recorded several statements after the user was read, so it carries what each call has found of a seeded user, and that seeded users stand as they were but for the flags an administrator switches |
| `AuthenticationProofs!PasswordsNeverChange`, `LoginsAreGenuine`, `RegistrationsAreTruthful` | `PasswordsStand`, `LoginsGenuine`, `[]RegistrationsTruthful` | `KnownInv`: what a login read of the user (the secret, and having been active) stands across the steps of all others, because secrets never change, which in turn needs `KnownInv` for the rehash |
| `ApiServerProofs!ServerTypes`, `ServerCallsAreConnected`, `ServerClosesAtExit` | `[]TypeOK`, `[]CallsAreConnected`, `[]ClosedAtExit` of `ApiServer` | `IInv` = `Typed`, `Process` (what the process holds in each phase; outside serving and draining every slot is free) and `Story(r)` of each request. A request's step keeps the other stories and the process, so each action is checked for one request (`OneStory`) |
| `ApiServerProofs!ServerIdsMatch`, `ServerLogTellsWhatWasSent` | `[]IdsMatch`, `[]LogTellsWhatWasSent` | `Story` has, for each stage, the very lines and response a request has left; the properties count and compare them |
| `ApiServerProofs!ServerDetailsNameTheRule`, `ServerMessagesComplete` | `[]DetailsNameTheRule`, `[]MessagesComplete` | `Story` says that the response is `Handle` of the exception; the rest is about that operator: both translations name the same rule for each pydantic type (`NamesTheRule`), hence for violations of any number (`DetailsAgree`), and each builder's context covers its catalog texts (`ContextsSuffice`). `MessagesComplete` exempts `UnreadableChart`, whose text the code sends unfilled |
| `CliSessionProofs!SessionTypes`, `SessionHoldsOneEngine`, `SessionCachesAreCurrent`, `SessionCallsAreConnected`, `SessionClosesAtExit` | `[]TypeOK`, `[]OneEngine`, `[]NothingOutlivesItsConnection`, `[]CallsAreConnected`, `[]ClosedAtExit` of `CliSession` | `IInv` = `Typed`, `Held` and `Reported`; `Held` = `Checking` (who is connecting at which stage), `Cached` (what caches reach) and `Closing`. As long as no orphan has connected (`Settled`) all that is cached is on the one cached connection; once one has, caches reach open engines, and `Closing` pays for each open engine that is not cached with an orphan: `ClosedAtExit` follows by comparing cardinalities |
| `CliSessionProofs!SessionReportsOnce`, `SessionStatusTruthful`, `SessionSurvives` | `[]FailuresReportedOnce`, `[]ExitStatusTruthful`, `ShellSurvives` | `Reported` relates the exception that is passing to the command's first one and to what has been shown: until a boundary catches it they are equal and nothing is shown, afterwards it is `Exit("1")`; the status is that of the exception which passes, 130 only for Ctrl-C |
| `CliSessionProofs!SessionUnderstandsCompletions` | `[]CompletionsUnderstood` | no step of a command raises `NoSuchCommand` (`StepErrors`), so the line that did is still there; and a line that is completed word by word has three words at most (`CompletedWords`, `CompletedTargets`), each of which the command tree resolves, with and without the help shorthands (`CompletedResolves`) |

Three properties of the books hold under a condition, which the theorems name, and
the code violates them without it:

- `UpdatesAlone`: no two updates of one account have loaded it, neither having written
  yet. `stale_name_key` is the behaviour with two. A creation, a deletion or an update
  of another account may happen at any time.
- `RereadsAlone`: between the service's read of an account and the repository's, nobody
  creates or updates it. With two callers and without the condition the service fills
  an omitted field with a value that is out of date and the repository writes it back.
- `RoundingBalances`: an entry that balances as submitted balances as `NUMERIC(18, 2)`
  keeps it, which `unreadable_entry` shows to fail for fractions of a cent in an entry
  of three lines. `SafelyRoundedBalances` proves it where fractions of a cent are only
  in entries of two lines, whose one amount rounds to one amount.

The conditions are met by every behaviour of one caller, and by behaviours of several
in which these particular steps do not overlap. Before they were proved, the inductive
invariants were checked by TLC on the instances of `chart_race` and `books_race`, with
two callers and the condition as a CONSTRAINT: 1.1, 1.0 and 0.4 million distinct states
meet the three conditions and all satisfy the invariants. These checks are not among
the runs, as each would repeat a property of a run.

The prover has no induction over data: it cannot instantiate the library's induction
theorems, whose parameter is an operator. `Sums` does without. The least
element principle `WFMin` has sets as its parameters: if a law of `SumFunctionOnSet`
failed of some finite set, it would fail of a least one among its subsets, and there is
none (`SubsetInduction`, hence `SumSame`, `SumUnion`, `SumIndexed`, `SumGrouped`).
The sums of the trial balance are the only data proved about in this way.

Only model-checked: the five liveness properties (`EveryCallEnds`, `ThrottleLifts`,
`EveryRequestAnswered`, `StopsWhenAsked`, `CommandsEnd`). Liveness under fairness and
`ENABLED` are out of the prover's reach, as is what a recursive definition computes for
every input; no module a theorem depends on declares a RECURSIVE operator. Every
invariant and every action property that a passing run checks is stated by a theorem.

## Not modelled

- **Cancellation of a caller.** A cancelled caller frees its hashing slot while its
  worker thread runs on; the hasher's documentation says so, and `SlotsAccounted` is
  stated for callers that are not cancelled.
- **Reads that change nothing** (`get_account`, `list_accounts`, `get_by_id`, ...)
  unless a write depends on them.
- **`created_by` of journal rows, timestamps, event sinks, log records**: nothing the
  program reads back. `UNKNOWN_USER` cannot arise, users are never deleted.
- **Lock waits inside one commit**: two renames that wait for each other's index
  entry are aborted by PostgreSQL and appear as a storage failure.
- **The moving clock of `posting_date`**: an entry is validated again on each read
  against the local time, which daylight saving sets back.
- **Wording, layout and validation of single answers** in the applications; requests
  the server in front refuses by itself; clients that disconnect while they are
  answered.
- **The pairing of a route with the state of the books**: `ApiServer` and `CliSession`
  let a service raise anything it can raise, whatever was called before, which
  includes everything `Books` does.
- **Configuration and the setup of logging**: read once, no behaviour over time.

## Plan

Done: the bookkeeping core, its abstract specification and proofs; logins,
registrations, the throttle and the hasher with their proofs; the connection, the API
process and the CLI process with theirs. What is left, in order:

1. **`RefreshTokens`**: the contract of `RefreshTokenRepo` as an abstract
   specification (one winner among concurrent rotations, reuse detected, nothing
   stored otherwise), for the implementation to come.
2. **`JournalDates`**: the validators and the CHECK over a clock that moves, with the
   zones of process and database and a daylight-saving step.
3. **Retry bound**: `CONTEXT.md` of the authentication package calls the window "a true
   upper bound" of the wait of a throttled client; an attempt in flight at the refusal
   can record a failure later and prolong it. To be stated over the moment of refusal
   and checked.
4. **Pure rules** (`Money`, names, account codes) against reference definitions over
   bounded inputs.
5. **Proofs**: how far from the submitted amount a stored one can be; under which
   condition a posted account is kept (`PostedAccountsKept` fails by a rename, and by a
   posting that commits while a deletion is past its check); and an abstract
   specification of an identity store that `Authentication` implements.

Where a new run answers the question of an old one, the old one goes.
