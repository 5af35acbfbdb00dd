# A TLA+ model of ShiftMate

ShiftMate is a React single-page application, a FastAPI backend and a PostgreSQL
database with forced row level security. Shifts are entered by hand or imported
from a picture that Gemini reads; they are priced by dated pay rates, mirrored
to Google Calendar and discussed with an assistant that cites uploaded policy
documents. The backend runs as one Cloud Run instance; a read-only MCP server
shares its services, and Cloud Scheduler calls one maintenance endpoint a day.

The modules here model the parts in which requests, failures and the database
interact, check them with TLC and prove the main results with TLAPS.

## Inventory

| Component | State it keeps | Operations | Interacts with | What makes it correct |
| --- | --- | --- | --- | --- |
| Calendar mirror (`services/calendar.py`, `repositories/calendar.py`, `integrations/google_calendar.py`) | `calendar_connections`, `calendar_sync_records`, events at Google | sync, connect callback; shift create, update, delete | shifts (tombstones, `ON DELETE SET NULL`), Google | records say what Google holds, and move forward only |
| Threads, event loop, pool (`core/database.py`, the `async def` routes) | two pooled connections, row locks, what the loop waits in | enter, handle and leave a request | every request | nothing leaks; every request is answered |
| Shift import (`services/imports.py`, `repositories/imports.py`) | `shift_imports`, `shift_import_items` | upload, extract, review, commit | Gemini, shifts, maintenance | no shift without confirmation, none twice, no import stuck |
| Pay rates (`services/pay_rates.py`, `repositories/pay_rates.py`) | `pay_rates`, the owner's advisory lock | create, update, delete | shifts (work dates), analytics | one rate a date; no shift loses its rate |
| Policy documents (`services/policies.py`, `repositories/policies.py`, `services/retrieval.py`) | `policy_documents`, `policy_chunks` | upload and index, delete, search and answer | Gemini, maintenance, assistant | only whole, ready documents are searched and cited |
| Daily maintenance (`services/maintenance.py`, `api/v1/internal.py`) | `scheduled_job_runs` | claim, work, record failure | imports, documents, quotas | one worker a date, retries harmless |
| Quotas (`core/quotas.py`, migration 0006) | `owner_daily_quotas`, `app_daily_quotas` | consume | uploads, every Gemini call, maintenance | never above the limit |
| Shifts (`services/shifts.py`, `repositories/shifts.py`) | `shifts` | create, partial update, delete | all of the above | only valid rows; a partial update changes what it sent |
| Domain and analytics (`domain/*.py`, `services/analytics.py`) | none | pay and hours of a range | shifts, pay rates | agrees with the definition on what it read |
| Chunking (`services/policy_text.py`) | none | split pages | policy documents | terminates, covers the text, leaves short clauses whole |
| Assistant (`services/assistant.py`) | none; a graph of steps per question | route, collect, validate, compose | analytics, retrieval, Gemini, quotas, the pool | no answer without evidence, no violation that is none |
| Rate limiter (`core/http_security.py`) | queues of times by peer | allow | every request | limit in every window; who waits as told gets through |
| OAuth state (`services/calendar_security.py`) | an encrypted cookie | issue, verify, exchange, store | callback | tokens of the owner who consented, in time |
| MCP server (`mcp/`) | none | six read-only tools | services, Gemini quota | the audit log says success of no call that failed |
| Frontend (`frontend/src`) | session, current range, current import | sign in and out, load a range, change a shift | API, Supabase | an older answer never replaces a newer one |
| Export, validation of uploads, authentication, settings, evaluations, infrastructure, demo | none that is shared | | | |

The behaviour that is hard here comes from a few facts. `user_connection` wraps
a whole request in one `engine.begin()`: what a request writes becomes visible
when it ends, and disappears if its handler raises. Transactions are READ
COMMITTED, so that each statement sees what others committed meanwhile. Calls to
Google and Gemini are made in the middle of requests, with a transaction open
(sync, questions) or between two (uploads). And an `async def` handler runs on
the event loop, where its database calls block every other request. The browser adds
one more: events of the session, answers and changes of the view come in any order.
`PROJECT.json` lists the hazards that follow, with the line where each bites and the properties
that would notice.

## Modules

| Module | Models | Run from |
| --- | --- | --- |
| `CalendarSync` | one owner's mirror: shifts, records, Google, sync requests | `MCCalendarSync` (symmetry), `CalendarFaults.cfg` |
| `OAuth` | the flow that connects a calendar: state, cookie, callback | composed in `HttpEdge` |
| `RateLimiter` | the sliding window of `FixedWindowRateLimiter` | composed in `HttpEdge` |
| `Clock` | the clock those two share | |
| `HttpEdge` | the HTTP guard in front of the routes: limiter and flow together | `MCHttpEdge` (symmetry), `HttpEdge.cfg` |
| `EventLoop` | the process: threads, loop, pool, row locks | `MCEventLoop` (a second initial predicate) |
| `ShiftImport` | one import, from upload to purge | `Imports.cfg` |
| `PayRates` | one owner's rates and the dates of the shifts | `PayRates.cfg` |
| `Schedule` | the rules of `domain/`: valid shifts, dates, pay, facts | through `Shifts` |
| `Shifts` | one owner's shifts under POST, PATCH, DELETE and summaries | `MCShifts` (bodies, rates, ranges, symmetry) |
| `Documents` | what a library of documents promises (abstract) | as a property of `Policies`, and inside `Assistant` |
| `Policies` | one owner's documents, chunks and questions | `Policies.cfg` |
| `Chunking` | `chunk_policy_pages`, pass by pass | `MCChunking` (all short documents) |
| `Assistant` | the question graph, the MCP tools, pool and quota | `Assistant.cfg` |
| `Maintenance` | claims of the job, quota counters, the calendar of days | `Maintenance.cfg` |
| `Frontend` | session, workspace, loads and changes in the browser | `MCFrontend` |
| `CalendarSyncProofs`, `EventLoopProofs`, `MaintenanceProofs`, `AssistantProofs` | invariants and theorems of the module each is named after | |
| `ScheduleProofs` | those of `Shifts`, and what `Schedule` computes | |
| `RecordsProofs` | those of `ShiftImport` and of `PayRates` | |
| `PoliciesProofs` | those of `Policies` and of `Chunking` | |
| `EdgeProofs` | those of `HttpEdge` with its two parts, and of `Frontend` | |

Three modules are compositions. `HttpEdge` puts `RateLimiter` before the routes of
`OAuth`, on one clock. `Assistant` extends `Documents`, so that documents come and go
between any two steps of a question; `Policies` is proved to implement the same
`Documents`, which is why the assistant need not know of uploads and chunks. `Shifts`
computes its summaries with `Schedule`.

All modules are of one owner, except `EventLoop`, `HttpEdge` and the counters of
`Maintenance`: every table is keyed by owner and guarded by forced row level
security, and no statement of a request reads another owner's rows. Definitions
called "What if ..." are not part of a specification. They are the plausible bugs
that show, one for each property, that the property would notice.

### CalendarSync

The state is the content number of each shift (`version`, `gone`), the delete
transactions between their two statements (`deleting`, `marked`), the connection
and Google's view of the grant, Google's event for each shift, the committed
records, and for each sync its phase, the rows it has listed and not processed
(`todo`), the answer it has received and not marked (`reply`), and its
uncommitted writes (`wrote`, `draft`). `listed` is auxiliary: all the rows a sync has
listed, for the property that it settles them. `SyncBegin` is `get_connection(for_update=True)`;
`RefreshOk` is the token refresh with `ensure_sync_records` and
`list_sync_records`; `PushOk`, `PushRejected`, `PushLost` and `PushRevoked` are
the provider call of one record, `MarkReply` what follows its answer,
`SyncCommit` the end of the transaction and `Rollback` its exception.
`DeleteMark` and `DeleteCommit` are the two statements of `delete_shift`.

What is abstracted: the event id is a function of owner and shift
(`stable_event_id`), so records and events are indexed by shift and a boolean
says whether the id is stored; the body of an event is the content number; error
codes of failed records are left out. `PushRejected` stands for every answer
after which Google has not changed, a 410 for an event that is already gone
included (`delete_event` takes only a 404 for success). `PushLost` is a timeout: Google has
applied the call or never will. That a call is not applied after the client has given up
on it (`google_oauth_timeout_seconds`) is assumed of Google; one applied later still could
put an old body over the next sync's newer one, and nothing in the code could notice. The maintenance marks
records that stay `pending` for a day as failed; a sync lists every record that
it inserts and commits none of them unmarked, so no committed record is pending
and the statement finds nothing.

### EventLoop

A request moves through points: entering (the dependency's `engine.begin()` in a
worker thread), its handler, an await of the provider, waiting for a row, a record
or the pool, returned, leaving (commit in a worker thread). `loop` is the set of
requests in whose blocking call the loop sits; steps of the loop need it empty.
One sync record stands for those of the list. A request can be refused before it has a
connection (`Refused`: limiter, token, a callback's cookie or state), or fail to get one;
a delete or a sync can raise in its handler (`DeleteRaises`, `SyncRefused`, the second
branch of `Locked` for a connection that is not active, `ProviderRaises` for a refresh that
Google refuses) and then leaves through the dependency with whatever it held; a callback
whose code is not exchanged is done. Kinds and owners of the requests are
chosen in the initial state and never change.

### ShiftImport

`status`, `item` and `made` are the rows of one import and the shifts they became.
`CreateDraft`, `SaveExtraction`, `SetFailed`, `SaveRefused`, `ExtractionEscapes`
and `ProcessEnds` are the ends an upload can come to. Edits and commits have a
read and a write step, because the handlers read first and lock later. `Expire` and
`Purge` are the maintenance, which may find any import old enough. Fields of an
item are abstracted to whether they form a valid shift.

### PayRates

A request takes the advisory lock (`Lock`), and its checks are steps of their own:
`CheckOverlap` (`has_overlap`), `CheckShifts` (`has_shifts`,
`has_shifts_outside_period`), then `Write` with the commit. `SetWorkDate` is any
write of a shift, which takes no lock. Dates are integers, an open end is 0 and
amounts are left out.

### Policies

An upload inserts (`Insert`) or meets a document of the same file
(`InsertConflict`, then `Duplicate` or `DuplicateVanished`: two statements), indexes
without a transaction, and ends in `MarkReady`, `MarkReadyRefused` (the foreign key
of a deleted document), `MarkFailed` or `IndexingEscapes` (an exception that
`create_policy` does not catch, or the end of the process). `Retrieve` and `Answer`
are a question; `Stale` is the maintenance. Chunks are those of a document or
none, as one transaction writes them; similarity is the choice of the documents a
search finds.

### Maintenance

`Claim`, `Perform`, `PerformRaises`, `RecordFailure` and `CutOff` are an invocation;
`HourPasses` makes its claim old enough to be taken over. `Begin` and `Consume` are
a quota statement, whose `CURRENT_DATE` is that of the beginning of its
transaction. `Perform` includes the deletion of old counters; what it does to
imports and documents is in their modules.

### Documents

`Store`, `Publish`, `GiveUp` and `Remove` are all that ever happens to a document, and
`Cite` is what a question may take as evidence. `Policies` maps `index` to the ready
documents that have chunks; its draft, its duplicates and a completion that comes
after the document was given up or deleted are stutters or the steps named.

### Schedule and Shifts

`FactsOf` adds up shift by shift as `calculate_schedule_summary` does, `Reference` is
the same facts defined by sets: a total is a number of pairs (a shift and one of its slots, or of
its cents), the pay is the amount nearest to the exact one, a week is an interval of dates, a
run one that is part of the dates. `Shifts` gives a writer its transaction: what it has
written and not committed (`request`), with its row locked. `ReadShift` is the
`get_shift` of a PATCH, which takes no lock; `UpdateShift` merges with what it read and
validates (`Merged`, `ValidTimes`), then waits for the row, and finds it gone, changed
or as it was; `alone` says the latter. `ReadShifts` and `Summarise` are the two
statements of a summary, `ChangeRates` what `PayRates` may commit in between. Time is
counted in slots and dates by a function, which stands for any time zone.

### Chunking

A page is the sequence of its characters' kinds, since the split looks for newlines,
ideographic stops and dots before a space. `CutChunk` is a pass that goes on, `CutLast`
the one that reaches the end of the page, `SkipPage` an empty page. A chunk is the range
of offsets it was cut from.

### Assistant

`at` is the node of the graph that a question has reached, from `enter` (a pooled
connection) over `route`, `classify`, `facts`, `embed`, `retrieve`, `validate` and
`generate` to `leave`. Three nodes call Gemini, and each call is two steps: `Pay`, a
transaction over an unpooled connection, then the call itself (`Classified`, `Embedded`,
`Generated` or `CallFails`). The kinds are the REST endpoint and the tools of the MCP
server: the one with the graph, the search, and one for those without Gemini. A question
is abstracted to its topic, evidence to the documents found and the limits stated in the
chunks found, facts to whether days were worked, the longest run in the range, and the
longest run of all, which only the property reads.

### OAuth, RateLimiter and HttpEdge

`Connect` sets the one cookie of the browser; `CallbackBegins` and `CallbackRefused` are
the verification, `Exchange` and `ExchangeFails` the code at Google, `Save` and
`SaveRefused` the row, `Redirect` the answer that deletes the cookie, whichever flow is in
it. `Allow` is `allow` with the removal of old events and the rebuilding of the
dictionary, `Refuse` its refusal with the seconds it tells. `Guarded` says that a route
is reached only when the peer is allowed.

### Frontend

`channel` holds the messages on their way to `useAuthSession` (auth events, answers to
the buttons), `initial` the answer to `getSession`. `Become` is what a new session does to
the tree: another user's or another token's client, a workspace that appears or goes.
`submitting` is the button that was pressed, whose answer comes whoever is signed in by
then. `loads` are the requests of `RangeData` that are not aborted, `change` a request of a
manager; `own` is the change its answer tells of, committed already or not. The server is a count of changes; shifts and summary of a load are read at times
of their own. Two things are assumed of the platform: Supabase delivers events and the
answers of one client in the order they happen, and React has rendered before the next
event is handled.

`early` says that the server commits before it answers, and `OwnChangeShown` claims nothing
of a server that does not. FastAPI 0.116 and 0.117 leave the dependency, and so commit,
before the answer is sent; from 0.118 on it is left after. `pyproject.toml:13`
(`fastapi>=0.116,<1`) admits both, so the property is one of images that were built with the
former; with the latter, the reload after a change may read the data of before.

## Runs

| Run | Bounds | Shows |
| --- | --- | --- |
| `CalendarFaults` | 2 shifts, 2 contents, 2 syncs, lost answers, revocation, crashes; 1.4 million states | records say what Google holds (`MirrorAgrees`); ids are kept and contents move forward (`MirrorMovesForward`); a sync settles all it has listed, failures among it or not (`SyncsSettle`) |
| `PayRates` | 2 rates, 2 requests, 1 shift, 2 days; 254 thousand states | one rate a date, settled shifts stay priced, requests end |
| `Imports` | 2 items, 2 edits, 2 commits; 17 thousand states | one shift per item, confirmed truth, final ends, extraction ends |
| `Loop` | 3 requests of any kind and owner, 2 connections; 273 thousand states | nothing leaks, however a request is refused or raises; requests of different owners end |
| `LoopTwoSyncs` | 2 syncs of one owner | **violated**: the loop waits for the row that it would have to free |
| `Policies` | 3 documents, 2 files, 3 uploads, 1 question; 111 thousand states | indexes are whole, the abstract `Documents` is implemented, indexing ends |
| `Maintenance` | 3 days, 2 logical dates, 2 invocations, limit 1; 624 thousand states | one worker a date, a truthful status, the cap |
| `Assistant` | 2 questions, 2 connections, cap 3, 2 days, limits 1 and 2, 1 document; 303 thousand states | grounded answers, real violations, paid calls, a true audit log, questions end |
| `Shifts` | 2 rows, 2 writers, 1 reader, 6 instants, 3 creates, 2 patches, 2 rates, 2 ranges; 3.2 million states, 822 thousand up to the names of rows and writers | valid rows, true summaries, patches that change what they sent |
| `Chunking` | every clean page of up to 7 characters and pair of pages of up to 3, 4 pairs of sizes; 354 thousand states | no text lost, short clauses whole, the loop ends |
| `HttpEdge` | 2 peers, limit 2 in 5 ticks, 2 ticks a second, rebuilding above 1 key, 2 owners, 2 flows, 2 callbacks; 3.1 million states | the window, Retry-After, connections of those who consented, flows that are over |
| `Frontend` | 2 users, a token each, 2 ranges, 3 messages on their way, 1 change; 6.7 million states | the session settles, the view is current, one's own change is shown |

Why the bounds suffice: each is the smallest in which the conflicts of the
component exist, and one more where an actor could be both victim and culprit. Two
syncs and two contents make the stale push possible, and TLC finds it at once
without the row lock; two rates and two requests make the overlap; an import
needs two commits and two edits for every pair of them to race; three uploads of
two files let a duplicate meet a document that is deleted and uploaded again; three
days are the distance of the clean-up from the day of the oldest open
statement, and with one day less of margin `CapHolds` fails. Two questions fill the pool
of two and use up a cap of three, so that paying over the pool would stop both. Two
patches that touch different ends of a shift make the invalid merge, and a day of two
slots puts midnight inside a shift. Pages of seven characters have three chunks of four
with every overlap and every split. Two flows share one cookie, and a window of five
ticks with two to the second is not a whole number of seconds. Three messages on their way
are a sign-out and a sign-in of another user that an answer to `getSession` overtakes. The
theorems below have no bounds.

`CHECK_DEADLOCK FALSE` stands where what a configuration gives is used up in the end:
the requests of `Loop` and `LoopTwoSyncs`, the import of `Imports`, the uploads of
`Policies`, the questions of `Assistant`, the pages of `Chunking`, the time of
`HttpEdge`.

### What the violation says

The blocking `SELECT ... FOR UPDATE` of the second sync holds the
event loop; the first sync, which holds the row, awaits Google on that loop. No
statement or lock timeout is configured, so all requests wait until the instance is
replaced. The same happens when a sync meets the record lock of a delete whose
request has not been left.

### Seen with TLC, not stated as properties

Behaviours of the models that the code has and that a reader should know of. The first
four disagree with a document or with the intention of the code; the others nothing in the
repository denies.

* `CalendarService.sync` marks a revoked connection and raises; the exception leaves
  `user_connection` and rolls the mark back. The unit test sees the mark because its
  repository has no transaction.
* The event id is stored only by `mark_sync_success`. After a create whose answer was
  lost, deleting the shift leaves a tombstone without an id; the next sync marks it
  deleted without a call, and the event stays, though ADR 0004 says that the tombstone
  keeps the id and can retry. While the shift lives a new sync does repair this, because
  the id is derived and the upsert idempotent.
* Only `GeminiExtractionError` becomes `failed`; the error of the shared quota, a
  transport error, or a completion that the database refuses leaves the import
  `extracting` until the maintenance expires it days later.
* The in-use check of a rate is made under a lock that writers of shifts do not take:
  a shift that is stored between the check and the commit loses its rate.
  `SettledShiftsStayPriced` speaks of the other shifts.
* A commit may find that its items have been edited and commit an import without any
  shift; one that meets the expiry answers `committed` for an import that stays expired.
* A maintenance run that was taken over after an hour may overwrite the success of its
  successor with `failed`, so that the next invocation repeats the (idempotent) work.
* An upload of a file whose document failed, or is stuck in indexing, is answered as a
  duplicate and indexes nothing; if the document it met is deleted before it can be read, the
  upload is answered 500.
* Of two PATCHes of one shift that overlap, the later writes back what it had read of the
  fields it did not send, and the earlier one is lost. The result is a valid shift
  only because the merge is validated against the row that was read and written whole.
* A summary may combine shifts of before a change of rates with rates of after it; it
  states which shifts and rates it read, no more.
* A key of the rate limiter is removed only if its queue is empty, and a queue is emptied
  only by a request of its own peer, which then appends to it: nothing is ever removed,
  and the size of 4096 bounds nothing. The run states the limit, not the memory.
* The redirect of a callback deletes the cookie of a newer flow, which then has to be
  begun again.
* An overlap of more than about half a chunk with splits near the middle cuts some short
  clauses in every chunk; the code accepts such sizes and does not use them (180 of 1200).
* `getSession` reads the session at once and the events of a change of user come later: an
  answer that overtakes a sign-out gives the page the new user's token while the workspace
  still shows the data of the user before, until the first load of the new one is answered.
  `ViewIsCurrent` speaks of a page without a load in progress.
* If `getSession` fails and no event follows, the page stays signed out although Supabase
  has a session. If FastAPI answers before the dependency commits, the reload
  after a change may show the data of before. An error of one load stays until the range
  changes.

## Fairness

* `EventLoop`: strong fairness of every request's steps: a coroutine whose await is
  answered is resumed, Google and the HTTP client have timeouts, PostgreSQL grants a row
  lock in the order of its queue, asyncio and the thread pool are first in, first out.
  Nothing is assumed of a blocked loop, and that is where `EveryRequestEnds` fails.
* `PayRates`: weak fairness of the steps under the lock, strong fairness of taking it.
* `ShiftImport` and `Policies`: weak fairness of the maintenance only, which Cloud
  Scheduler starts every day; uploads, edits and commits need not go on.
* `Assistant`: weak fairness of the steps of each question. The pool has a connection for
  questions at all times (a wait for it ends in a connection or in its timeout), and calls to
  Gemini have a timeout, which is an answer.
* `Chunking`: weak fairness of the loop.
* `CalendarSync`, `Maintenance`, `Shifts`, `HttpEdge` and `Frontend` assume none and claim no
  liveness. Of `Maintenance`: the scheduler retries for an hour at most, which is no
  longer than the age a claim must have to be taken over, so a claim that a crash has left
  need never be taken over.

## Proofs

All theorems hold for any values of the constants that the named assumptions of each
module admit: any sets of shifts, requests, rates, documents, bodies and so on; of the ids of shifts
they say that there are finitely many, which is true of UUIDs. Each
inductive invariant was checked by TLC before it was proved. Every safety and action
property of the runs is stated by a theorem; `TypeOK` of the modules is a theorem and, where a run does not need it for
another reason, no property of a run.

**`CalendarSyncProofs`** proves `MirrorAgrees` (`DeletedMeansGone`, `SyncedIsReal`,
`DraftMatchesGoogle`), `MirrorMovesForward` (`EventIdKept`, `EventNeverRegresses`) and
`SyncsSettle`.
None of them is inductive: a step of a sync acts on rows read long
before. The invariant `IInv` adds what makes this safe. `Alone`: the row lock admits one
sync. `Quiet`: only a sync with a token has work. `RecordInv` and `DraftInv`: committed
and uncommitted records agree with the shift and with Google; an unlinked or
pending-delete record belongs to a shift that is gone. `TodoInv` and `ReplyInv`: an item
that was listed and is not marked yet is still as listed, except that its shift may
have been deleted or edited; Google's content is not newer than the item; no two items
are of one shift; and an answer that is waiting still describes Google. Each action has
a lemma; the two theorems about steps use that an action leaves Google alone or applies
one listed item. For `SyncsSettle`, `ListedInv` says of an open sync that each row it listed is
still to be called, is answered and to be marked, or is settled in its draft, and that it has
written no other row than those.

**`ScheduleProofs`** has two parts.

* Of `Shifts` it proves `RowsAreShifts`, `PatchChangesWhatItSent` and
  `SummariesAreTrue`, with `SummariesAreDecided` on the way. `OneWriter`: a row has one
  writer. `Contents`: what is about to be written is a valid shift, of a
  PATCH the merge of its body with what it read, and what a PATCH that is alone has read is
  what is stored. `ReadersInv`: a reader keeps rows of its range and rates that do not overlap.
  `FactsInv`: those rows are finitely many valid shifts, and an answer is their `Reference`.
* Of `Schedule` it proves what `FactsInv` rests on, `FactsAreReference`: for rows the rules
  allow and rates of which one applies to each, `FactsOf` and `Reference` are the same facts.
  Each fold is shown to be the function `FactsAt`, or `RunAt`, of the rows or dates it has passed:
  both obey the same recursion, and two that do are the same (`SameOnSubsets`, by the least
  subset on which they would differ). `AddRow` is one turn of the loop over the rows: a total
  grows by an amount (`TallyAdd`), a dictionary at one key (`TalliesAdd`). `NextRun` is one turn of
  `_longest_consecutive_run`: after a date later than all others the longest run is the one before
  or the one that ends there. `PayIs` says that rounding half up in integers is the nearest amount,
  `InWeek` that a date's week is the interval of seven days it is in.

**`PoliciesProofs`** has two components.

* Of `Policies` it proves `IndexIsWhole` and `ImplementsDocuments`.
  The first with `TypeOK` is inductive as it stands: the
  statements of the code carry their own guards (the foreign key,
  `status = 'indexing'`), so no step relies on what an earlier one had read. The refinement
  takes each action to a step of `Documents` or a stutter; the two that need the invariant
  are a completion, which publishes only what is still being indexed, and the paths that
  give a document up.
* Of `Chunking` it proves `NothingLost`, `ClausesStayWhole`, that chunks lie in their pages
  and within the size, and that every pass finds an end and comes forward
  (`CuttingAdvances`). The lemmas say that a chunk ends after its start and the next begins
  no later than its end. For the clauses, `ClausesInv` speaks of the page the loop is still
  at: a clause that begins before the next start is in a chunk already. It rests on
  `EndIsFar`: with a modest overlap every chunk that is not the last of its page is at least as
  long as the overlap, so that a clause which begins before the next start, the overlap before
  this end, ends within this chunk.

**`RecordsProofs`** has two components.

* Of `ShiftImport` it proves `OneShiftPerItem`, `TruthWasConfirmed` and `EndsAreFinal`.
  `UploadFirst`, `OpenAfterReview` and `MadeByCommit` say in which states of the import an
  upload, a commit that has read it and a shift can exist at all; with them a second commit
  finds the import committed, whatever it had read.
* Of `PayRates` it proves `NeverAmbiguous` and `SettledShiftsStayPriced`. `LockInv` says
  that a request past the wait holds the only lock, `ClearInv` that the result of its
  `has_overlap` query still holds, `ApartInv` that rows do not overlap; two lemmas relate the
  SQL condition to shared dates. For the second, `ReadInv` says that a request under the lock
  has read the period as it is stored, since only the lock's holder writes rates,
  `CreatesInv` that an insert has no row yet, which no other insert has either, and `SparedInv`
  that the shifts which were there when the in-use query ran, and have not been moved since,
  do not need a date that the commit takes away.

**`EventLoopProofs`** proves `NothingLeaks` and `SyncsSerialized`: of the syncs of an owner,
one at a time has Google to call or has records that it has written and not committed.
`PoolHeld`, `RowHeld` and `RecordHeld` say where a request can be that holds something,
`RowExclusive` and `SyncsHold` that the row has one holder, which every sync at such work
is.

**`MaintenanceProofs`** proves `OneWorker`, `StatusIsTrue` and `CapHolds`. `OneClaim`: a
date without an overlong run has one run at most, which still owns the claim, and its work
was counted when it succeeded. `QuotaInv`: an open statement is of yesterday at the
earliest and a run of tomorrow at the latest, so that the clean-up keeps the counters of
every day that can still be consumed on.

**`AssistantProofs`** proves `AnswersAreGrounded`, `ViolationsAreReal`, `CallsWithinCap` and
`AuditTellsOutcome` with one invariant. `LibraryInv`: what a question cites was ready and can
only have been deleted since. `FactsHold`: the run of a question is no longer than the run of
all dates, by lemmas about the longest run of a set and of a part that a range cuts out of
it. `PaidToCall`: only questions at a node that calls Gemini have paid, so that a call turns
one paid unit into one made. `AuditedAtTheEnd`: nothing is written to the log before the
transaction has ended, and who is unauthorized gets no further than that, so that the line
cannot contradict the end. `QuestionsOnlyRead` closes the
composition: whatever the assistant does, its library behaves as `Documents`, which
`Policies` implements.

**`EdgeProofs`** has three components.

* Of `OAuth` it proves `ConnectionsAreConsented` and `AnsweredFlowsAreOver`. `FlowsBegan`: the
  cookie and every flow that is over name one that was begun, so that a new flow is none of
  those that are over. `CallbacksInTime`: what a callback verified when it came is still so when
  it comes back from Google, however late. `RowsConsented`: both tokens of a row are of flows of
  its owner that came back in time.
* Of `RateLimiter` it proves `WindowHolds` and `RetrySuffices`. `AllowedIsLive`: what a peer was
  allowed within the window is what `popleft` would leave of its queue, whether the dictionary
  was rebuilt or not. `RefusedUntilFirstLeaves`: as long as a refused peer is at its limit, its
  first event is over before Retry-After and one more second. Lemmas say what `After` leaves of a
  sequence, and that leaving twice is leaving once.
* Of `Frontend` it proves `SessionSettles`, `ViewIsCurrent` and `OwnChangeShown`.
  `SessionInv`: the last message on its way has the session that Supabase has (`LastIsTrue`);
  once none is, a page that has heard one has that session (`ThenAllIsHeard`); an answer to a button
  comes after its event (`AnswersFollowEvents`); a page that has heard nothing has not changed
  (`NothingHasChanged`). `ViewInv`: the page waits for one load at most, which is for the range
  and the token it has now and has read nothing before it was asked for (`LoadsAwaited`); the
  load after a change that the page was told of began with the change made (`ChangesTold`).

### What is only model-checked

* Liveness: `ENABLED` and fairness are outside the provers. For `CuttingEnds` the theorem
  `CuttingAdvances` gives all but the counting.
* What a recursive definition computes for every input needs an induction over data, which the
  provers do not have. Where an induction over numbers was enough, the proofs argue with a least
  or a greatest element (`LeastNatural`, `GreatestNatural`, `LastOfOffsets`).

## Not modelled

Row level security and token verification are assumptions; so is encryption. Formatting
(ICS, messages, prompts), the inspection of uploaded bytes, the extraction of text from
files, evaluations and deployment are left out: they keep no shared state. The arguments of the
MCP tools, logging and request ids change nothing that another request reads. The managers of
imports, policies, calendar and rates in the frontend keep a list of their own each and disable
their buttons while they wait; the range is reloaded by the manager of shifts and by the commit
of an import only, and the former is modelled. A change of a rate reloads the list of rates and
not the range (`Workspace.tsx:119` gives its manager no callback), so the summary on the page
stays that of before the change until something else reloads it. Of the numbers, `Decimal`
rounding is modelled for one rate on cents and whole slots of an hour. The assistant has one day, and only questions draw on its quota; midnight and
other consumers are in `Maintenance`. `PROJECT.json` has the status of each component.

## Plan

What would add most from here:

1. The abstract mirror ("each record and its event move together") that `CalendarSync`
   implements while no answer is lost, as a refinement.
2. The review of an import in the frontend against a backend that answers out of order
   over several tabs, and what is lost when the range is remounted under it.
3. `EventLoop` with questions and uploads, which hold pooled connections and threads; today
   the pool of `Assistant` stands for it.
