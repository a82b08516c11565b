# A verification project for the email ingestor library

The repository is a Node.js library with which a *producer* (one scheduled script per project)
reads mail from several Gmail accounts, hands each message to a handler, and reports how healthy
the run was. Its hard part is a promise about a single number: the history cursor kept per account
can only move forwards, and mail it passes is never seen again. This directory holds TLA+ modules
translated from the source, the TLC configurations that check them on small instances, and
theorems that TLAPS proves for every instance.

Everything is run inside this directory: `tlc -config <Run>.cfg <Module>` for a run,
`tlapm <Module>.tla` for the modules whose name ends in `Proofs`.

## 1. The system

| Component | Source | State it keeps | Operations | Modelled in |
|---|---|---|---|---|
| Poll loop | `src/poll.js` | the state file (per account: `lastHistoryId`, `processedIds`, `messageFailures`, `quarantinedIds`, `stalledRuns`, sent-mail timestamps), and per run `seenMessageIds`, the batch, the counters | `poll`, inner `noteRun`, `ringAdd`, `nextCursor`; `readState`, `writeState` | `PollCycle`; `PollTwin` for two runs at once; `SentMail` for sent mail |
| Cursor computation | `src/poll.js` `nextCursor` | none: a closure over the listing and the ring | one call per turn | `NextCursor` |
| Producer health | `src/producer-health.js` | none: counters in, a report out | status derivation, five checks, worst-of roll-up, two adapters, the analytics event | `ProducerHealth`, `HealthReport`, `PollHealth` |
| Gmail client | `src/gmail.js` | token and rotation state of one account; per call, the pages read so far | `fromTokenFile`, token refresh, `getHistory` (paging), `withRetry`, `forwardEmail`, other calls | `GmailClient`, `GmailHistory`, `HistoryListing`, `SentMail` |
| Read-only guard | `src/readonly-guard.js` | the wrapped client; the denial sink and whether it was warned of | proxy over the googleapis surface, copies of arguments, scope checks, denials, error codes | `GmailClient`; poll's own read-only rule in `PollCycle` and `SentMail` |
| Forward rules | `src/forward.js` | none | first match wins, declines | `SentMail` |
| Queue depth | `src/queue-depth.js` | a directory | one scan, three verdicts | `QueueDepth`, composed in `HealthReport` |
| OCR | `src/ocr.js` | none of its own: the caller's cost tracker and page position | a call for one window of a PDF or an image, its result, the document-date guard | `OcrDocument`, `DocumentDates` |
| Extraction-result contract | `src/contracts/` | none | what `ocrPartial` and the page fields mean | the properties of `OcrDocument` |
| Intake gate | `src/sluice-flag.js` | two environment variables | one resolution | not modelled: pure, read once |
| Logging, masking, model names, entry point, local transport | `src/log.js`, `src/mask.js`, `src/models.js`, `src/index.js`, `src/sluice-local-transport.js` | a log file | formatting, re-exports, one append | not modelled: no state a property could be about |

How they interact. A scheduler starts the producer; the producer calls `poll(config)`; `poll`
reads the state file, and for each account in turn asks the Gmail client for the history since the
cursor, screens and dedupes the messages, awaits the caller's handler for each, batches an
archive call, computes the next cursor and rewrites the state file. It returns counters; the
producer hands them to `reportProducerHealth` and `trackProducerRun`. Everything inside a run is
sequential, so the concurrency is between the run and the world: mail that arrives at any await, a
call that fails at any await, a process that dies between any two, and a history window that Gmail
forgets. A later run sees only what an earlier one left in the file, and nothing stops a scheduler
from starting it before the earlier one has ended. OCR calls, on the other hand, may well run side
by side, and a call through the Gmail client is sent long after it was vetted.

What makes the components correct:

- *poll loop*: no message is passed by the cursor without being handled, screened, retired or
  counted; nothing is handled twice although a parked window is listed again and again; one bad
  message or one dead account does not hold up the rest; a dry run leaves no trace; only received,
  handled mail leaves the inbox; no copy is skipped in silence for one that
  was never handled.
- *cursor computation*: at record granularity, never past a hole, never backwards, never parked
  without need.
- *history paging*: whatever arrives, fails or is retried between pages, the answer is what one look
  at the mailbox could have given: whole records without a hole, and `truncated` only, and always,
  when more was waiting.
- *producer health*: bad news is never outvoted or lost in a default; red is never reported on
  healthy behaviour; a state that is stuck for ever ends in reports that stay red.
- *sent mail*: a forwarded copy never starts a loop, and is made again only for a failure; an account
  is called silent when, and only when, it has been.
- *read-only client*: nothing but vetted reads under a proven token leaves it; a refusal is logged or
  its loss is warned of; a failed load is blamed on the right file.
- *OCR*: a document that counts as whole was shown whole; no page is paid for twice; the cost cap
  bounds what is spent; a birth date never becomes the date of a document.

## 2. The modules

`PollCycle` is the core. `NextCursor` opens up one operator of it. `GmailHistory` opens up one
call of it: `HistoryListing` states what the poll loop takes that call to be, and `HistoryWindow` holds
the operators `PollCycle` and `HistoryListing` share, so that what is shown of the call and what
the loop assumes of it are the same definition. `PollTwin` puts a second instance of `PollCycle`, a run of the same
producer on the same state file, beside the first. `ProducerHealth` holds the pure
functions of the health report, `HealthReport` puts a caller with arbitrary counters in front of
them, and `PollHealth` composes `PollCycle` and `ProducerHealth` into a producer. `SentMail` tells
the poll loop again for the mail an account sends itself, with the forwarder that makes such mail.
`GmailClient` is one client and its guard, `OcrDocument` the OCR calls with the date guard of
`DocumentDates` on every answer.
The `MC*` modules only give constants their small values. The `*Proofs` modules hold theorems.

```
HistoryWindow <--- HistoryListing <~~ GmailHistory <--- MCGmailHistory, GmailHistoryProofs
   ^                          (implements)
   |
PollCycle <--- PollCycleProofs <--- PollMailProofs          NextCursor <--- NextCursorProofs
   ^ ^ ^                                                         ^
   | | +--- MCPollCycle <--+--- MCPollTwin                       +--- MCNextCursor
   | +----- PollTwin <-----|--------+
   +------- PollHealth <---+--- MCPollHealth, PollMailProofs
ProducerHealth <--+
   ^
   +------- HealthReport (also extends QueueDepth) <--- MCHealthReport, HealthReportProofs

SentMail <--- MCSentMail, SentMailProofs
GmailClient <--- MCGmailClient, GmailClientProofs
DocumentDates <--- OcrDocument <--- MCOcrDocument, OcrDocumentProofs
```

Definitions whose comment begins with *Mutated* are not part of a model. Each is a plausible
mistake in the definition next to it, kept so that every property can be seen to fail on one.

### PollCycle

One action per await-delimited step of a run; which account it is on (`at`), where in its turn
(`pc`) and what the turn's local variables hold (`work`) are explicit.

| State | In the code |
|---|---|
| `disk`, `mem` | the state file and the object `readState` returned; they differ when a write fails |
| `mem[a].kept` | whether `processedIds` and `messageFailures` exist, so that the turn's `ring` and `failures` *are* the state's objects and outlive an exception (189-227) |
| `work` | `ids`, `truncated`, the capped batch, `ring`, `failures`, `toArchive`, whether the ring grew |
| `seen` | `seenMessageIds`, one per run |
| `stats` | the counters `poll` returns |
| `hist`, `profile`, `retained` | Gmail: the record each message was added in, the mailbox's current history id, and the oldest cursor Gmail still answers |
| `fate`, `calls`, `enrolled` | history variables: what became of a message, how often a live handler succeeded on it, which accounts have a first cursor on disk |

| Action | In the code |
|---|---|
| `StartRun` | `poll` up to the loop over the accounts; an unreadable file is an empty state |
| `Unreachable` | the account's first Gmail call throws |
| `Seed` | no cursor yet: start from now |
| `List`, `ListExpired`, `ResetExpired` | `getHistory`, its 404, and the restart from now with its own cursor read |
| `QuietTurn` | nothing listed, or nothing left after ring filter and cap |
| `FetchGone`, `HandlerGone`, `ScreenOut`, `SkipDuplicate`, `Handle`, `FetchThrows`, `HandlerThrows` | one message of the batch, one action per exit of the loop body, its ring, strike and counter updates included |
| `ArchiveBatch` | the one `batchModify` after the loop |
| `Commit` | cut the ring, the strikes; `nextCursor`; `noteRun`; `writeState` |
| `Return`, `Reject` | the last `writeState`, which is outside every `try` |
| `Deliver`, `Expire`, `Crash` | the mailbox, Gmail's retention, the process |

A listing is abstracted to what `getHistory` can return (`HistoryWindow!Listings`): all records up to the first one without an
id, or a prefix of whole records that is at least `MAX_HISTORY_IDS_PER_CALL` long, optionally with
one record listed twice (a page overlap). Messages are small numbers in mailbox order; what the
metadata shows of one is its `Kind` and its `MessageId`. Failing calls come out of `budget`.

### GmailHistory, HistoryListing, HistoryWindow

`GmailHistory` is one client calling `getHistory` again and again, page by page, while the mailbox
lives on.

| State | In the code |
|---|---|
| `hist`, `top`, `retained` | the mailbox, as in `PollCycle` |
| `start`, `answer` | `startHistoryId`, and what the call returned or threw |
| `ids`, `length`, `again` | the array `ids` as a set with its length, and the record it holds twice, if any |
| `last`, `pageToken`, `attempt` | `lastEnumeratedHistoryId`, `pageToken` (as the record it goes on after), the loop variable of `withRetry` |

| Action | In the code |
|---|---|
| `Call` | the locals of `getHistory` |
| `PageArrives` | a page is answered and read: the record loop up to the page's end or the first record without an id, then one of the three ways on, `break` with `truncated`, the end of the loop, or the next page |
| `TryAgain` | `withRetry` catches a retryable error and has tries left |
| `Throw` | the last try failed, or the error is not retryable; the pages read are discarded |
| `NotFound` | Gmail answers 404: `null` |
| `Deliver`, `Expire` | the mailbox and Gmail's retention |

A page holds one to `PageMax` records after the last one, and may begin with the record the page
before ended with: at most one record in a call is listed twice. `HistoryListing` has the same
mailbox, but one action `Answer` for the whole call, which looks at the mailbox as it is when the call
returns. `AnswersAsOneListing` is `HistoryListing`'s specification under `busy <- pc = "calling"`:
a page that does not end the call is a stutter, and the one that does must be an `Answer`.

### NextCursor

The truncated branch of `nextCursor` with its two loops, its early exits and its clamps, on
listings in any order, with records that are garbled (BigInt throws) or missing, and a set
`unlisted` of records past the cap that the code cannot see. `TakesAllItMay` is the equation
with which `PollCycle!Watermarks` stands in for it.

### ProducerHealth, QueueDepth, HealthReport, PollHealth

`ProducerHealth` translates the status derivation (split counters, coherence, fallback to the sum),
the checks and the roll-up, with the JavaScript of a count: a number, `undefined` (`Absent`), or
`NaN` (`Garbage`). `QueueDepth` is the look through the inbox of envelopes: `ReadDir` lists it, `Stat`
reads one entry's age or passes over one that is gone, `Judge` compares the oldest with the
thresholds; `NoInbox` is an inbox that is not configured or not readable; and `Consumed` and `Dropped`
are the processes that share the directory. Ages are hours at the instant the check took as now, so
an envelope written later has a negative one. `HealthReport` reports (queue first) and tracks an
arbitrary set of counters, in either order.
`PollHealth` adds to `PollCycle` the report of every run that returns; a run that rejects or
dies makes none.

### PollTwin

Two runs of one producer that overlap. The second is `PollCycle` again, by `INSTANCE`, with a state object,
locals and counters of its own (`twinMem`, `twinPc`, ...) and with the mailbox, the state file and the
history variables in common: every step of the code, every interleaving of two of them, and every way
each can fail. `TwinStarts` is its `readState`, while the first run is under way; `TwinStep` is a step of it
to its return, rejection or crash. A run that has not started reads the file as it will be by then
(`TwinRests`, `FirstRests`). Each run writes the whole of its own state object over the other's.

| History variable | Holds |
|---|---|
| `behind` | the runs since whose last read or write the other has written |
| `overwrites` | how often a run that was behind wrote |
| `contested` | the messages handled while two runs overlapped |

`RepeatsAreAccounted` says what is left of `HandledAtMostOnce` there: no more repeats of a message than
overlaps on it, overwrites, and failures.

### SentMail

One account past its first turns, over several days. A message is its position in the mailbox, so its
id and its record coincide; its sender is whoever is in `box[p].of`, and `box[p].gen` says how
often it has been forwarded.

| State | In the code |
|---|---|
| `day`, `readOnly`, `box` | the date, the client's mode, the mailbox |
| `disk`, `mem` | the account in the state file and in the run's state object: cursor, ring, strikes, `sentEnabledAt`, `lastSentIngestedAt` |
| `run` | `dryRun` and `invokeHandler` (as `mode`), `ingestSent`, the positions of the capped batch still to do, whether sent mail was ingested |
| `verdict` | whether `sentSilentAccounts` counted the account |
| `least`, `most` | history variables: since when at least, and at most, the option was on without sent mail |

| Action | In the code |
|---|---|
| `Start` | `poll` up to the listing, with the baseline set or forgotten (`Baseline`) |
| `List`, `ListFails` | the listing without ringed ids, cut to `maxPerRun`; or it throws |
| `Screen` | SENT mail that is automated, or whose account does not ingest it, is ringed |
| `Handle`, `HandlerThrows` | the caller's handler, with `checkAndForward` in it, when nothing is sent |
| `Forward` | `forwardEmail`: the copy is in the mailbox; its answer arrives, or is lost and the handler throws |
| `EndTurn` | the cursor read, the state object and the write of the turn, each of which may fail |
| `Finish`, `FinishThrows` | the silence check and the last write |
| `Crash`, `NextDay`, `Deliver` | the process, the date, new mail, received or written by the owner |

### GmailClient

| State | In the code |
|---|---|
| `client` | the account's `GmailClient`: its mode, and whose OAuth client it was built with |
| `token` | the scopes of the access token `google-auth-library` keeps |
| `call` | a call that passed the proxy and waits for its token; for a read-only client with the guard's own copy of the arguments, otherwise with the caller's objects |
| `sent` | what reached Gmail last |
| `sink`, `sinkWarned` | `denialSink` and the flag of its one warning |
| `unlogged`, `told` | history variables: a denial the sink did not take; a warning since it was registered |

| Action | In the code |
|---|---|
| `FromTokenFile` | a load from any contents of the token file and the shared client file; `Load` is the error code it throws with |
| `Deny`, `Invoke` | the proxy's verdict on a call |
| `Refreshed`, `RefreshRefused` | `refreshTokenNoCache`, with the scopes Google answers with |
| `Send` | the request, with the arguments as they are by then |
| `CallFails`, `TokenExpires`, `SinkFlips`, `SinkReplaced`, `Restart` | the network, time, the log, `setReadOnlyDenialSink`, the process |

Arguments are `safe` or `unsafe`: which keys and types are allowed is data.
A client without the read-only option passes everything through, and serves as the contrast.

### OcrDocument, DocumentDates

| State | In the code |
|---|---|
| `asked` | per document, the call whose answer is awaited: what its result will claim and which pages are in the buffer |
| `shown` | history variable: the pages an answered call has shown the model |
| `start`, `outcome` | the caller's position (`startPage`) and what it made of the results |
| `result` | the dates of the last result before and after the guard |
| `spent` | the caller's `costTracker` |

| Action | In the code |
|---|---|
| `CannotBeSent` | `image_too_large`, `split_unavailable` |
| `Ask` | the window (`Extracts`: the splitter's largest step that fits), the look at the cap, the request |
| `Answer` | the cost recorded, the answer parsed and guarded, `ocrPartial` decided, the caller's next position |
| `ApiError`, `NextDay` | the call throws; the tracker starts a new day |

The callers are not in this repository: that they continue behind the pages a partial result claims is
taken from the comments on `startPage` and `ocrPartial`. `DocumentDates` is the guard: a text is the
set of its dates with the label each scanner regular expression finds beside it.

## 3. The runs

| Run | Module | Properties | Shows |
|---|---|---|---|
| `NextCursor` | MCNextCursor | `NeverPassesUnhandled`, `NeverPassesUnlisted`, `TakesAllItMay` | the cursor computation on all small inputs |
| `HealthReport` | MCHealthReport | `NeverGreenOnBadNews`, `OutageIsDown`, `OnlyTheSumIsLaundered`, `WaitingMailIsReported`, `QueueFailIsEarned` | all small mixes of good, missing and garbled counters; all inboxes of three envelopes with ages at the thresholds, consumed and filled during the scan |
| `HealthVerdicts` | MCPollHealth | `TypeOK`, `DropsAreAuditable`, `ArchivedWasHandled`, `LossIsReported`, `CursorNeverRegresses`, `GreenMeansNothingMissed`, `DownIsEarned`, `DryRunLeavesNoTrace` | two accounts, one read-only, sharing a Message-ID, with sent mail, in all three modes, and any three failing calls, lost writes, crashes and expiries: mail lost by the cursor is covered by that run's counters, the cursor on disk never moves back, each dropped message is named in the file or its list is full of later drops, an archived message was handled, a dry run leaves no trace, and the report of a run says what that run missed, no more and no less |
| `HealthWedge` | MCPollHealth | `HandledAtMostOnce`, `StuckStaysDown`, `WedgesAreReported`, `StallMeansBacklog` | two messages that always fail while one strike is tracked, with mail arriving during the run, records listed twice and mistaken 404s: strikes lost to rotation wedge the cursor, the stall count and the reports say so, a stall is only counted when mail waits, and nothing is handled twice |
| `PollOverlap` | MCPollTwin | `RepeatsAreAccounted`, `HealthyAccountsDrain`, `TruncatedTurnLosesNothing`, `OverflowIsKept` | a dead account comes first, a message of the other one always fails, windows are truncated, mail arrives mid-run, a second run overlaps the first, both in single steps, and a call, a write, a process or the state file of either fails: the busy account drains all the same, every repeated handler call has its cause, and a truncated or overflowing turn of the first run steps over no mail that its own state object was not past |
| `SentMail` | MCSentMail | `ForwardsAreAccounted`, `SilenceIsEarned`, `SilenceIsReported` | forwarding and the silence check through lost answers, lost writes, crashes, and the option switched on and off |
| `GmailClient` | MCGmailClient | `OnlyReadsLeave`, `LostDenialsAreTold`, `BlameIsRight` | every content of the two files, every scope list, arguments changed after they were vetted, and a sink that comes and goes |
| `OcrDocument` | MCOcrDocument | `WholeMeansEveryPage`, `NoPagePaidTwice`, `OvershootIsBounded`, `DatesAreSound`, `CountedDocumentsSettle` | four documents at once under a daily cap: a batch read in three windows, a scan whose pages cannot be counted, a letter with two labelled dates, a poster too large to send |
| `GmailHistory` | MCGmailHistory | `NoHoles`, `AnswersAsOneListing`, `CallReturns` | `getHistory` page by page answers as one look at the mailbox, and returns |
| `RaceOnUntruncated` | MCPollCycle | `NowIsCorrect` (violated) | finding 1 |
| `UnattributedWedge` | MCPollCycle | `WedgesAreReported` (violated) | finding 2 |
| `OverlapOfFailing` | MCPollCycle | `TruncatedTurnLosesNothing` (violated) | finding 3 |

### Bounds

Three messages in one or two mailboxes, at most two to a record (`MaxRecord`), a batch of one to
three (`MaxPerRun`), an id cap of one or two (`IdCap`), retirement at the second or third strike,
two or three injected failures per behaviour (`MaxFaults`; one in `PollOverlap`), and a stall threshold of two. They are
chosen so that each regime of the code occurs within an instance: three messages against an id cap
of two give windows that are truncated and whole, and truncated behind a burst; a batch
below the window gives overflow; a record of two messages straddles the batch and the watermark;
`MaxTracked` below the number of failing messages rotates strikes out; three failures are enough
for a message to be retired while another call of the same turn fails. `RingMax` is larger than
the mailbox, so no run cuts the ring; `RingPreventsRepeats` (section 5) is about every ring, and says
how much room it needs (with a ring of two under a window of three, `HandledAtMostOnce`
fails; see the observations of section 4). The stall counter is cut at the threshold, beyond which
nothing in the code looks. The number of runs is unbounded, and the
properties hold over all of them. `PollOverlap` has one overlapping start (`MaxTwins`) and one failure, in
either run: one overlap is enough for each way the two can get into each other's way (both handle a
message, either writes over the other, the cursor on disk goes back and forth), and the failure may fall
into any of them; without any one of its three terms TLC finds the bound of
`RepeatsAreAccounted` exceeded on this instance.

`NextCursor` takes all assignments of three records, garbled and
missing included, to listings of up to three ids, one of them listed twice. `HealthReport` takes
every mix of the four outcome counts, with at most one of the five others away from zero, in front
of an inbox of each status, and a good run in front of every inbox of three envelopes with the real
age thresholds (6 and 24 hours) and a depth limit of two.
`GmailHistory` has six messages in records of at most two, pages of two records, and an id cap of
three, so that the cap falls inside a page, on its end, and on the last page of all; three tries stand for
the four of `withRetry`.

`SentMail` has two received messages that a rule matches and one the owner writes, four places in the
mailbox (two originals and both their copies, or a copy too many), three days against a window of one
(which stands for the 30 days of `SENT_SILENT_MS`: the code only compares the difference), a batch of one
and two failures: one to lose an answer, one to lose the write that recorded it.
A dry run is left to the theorem and to `HealthVerdicts`.
`GmailClient` needs no bound: two reads, two writes and the five kinds of scope list (none, exactly
read-only, read-only twice, read-only with another, another) are all there is to tell apart.
`OcrDocument` has pages for each window shape: steps of three and two stand for 20, 12, 8, 5, 3, page 4
only fits the smaller, the last window is clamped; a call may cost 2 against a cap of 3, so that the cap is
passed by calls under way together; the scan's chain is followed to `MaxStart`.

`HealthReport` and `NextCursor` end when their one call is done, `SentMail` when the days of the
model are over and a forward has no place left in its mailbox, and `OcrDocument` when
each document is settled: these four are run without the deadlock check. In all others a step can always be
taken.

### Fairness

`FairSpec` and `FairHSpec` assume weak fairness of the run's own steps as one action: the scheduler
starts a run again after each one, and a run in progress does its next step. This is what the
repository's cron wiring and a sequential `await` give. Nothing is assumed about mail or about
failures: failing calls are finite only because `budget` is, while `Poison` messages and `Broken`
accounts fail for ever. No fairness selects between a call's success and its failure.
`FairTwinSpec` assumes the same of the first run alone: the second may dawdle or die at any point, and still
the account drains.
`GmailHistory`'s `FairSpec` likewise assumes weak fairness of `Step`, the outcomes of one request
together: a request is answered or fails, and `CallReturns` holds although it may always fail.
`OcrDocument`'s assumes that a caller comes back for a document that is open, that a call returns, and that
a new day begins (the tracker is a daily one): `CountedDocumentsSettle` needs no more, although each answer
may be cut off.

## 4. Findings

1. **Mail that arrives during a run can be lost** (`RaceOnUntruncated`). The listing comes first and
   the cursor an untruncated turn moves to is read last. `src/poll.js:279` says of it
   "UNtruncated: the whole window was enumerated, so "now" is correct"; what arrived in
   between was not enumerated. No counter moves. This is why
   `HealthVerdicts`, which states that losses are reported, lets mail arrive only between runs.
2. **A wedge that is not counted** (`UnattributedWedge`). If the first record of the window has no
   id, `getHistory` returns an empty window with `truncated` set. `src/poll.js:358` argues that this
   cannot be; the turn is noted as caught up, the cursor does not move, and `stalledRuns` stays 0
   for ever.
3. **A failing message that is listed twice is lost** (`OverlapOfFailing`). Its first listing adds
   its Message-ID to `seenMessageIds` before the handler throws; its second is skipped as a
   duplicate, which rings it and forgets its strike; the watermark passes it.

Observations made while modelling, which no run is kept for:

- The same early `seenMessageIds.add` (`src/poll.js:438`) makes a copy in another account a
  duplicate of one whose handler threw: it is ringed, and if the first one is given up later, neither was
  handled. What the code does keep, by the theorem `DuplicatesHaveCauses`, is that such a run counts an error.
- `producerRunStats` forwards every count as it is but one: `errors: stats.errors || 0`
  (`src/producer-health.js:460`). Counters a caller built by hand, such as `{fetched: 0, errors: NaN}` without a
  split, make a report that is down and an event that says 0. `OnlyTheSumIsLaundered` says that this is
  the only count so lost; `poll()` itself always returns a number.
- Two overlapping runs move the cursor on disk back: the later write wins with an older one, and what was
  passed, lost mail included, may be listed again, or passed again by the next write of the other. No
  property claims that an overlap leaves `CursorNeverRegresses` or `LossIsReported` intact, and it does not.
- `messageFailures` keeps the last `MAX_TRACKED_FAILURES` entries. If one run sees at least twice as
  many failing messages (so `maxPerRun` of 100 or more), the surviving ones are always pushed out
  before they reach three strikes and nothing is retired. `HealthWedge` is this situation, and
  shows that it is at least reported.
- With `maxPerRun` 0 the whole window is deferred, the batch is empty, and the branch for an
  already ringed window (`src/poll.js:375`) moves the cursor to now.
- In the first turn after seeding, the ring is a local array and not yet the state's: a failing
  cursor read forgets it and the next run handles the same mail again. `HealthWedge` has no
  failing cursor reads for this reason.
- The ring is cut to its last `RING_MAX` ids, without a look at the cursor. A window can be a page
  longer than the 500 ids of its cap; while the cursor is parked before it, failing messages of the
  window that recover one after another are ringed behind the ones handled first, and mail behind the
  window follows. TLC shows on small rings that a window of more than about half the ring suffices for
  a message to be pushed out of it and handled again. With 1000 against 500 that takes a window that
  overshoots its cap, nearly all of it failing and recovering: remote, but no wider a margin than that.
- A 404 text thrown by the handler itself is taken for a deleted message (`src/poll.js:464`): the
  message is ringed, passed, and counted nowhere.
- A failing `batchModify` moves no counter, although `src/poll.js:90-93` counts it among the message
  errors; the messages are ringed, so no later run archives them.
- The clamp of `nextCursor` knows only the listed records, so `src/poll.js:341-345` overstates
  it: with records out of order an unlisted one may lie below the watermark. `NeverPassesUnlisted`
  is stated for ascending order.
- A split such as `{errors: 0, messageErrors: 1, accountErrors: 0}` is incoherent and falls back to
  the sum, which says `ok`; `src/producer-health.js:39-41` says it cannot.
- Any error whose text contains "404" (`src/gmail.js:485`), a request id for instance, is taken for an
  expired window. `GmailHistory` lets `NotFound` happen only for an expired cursor.
- An exception after the listing ends the turn without `noteRun`, although `src/poll.js:184-188` says
  it is called from every exit path.

- A turn whose `getCurrentHistoryId` always throws ends in the catch every time: it never counts as
  stalled, only as a message error.
- Two overlapping runs write the same `.tmp`: one may rename a file the other has not finished. A torn
  state file is an unreadable one, and every account starts over from now.
- `sentEnabledAt` is written behind the seeding branch: the silence window of a new account begins
  with its second run. `Switched off` is only seen by a live run; an account that is off during dry runs
  only keeps its baseline.
- `drafts.create` is retried like any call: after a lost answer there are two drafts.
- Without a registered denial sink a denial is only on the console; `LostDenialsAreTold` is
  about a sink that is registered and fails. Once it has failed and been warned of, later losses are
  silent until a sink is registered again: the warning is per registration, and so is the property.
- When `pdfinfo` cannot count a document's pages, each window is partial and the chain of calls only
  ends when `gs` fails behind the last page. Where `gs` writes an empty extract there, which is what
  `src/ocr.js:84-85` guards against only for counted documents, the chain does not end, and each call is paid
  for: `CountedDocumentsSettle` is about the others.
- A chain of windows ends with a result that is not partial although the model's answer to an earlier
  window was cut off: every page was shown (`WholeMeansEveryPage`), not every answer was complete.
- Calls that run side by side all look at the cap before any of them has recorded its cost:
  `OvershootIsBounded` says by how much the cap can be passed.

## 5. The proofs

| Theorem | Module | Statement |
|---|---|---|
| `PollTypeCorrect` | PollCycleProofs | `Spec => []TypeOK` |
| `CursorOnlyAdvances` | PollCycleProofs | `Spec => CursorNeverRegresses` |
| `DryRunIsInert` | PollMailProofs | `Spec => DryRunLeavesNoTrace` |
| `OnlyHandledMailLeaves` | PollMailProofs | `Spec => []ArchivedWasHandled` |
| `StallsAreEarned` | PollMailProofs | `Spec => StallMeansBacklog` |
| `DropsLeaveAName` | PollMailProofs | `Spec => []DropsAreAuditable` |
| `DuplicatesHaveCauses` | PollMailProofs | `"mistaken" \notin Faults => (Spec => DuplicatesAreExplained)` |
| `TruncatedTurnsPassNoPendingMail` | PollMailProofs | `Spec => PassesNoPending` |
| `TruncatedTurnsLoseNothing` | PollMailProofs | `HandlerSound => (Spec => TruncatedTurnLosesNothing)` |
| `OverflowWaits` | PollMailProofs | `HandlerSound /\ MaxPerRun > 0 => (Spec => OverflowIsKept)` |
| `LossesAreCounted` | PollMailProofs | `Calm => (Spec => LossIsReported)` |
| `NowIsCorrectWhenCalm` | PollMailProofs | `Calm => (Spec => NowIsCorrect)` |
| `GreenReportsAreTrue` | PollMailProofs | `Calm => (HSpec => GreenMeansNothingMissed)` |
| `RedReportsAreEarned` | PollMailProofs | `Sturdy => (HSpec => DownIsEarned)` |
| `RingPreventsRepeats` | PollMailProofs | `Remembers => (Spec /\ []RingHasRoom => []HandledAtMostOnce)` |
| `CursorIsSafe` | NextCursorProofs | `Spec => []NeverPassesUnhandled` |
| `CursorStaysInListing` | NextCursorProofs | `Spec => []NeverPassesUnlisted` |
| `CursorTakesAllItMay` | NextCursorProofs | `Spec => []TakesAllItMay` |
| `EnumerationHasNoHoles` | GmailHistoryProofs | `Spec => []NoHoles` |
| `PagingIsOneListing` | GmailHistoryProofs | `Spec => AnswersAsOneListing` |
| `NeverGreen` | HealthReportProofs | `Spec => []NeverGreenOnBadNews` |
| `OutageNeverOutvoted` | HealthReportProofs | `Spec => []OutageIsDown` |
| `WaitingMailShows` | HealthReportProofs | `Spec => []WaitingMailIsReported` |
| `QueueFailsForAReason` | HealthReportProofs | `Spec => []QueueFailIsEarned` |
| `EventLosesOnlyTheSum` | HealthReportProofs | `Spec => []OnlyTheSumIsLaundered` |
| `SilenceOnlyWhenEarned` | SentMailProofs | `Spec => SilenceIsEarned` |
| `SilenceIsTold` | SentMailProofs | `Spec => SilenceIsReported` |
| `ForwardsAreCounted` | SentMailProofs | `Spec => []ForwardsAreAccounted` |
| `ReadOnlyIsKept` | GmailClientProofs | `Spec => []OnlyReadsLeave` |
| `DenialsAreHeard` | GmailClientProofs | `Spec => []LostDenialsAreTold` |
| `BlameFallsRight` | GmailClientProofs | `Spec => BlameIsRight` |
| `WholeIsWhole` | OcrDocumentProofs | `Spec => []WholeMeansEveryPage` |
| `PagesArePaidOnce` | OcrDocumentProofs | `Spec => []NoPagePaidTwice` |
| `OvershootIsLimited` | OcrDocumentProofs | `Spec => []OvershootIsBounded` |
| `ResultDatesAreSound` | OcrDocumentProofs | `Spec => []DatesAreSound` |
| `ClaimsAreTrue` | OcrDocumentProofs | `Spec => []ClaimsWhatWasSent` |

They hold for every mailbox, every number of accounts, messages and failures, and every
bound, under the named assumptions of the modules that declare the constants (accounts are
distinct, a message has one owner, bounds are naturals, the tokens for missing values are not
numbers). Eight of the poll loop's theorems have a hypothesis besides, in front of the arrow. Each
one names situations in which the code does break the promise:

| Hypothesis | Rules out | Because |
|---|---|---|
| `HandlerSound` | a handler that throws on mail with a Message-ID, or whose error text holds a 404 | finding 3 and the two observations about `seenMessageIds` and the 404 text |
| `"mistaken" \notin Faults` | the 404 text alone | such an error rings the message and counts nothing, so a copy of it is a duplicate without a cause |
| `MaxPerRun > 0` | a cap of 0 | the whole window is deferred and then stepped over |
| `Calm` | with the two above: mail that arrives during a run, and an unreadable state file | finding 1; and an account that starts over from now counts no error |
| `Sturdy` | a dead account, a message that always fails, a cap of 0 | red is then earned by the setting, not by a failed call of this run |
| `Remembers` | a crash, a lost write, a failing profile call; and a page overlap where some mail has no Message-ID | each forgets what was handled: the state object of the run is dropped and the file is older, or the ring of an account's first batch is, which is not yet the state's; and two listings of one message in one batch are told apart by its Message-ID alone |
| `[]RingHasRoom` | a mailbox larger than the ring while more than half a ring of mail lies beyond a cursor | the ring is cut without a look at the cursor (section 4) |

Each part is needed: where it alone is dropped, TLC finds the property violated on an instance of
three messages. (The exception is `NowIsCorrect`: it needs the sound handler and the resting mailbox, but
was not seen to need the readable file or the cap; its proof shares the invariant of `LossesAreCounted`.)
The runs keep to the hypotheses: `HealthVerdicts` is `Calm` and `Sturdy`, `HealthWedge` `Remembers`, with a ring
larger than its mailbox, `PollOverlap` is `HandlerSound`, with a cap above 0. So each theorem says for
every instance of that kind what its run says of one.

- `PollTypeCorrect`. The invariant is inductive as it stands; its one conjunct that is not a type, that
  the loop is entered only with a message to take, is what makes `Head(todo)` safe in all seven message
  actions. Lemmas say that `Take`, `LastN`, `Strike`, `Forgive` and `RingAdd` return what they should.
- `CursorOnlyAdvances`. `CursorNeverRegresses` is about the file, but the file is overwritten by the
  object in memory, which is ahead of it after a failed write, with a cursor that was computed from a
  window listed many steps before. `CursorInv` therefore relates the three: every record and every
  cursor is at most its mailbox's history id (`ProfileAhead`), the cursor in memory is no older than the
  one in the file (`MemoryNoOlder`), and what the turn has listed lies beyond the cursor it was listed
  from (`WindowBeyond`). An unreadable file, after which the account starts over, is the exception that
  both the invariant and the property carry.
- `DryRunIsInert`. A dry run shares the steps of a live one up to the last condition of each. Between
  turns the turn's variables are empty, and only a live run collects messages to archive (`Resting`).
- `OnlyHandledMailLeaves`. `archived` grows by the batch collected during the loop, so that batch must
  be sound while the loop still runs (`ArchiveSound`), the batch is part of a window listed for this
  account (`BatchListed`), and a fate once settled stays settled (`FatesSettle`).
- `StallsAreEarned`. The stall counter looks at lengths and cursors, the property at mail. `StallSound`
  says what the code infers one from the other by: a turn that lists anything beyond the ring keeps a
  message the ring on entry did not hold, one without progress has added nothing, and an expired cursor
  lies below the mailbox's, so that its reset is a move.
- `DropsLeaveAName`. There are three rings and two lists of drops, and after a lost write they differ.
  `RingSound` compares each ring with the list of its own record: who is on it is settled, and if
  dropped, named (or the list is full of later drops). A name on one list says nothing of the other.
- `DuplicatesHaveCauses`. The handler may throw after its key was added, so a key in `seen` may be that of a
  message nobody handled; but then the run has counted it, and neither `seen` nor the counters outlive the
  run (`SeenExplained`). The step that adds the key of a failing message is the one that counts it. No run
  checks it: it needs a handler that fails on mail with a Message-ID, which the properties of the other runs
  exclude. With `HandlerSound` more is true, a duplicate is a copy of a handled message
  (`DuplicatesWereHandled`, which the next theorems use).
- `TruncatedTurnsPassNoPendingMail`, `TruncatedTurnsLoseNothing`. What is listed is, for the whole turn,
  a prefix of the mail beyond the cursor (`WindowPrefix`): what arrives comes after it. Every message up
  to a watermark is then listed, hence in the ring of the turn, hence settled by `RingSound`. The first
  theorem is the part that needs no hypothesis: the mail passed is never pending.
- `OverflowWaits`. The quiet branch, which is the one that could step over deferred mail, is never
  reached by a capped turn (`BatchEnds`).
- `LossesAreCounted`. `LossIsReported` compares mail lost on disk with counters, but mail can be lost
  while every step on disk is innocent: the state object is ahead of the file after a lost write, and
  the turn in progress is ahead of the state object. So `MissingCounted` counts the mail that is missing
  already: what the state object has passed and nobody dealt with (`Slipped`), and what the turn has
  taken from its batch and not settled, if it will end at now (`Failed`). At most as many as
  `messageErrors`, unless an expiry was counted. Each step moves mail between the two or adds one
  together with its count. That a turn that is not truncated listed the whole window (`WholeWindow`) is
  where `Calm` enters.
- `NowIsCorrectWhenCalm`. The comment that finding 1 refutes is true of a mailbox that rests.
- `GreenReportsAreTrue`. `GreenInv`: whatever was missed since the run began is on its counters while it
  lasts; what the last write adds was missing before, and `MissingCounted` has counted that.
- `RedReportsAreEarned`. The counters of a run in which no call failed and no window expired are not red
  (`NothingRed`). The case that takes work is the stall count: such a turn must have progressed. A batch
  in which nothing failed rings at least its first message (`Progresses`); in a quiet turn everything
  listed is ringed already, so on a truncated window the watermark moves.
- `RingPreventsRepeats`. The ring remembers across runs, `seen` within one. `OnceInv` follows a handled
  message through both: it is ringed, in the state object or in the turn's locals, or the cursor is past
  it, or the account starts over from now (`Remembered`, `Behind`); the file of a run that is not live
  says the same, for that is what the next run reads, even after this one could not (`FileRemembers`);
  if the batch still holds a second listing of it, its keys are in `seen` (`SecondListings`). What is
  hard is the cut: `RingOrder` says that a ringed message beyond the cursor was followed only by mail
  beyond the cursor of that time, and that fewer than half a ring of messages lie between that cursor
  and it. Those that come after it lie beyond the cursor now, of which again there are no more than half
  a ring. So what the cut takes is behind the cursor. A window of at most a whole ring would not do,
  which TLC found before the proof did.
- `CursorStaysInListing`, `CursorTakesAllItMay`. Both loops only ever name records of listed ids
  (`FromListing`), so the answer is one of them and, in ascending order, below all that was not listed.
  For the equation, `PlainInv`: on ascending numbers first-seen order is ascending (`Ascending`), and
  the walk has passed fully handled records only, the last of them being the watermark (`Walked`).
  `PollCycle!Watermarks` rests on it.
- `CursorIsSafe`. The invariant of the two loops: every listed id passed by the first loop has its
  record in `order` (`Grouped`), and `lowestUnhandled` is at or below every unhandled record the walk
  has met, as long as it is a number (`Bounded`). Nothing is assumed about the order of the records, and
  nothing need be known of the watermark: the final clamp alone makes it safe.
- `EnumerationHasNoHoles`, `PagingIsOneListing`. The first needs only that no record lies beyond the
  mailbox's history id (`Ahead`): a page is then read from a mailbox whose older records no longer
  change. The refinement needs more. A page that ends the call at the cap claims that more was waiting
  and that the ids are a prefix ending in a record: this is so because every record up to the history id
  holds a message (`Dense`). It also claims that the prefix is long enough, and `ids.length` counts a
  record listed twice twice: `length` is the number of ids and of those listed again (`Counted`). That a
  later page exists only if no record without an id was read (`Between`) makes the ids all that is
  attributable.
- `NeverGreen`, `OutageNeverOutvoted`. The report's status is determined by the counters it was made
  from; the work is in lemmas about the roll-up and the split.
- `WaitingMailShows`. The invariant of the scan (`Covered`): what is in the inbox but was not listed was
  written after the check began, and an entry that was read and is still there is no older than
  `oldestAgeMs`. The entries that are gone drop out of both.
- `QueueFailsForAReason`. The converse: `oldestAgeMs` is always the age of an entry that was there
  (`OldestIsAnEntrys`); one that vanished before it was read leaves none.
- `EventLosesOnlyTheSum`. Event and report are made from the same counters (`EventDerived`) by two adapters
  with different defaults; where the event's three error counts are zero, the counters were zero, missing
  or garbled, and the status then hangs on the sum alone.
- `SilenceOnlyWhenEarned`. The baseline is set in one branch, forgotten in another and read in a third,
  in a file and in a memory that may differ. The invariant says of *both* that their baseline is not
  before `least` (`NotBefore`), and what a live run has already done to its state object (`RunKnows`);
  the record on disk may then be replaced by the one in memory, or survive it.
- `SilenceIsTold`. The other bound, again of both copies: neither baseline is after `most` (`NotAfter`),
  and a live run with the option on has one (`UntilInv`), so a failed write can only make the account
  look silent for longer.
- `ForwardsAreCounted`. The accounting is by failures: copies of a message and failures still to come
  together are at most one more than all failures, and at most those while the original has not been
  dealt with (`Ledger`). So each copy beyond the first was paid for by a failed call, write or process.
  That the turn has before it only mail it has not dealt with (`Turn`) closes it.
- `ReadOnlyIsKept`. What is sent was put together two steps earlier, so the property alone is not
  inductive: `CallIsVetted` says that a read-only client's waiting call is a read with the guard's own
  copy, `TokenIsProven` that its token's scopes were Google's answer and exactly read-only, and
  `NothingBeforeClient` that neither is older than the client. `DenialsAreHeard` needs that a sink that
  was warned of was told of (`WarnedIsTold`); `BlameFallsRight` is by cases on the two files.
- `WholeIsWhole`, `PagesArePaidOnce`, `ClaimsAreTrue`. The invariant ties the caller's position to the
  history: what was shown of an open document is exactly the pages before its next window, and a window
  in flight follows on (`FollowsOn`). It holds whatever steps the splitter has and whatever fits.
- `OvershootIsLimited`. Each call in flight is counted as if already spent: the sum passes the cap only
  by a call made when the sum of the spent alone was below it, one per document.
- `ResultDatesAreSound` is `GuardIsSound`, a lemma on the guard for every text and every pair of dates,
  carried to every answer.

What stays with TLC:

- the liveness properties (`HealthyAccountsDrain`, `WedgesAreReported`, `StuckStaysDown`,
  `CallReturns`, `CountedDocumentsSettle`), because TLAPS does not reason about fairness and `ENABLED` here;
- `RepeatsAreAccounted`, and `TruncatedTurnLosesNothing` beside a second run (its theorem is about a run alone).
  With two runs on one file neither state object is ahead of the other, and the invariants of the
  single run (`CursorInv`, `OnceInv`) are not kept; the ones that relate the two to each other have not been
  found yet.

Every other property that a passing run checks is also the subject of a theorem.

## 6. What is not modelled

- `poll.js`: the shadow-mode counter and the counts of forwarded,
  processed and archived messages; they influence nothing the modelled part reads. `PollTwin` has two
  runs at a time, and renames the file in one step: the `.tmp` the two share is not modelled; `SentMail` leaves out truncated windows
  and seeding, which `PollCycle` has.
- `gmail.js`: the backoff times of `withRetry`, the text match on "404"; drafts and `sendEmail` beyond their
  being writes; MIME assembly, label lookups: formatting or Google's code.
- `readonly-guard.js`: which keys of which argument are allowed, and the wording of messages.
- `PollHealth` reports in front of a healthy inbox (queue status `pass`), so that its verdicts are about the
  run; `HealthReport` varies the inbox.
- `sluice-flag.js`: a pure function of two environment variables, read once when a process starts. It has no
  state and no order of events, and the tests of the repository enumerate its cases.
- Prompts, pricing, JSON recovery and a caller's own `pdfSplitter` in `ocr.js`; logging, masking, model
  names, re-exports and the local transport's one append: text processing and plain I/O.

## 7. Plan

In order of importance:

1. `RepeatsAreAccounted` as a theorem, from an invariant that relates the state objects of the two runs.
2. An abstract `Ingest` specification (each message is waiting, dealt with, or lost and counted)
   that `PollCycle` implements; `LossInv` and `FatesSettle` are most of its refinement proof.
3. Larger instances of `PollTwin`: two failures, two overlapping starts, and a ring smaller than the mailbox.
4. The same bound for one run alone, by the number of failures, as a theorem: `HandledAtMostOnce` past a crash, as
   `ForwardsAreAccounted` says of the copies.
