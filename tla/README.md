# Verification of verifiable-memory-mcp

TLA+ models of the verifiable memory server, checked with TLC and, where it
matters most, proved with TLAPS. All paths below are relative to the repository.

## The system

`verifiable-memory-mcp` is an MCP server that stores memory entries in a SQLite
file. Each entry commits to its predecessor through a hash, and the hash of the
latest entry, the *state root* or *witness*, is kept outside the file in the OS
keychain. Every client starts a server process of its own (stdio), so several
processes share one file and one keychain item.

| Component | State | Operations | Module |
|---|---|---|---|
| Hash chain (`src/hashing.ts`) | none | `hashContent`, `hashEntry`, `buildEntryCanonical` | `HashChain` |
| Ledger store (`src/db.ts`) | table `entries`, SQLite's locks, the keychain item, `stateRootUnavailable` per process | `insertEntryAtomic`, `insertEntryIfVerifiedHead`, `readVerifiedSnapshot`, `verifyStateRoot`, `persistStateRoot`, and readers | `Ledger`, `LedgerProperties` |
| Write and verification tools (`src/tools/`) | none | `remember`, `append_if_verified_head`, `read_verified_snapshot`, `verify` | `Ledger`, `SnapshotPaging` |
| Reading tools (`src/tools/`) | none | `chain`, `recall`, `export`, `timeline` | `ReadTools`, `ChainTools`, `Readers` |
| MCP server (`src/index.ts`) | none | `callTool` and its catch | `Ledger` (partly) |
| Edits of the file (`demo/tamper.py`, the tests) | the file | change, remove, exchange, rewrite rows | `EditedLedger` |
| Demo agent, owner's scripts (`demo/*.mjs`) | the memory, `state.json` | decision cycles, resolutions, policy updates, injected requests | `DemoAgent` |
| Telegram bot (`demo/telegram-bot.mjs`) | its offset, the scripts it started | poll, run the scripts of a command, answer | `TelegramBot` |
| Evidence packages (`demo/evidence-package.mjs`) | numbered `.eco` files | write a package per cycle | `DemoAgent` (partly) |
| Portable verifier (`verifier/index.html`) | files chosen, anchor, last result, what is shown | verify a file, verify a record beside its receipt, fetch `?eco=` | `VerifierPage`, `BrowserPages` |
| Sandbox page (`sandbox/index.html`) | run counter, pending tampering, list of runs | run, tamper, reset, open in verifier | `SandboxPage`, `BrowserPages` |
| Dashboard, landing page, scripts | none of their own | | not modelled |

How they interact: tools call the store synchronously, so inside one process a
call runs to its end before the next starts. Processes meet in three places
only: SQLite's write lock, the table, and the keychain item. The keychain takes
part in no transaction. The demo's agent and scripts are processes of that kind:
they call the tools in their own process, and act on what they have read with no
lock between the reading and the writing. `state.json` and the evidence packages
are files of the agent. The bot starts the agent and the scripts as child
processes; Telegram delivers to it whatever it has not confirmed. The two pages
run in a browser: each has one thread and interleaves at its awaits, and the sandbox
hands a run to the verifier as a blob that the verifier fetches.

### What is hard

* `remember` reads the head in a deferred transaction that holds no lock, and
  writes later; SQLite refuses the upgrade if anyone committed in between.
* The conditional append holds the write lock from its first read to its
  commit, but the keychain it checks is outside that lock, and is written after
  the commit: there is a window in which file and keychain disagree, in which a
  process may die or the keychain may fail.
* `remember` does not verify and re-anchors the state root on what it finds.
* `verify` reads the entry, the latest row and the keychain in three steps.
* A client that reads the chain in pages does so while others append; `chain` and
  `recall` read in two or three statements, each of which sees another table.
* A file edited behind the server may be edited at any moment of these.
* The demo's agent decides on one reading and then writes entry by entry, while
  scripts write too; it may lose a call to SQLite's conflict detection, or die
  between its entries, its package and `state.json`.
* The bot confirms an update to Telegram by the next poll only, so a death repeats
  commands, and a script it has started outlives it.
* On the pages, files are read, fetched and hashed asynchronously, nothing is
  cancelled, and every continuation writes to the same page.

`PROJECT.json` lists each of these under "hazards", at its line, with the
properties that cover it or the reason none does yet.

### What makes each component correct

* Hash chain: equal heads mean equal histories.
* Ledger: the chain never forks; an append takes effect once, at one instant, on
  the head its client insisted on; an answer stays true; a committed row is
  reported as committed unless the process dies; the state root belongs to a
  committed row; with conditional appends alone the state root never goes back
  and is never more than one row behind.
* Strict operations: they accept nothing but the table last confirmed.
* Reading tools: they agree with the strict verification where they overlap; an
  answer that claims to be complete is, and hides no row that was there.
* Paging: no gap, no repetition, an end.
* Demo: no research over a request that its owner could have reviewed and has not;
  a policy update is lost to an overlapping one only; after an edit the agent ends
  the batch it is in and writes no more; what it lists as done was done.
* Bot: no command is lost, none is repeated unless the bot died, scripts do not
  overlap, and strangers do not block the owner.
* Sandbox: a tampering stops exactly one run; runs are numbered without a gap.
* Verifier page: its circle never stays busy, and a verification that overlaps no
  other leaves the verdict of the inputs on the page.

## The modules

| Module | Models | Extends |
|---|---|---|
| `HashChain` | rows, hashes, `verifyChainStructurally` | |
| `Ledger` | the operations of the store as interleaved steps of processes | `HashChain` |
| `AppendLog` | what the ledger promises: an atomic log with conditional appends and reads | |
| `LedgerProperties` | the properties of `Ledger`, and the refinement mapping to `AppendLog` | `Ledger` |
| `LedgerProofs` | TLAPS proofs about `Ledger` | `LedgerProperties` |
| `RefinementProofs` | TLAPS proofs that `Ledger` implements `AppendLog` | `LedgerProofs` |
| `StrictProofs` | TLAPS proofs about conditional appends alone | `LedgerProofs` |
| `EditedProofs` | TLAPS proofs about tables, and about the file that is edited | `EditedLedger`, `StrictProofs` |
| `ReadersProofs` | TLAPS proofs about the client that reads pages and the reading tools | `Readers` |
| `BotProofs` | TLAPS proofs about the bot | `TelegramBot` |
| `PagesProofs` | TLAPS proofs about the two pages | `BrowserPages` |
| `AgentProofs` | TLAPS proofs about the demo | `DemoAgent` |
| `ChainTools` | `validateChain`, `entryIntegrity`, `getChain`, `getEntriesByIds` | `HashChain` |
| `EditedLedger` | `Ledger` composed with an editor of the file | `LedgerProperties`, `ChainTools` |
| `SnapshotPaging` | a client of `read_verified_snapshot` that follows `nextSequence` | |
| `ReadTools` | the statements of the reading tools against a growing table | |
| `Readers` | a client of the paged reads or of the reading tools | `SnapshotPaging`, `ReadTools` |
| `TelegramBot` | Telegram's queue, the bot, the scripts it runs | |
| `SandboxPage` | runs, tampering and resets of the sandbox | |
| `VerifierPage` | the verifier's overlapping reads, hashes and verdicts | |
| `BrowserPages` | a user of both pages, and the hand-over between them | `SandboxPage`, `VerifierPage` |
| `DemoAgent` | the agent, the scripts of its owner, `state.json` and the packages, over a memory that grows | |
| `MCLedger`, `MCEditedLedger`, `MCReaders`, `MCDemoAgent` | instances for TLC | |

Definitions whose comment starts with `Mutant:` are deliberate mistakes, each
placed before the definition it could replace. They belong to no specification;
PROJECT.json pairs each with the property that notices it.

### Hashes

sha256 is taken to be collision-free. An entry hash commits to `contentHash`,
`createdAt` and `prevHash`, hence to the whole history, so `HashChain` represents
it by that history: the sequence of `<<contentHash, createdAt>>` stamps up to the
entry. Recomputing a hash is appending a stamp to `prevHash`; a row whose fields
do not match its hash is expressible, which is what `EditedLedger` needs. `tags`,
`id` and `created_epoch` are in no hash; `created_epoch` is the same clock reading
as `createdAt` and is represented by it where an ordering uses it.

### Ledger: state and steps

| Variable | Code |
|---|---|
| `rows` | committed rows of `entries` in rowid order |
| `lock` | SQLite's write lock |
| `keychain` | the password of `stateRootEntry()`; `Null` when there is none |
| `unavailable` | `stateRootUnavailable` of each process |
| `pc`, `call`, `view`, `staged`, `reply` | the call a process executes: position, arguments, rows read by its transaction, row it inserts, answer |
| `acks` | history: the appends answered as committed |

A step is what other processes can observe as one: a statement or transaction
boundary, or an access to the keychain.

* `remember`: `RememberCall`, `RememberRead` (snapshot), `RememberInsert`
  (upgrade; it needs the lock and an unchanged table) or `RememberBusy`,
  `RememberCommit`, then `RememberPersist`, `RememberUnpersisted` (the keychain
  failed; the client is not told) or `RememberSkipRoot`
  (`VMCP_SKIP_STATE_ROOT`).
* `append_if_verified_head`: `CasCall` or `CasInvalid`; `CasBegin` (BEGIN
  IMMEDIATE and the read of the table) or `CasTimeout`; then `CasReject`,
  `CasUnreadable`, `CasConflict` (each rolls back) or `CasInsert`; `CasCommit`;
  `CasConfirm` or `CasUnconfirmed`.
* `read_verified_snapshot`: `SnapshotCall` or `SnapshotInvalid`; `SnapshotRead`;
  `SnapshotReject`, `SnapshotUnreadable`, `SnapshotConflict` or
  `SnapshotVerified`.
* `verify`: `VerifyCall`; `VerifyNotFound` or `VerifyEntry`; `VerifyLatest`;
  `VerifyRoot` or `VerifyUnreadable`.
* `Return` and `Crash` end a call and a process. A crash rolls back what was
  not committed, drops the lock and resets the flag; the keychain keeps its
  value.

The check of the rows and of the keychain is the one operator `Verdict`, used by
the conditional append and the snapshot alike, as `verifyChainStructurally` and
`verifyWitnessAgainst` are shared in the code. The read of the keychain is the
instant of the action that uses its result.

### AppendLog and the refinement

`AppendLog` has a log and, per client, where its call is. A conditional append
or a pinned read looks at the log at one instant, and writes only if the log is
still what it looked at; any call may be refused, with no effect. The mapping
sends the table to its head (the head *is* the history) and a call to its stage.
`ImplementsAppendLog` says that every behaviour of `Ledger`, with crashes and
failures, is one of `AppendLog`: appends are linearizable at their commit, and
every answer of success or conflict states the log at an instant of the call.

### DemoAgent: state and steps

The memory is the ledger seen from outside: a sequence of entries, one call to
`remember` one entry. Of an entry the model keeps its type, a policy's version and
sources, and two histories: the cycle that wrote it and the length of the memory
at the reading its writer acted on. `round` counts the cycles from their first read
on, and `during` is the one that was under way when the memory was edited. Approvals
and rejections have the same effect on the agent and are one type.

* The agent: `StartAgent` (numbering from `state.json`), `ReadChain`, `ReadExport`
  (decision by `EvaluateCycle` on the first `Window` entries), `AgentRemember` for
  each entry of the batch, `AgentThrows` or `WritePackage`, `SaveState` (which
  goes on or ends), `Kill` at any point.
* A script: `OwnerReads`, `UpdateReads` or `Inject`, then `ScriptRemember`. Scripts
  run side by side: terminals allow it, and so does a bot that died and was
  started again.
* `Tamper` is `tamper.py`. It commits to the same file, so it may cost others their
  calls like any commit.

When a commit meets other calls to `remember`, SQLite may refuse those; a refused
script ends, the agent's batch goes on with its next call and throws at its end
(`Refused`).
The two-step transaction behind this is module `Ledger`'s.

### ReadTools and Readers

A row is its position, how it matches the query asked (or whether it carries the tag
of a timeline), and its `created_epoch`, which may go back. A call is the list of
statements it has yet to make (`Plan`), and an append may happen between any two:
`First` (`getChain`, for `chain` and `export`), `SearchLiteral`, `SearchWords`,
`TimelineRows`, `Count`. `Readers` puts beside it the client of `SnapshotPaging`, whose
pages are `ReadPage`, `PageConflict` (the chain is not the pinned one) or `PageFails` (an
integrity failure or an error of SQLite).
Readers change nothing and no writer waits for them, so two of them do not disturb
each other: the model has one, of either kind.

### TelegramBot

`sent` and `confirmed` are Telegram's queue; `bot` is the position of the loop (`down`,
`idle`, `running` a script, `next` step of `/ready`, `replying`), its offset and its batch;
`children` are the scripts that run, each with the life of the bot that started it.
`Poll`, `Take`, `NextStep` and `Reply` are the bot's steps between awaits, `ChildEnds` ends
any script with an expected exit code or another, `Die` is a kill or a request to
Telegram that rejects. `done` and `starts` are histories.

### SandboxPage, VerifierPage, BrowserPages

A step is what runs between two awaits. In the sandbox `StartRun` is `createRun` up to
`createEco`, `FinishRun` what follows it, for any of the runs that are `making`. In the
verifier a file is first `Pick`ed and later `Loaded`, which begins a verification
(`Run`, `RunStrict`); `checks` are the verifications under way, which take their
inputs where the code does: `run` before its await, `runStrict` in part after it
(`RecordHashed`). `Verified` may end any of them. `TypeAnchor` and `TimerFires` are the
delayed run of the anchor, `Fetched` and `FetchFails` the end of `?eco=`.

A text stands for its own hash. The verifier treats all texts alike, so one stands for
the bundle of whichever run it is given, one for an altered copy and one for a file
that is no bundle; an ECO is a text beside the hash it declares, wrapped in an
ECOX or not. The sandbox is followed until the verifier is opened. Nothing it does later
reaches the verifier, except that its blob may be gone when it is fetched.

## The runs

| Run | Instance | Shows |
|---|---|---|
| `ledger` | 2 processes (one skips the state root), 2 contents, 2 rows, all operations, crashes, keychain failures, one foreign head | type invariant, no fork, exclusion, true answers, state root in chain, every committed row answered as committed or its process died, refinement |
| `ledger_strict` | 3 processes, 3 rows, conditional appends and snapshots, crashes, failures | the keychain lags at most one row, appends extend a confirmed head, the state root never goes back |
| `ledger_live` | 2 processes, 3 rows, conditional appends, snapshots and `verify`, failing keychain, no crash, fairness | every call is answered; the window closes or a process is flagged (no `remember` here); `verify` raises no alarm but over another head or another process's unfinished or failed write |
| `ledger_window` (violation) | 2 processes, no crash, no failure | see the first finding |
| `edited_ledger` | 2 processes, 3 rows, 2 contents, 1 edit at any moment, crashes | strict operations accept only the confirmed table; verifications agree; edits are never attested |
| `removals` (violation) | 1 process, 1 edit | see the second finding |
| `partial_exports` (violation) | 1 process, clock with 2 readings, no edit | see the third finding |
| `agent` | 2 cycles, 2 scripts side by side, 3 commands (requests, resolutions, updates, one edit), kills, refused calls; before and after setup | requests reviewed but those recorded meanwhile, updates lost to overlapping ones only, no writing after an edit but the batch under way, complete and uncontested packages |
| `agent_window` (violation) | 1 cycle, a window of 4 entries, 2 commands | see the fourth finding |
| `paging` | chain up to 7, limits 1 to 3 and the default (4 here, 1000 in the code); tables up to 4 rows, 3 kinds of match, 2 clock readings, limits -1 to 2 | no gap, no repetition, complete pinned reads, an end (the last page, a conflict or an error); honest partial checks, nothing hidden from `recall` and `timeline` |
| `pages` | 2 runs and 1 reset of the sandbox, 3 inputs of the verifier out of 5 files and 4 anchors | tamperings and numbers, no endless circle, the verdict of a verification that overlaps no other |
| `bot` | 3 messages of owner and strangers, 3 lives of the bot, answers of 1 update | no command lost, one script at a time, repetition only by death, every command carried out |

### Bounds

* `MaxRows` bounds the table: an append is called only while there is room for
  it and those under way. Two processes and two rows cover the interleavings
  of two writers over an empty and a non-empty chain. With three
  processes a third sees a window opened by one and disturbed by another;
  `ledger_strict` has them, with three rows.
* `Content` has two values, so that two histories of one length differ.
* `Time` has one value where no ordering depends on the clock; `partial_exports`
  has two, in any order, which includes a clock that goes back.
* `ForeignHeads` holds one well-formed hash of another history.
* `MaxEdits` = 1: an edit at any step of any call. Two edits held as well (7.5
  million states).
* `MaxLength` = 7 with pages of 1 to 4: a last page that is full, partial or
  empty, and growth between any two pages.
* `MaxCommands` = 3 is the least that has a request, its resolution and a second
  request before or after it, two updates that overlap and a third, or an update and
  an edit beside a request. Two `Script`s are the least that overlap. `MaxRounds` = 2
  is a cycle, cut short or not, and one after it, of the same agent or of another; with
  `KeepCycles` = 1 it passes the number of cycles kept. In `agent` the window is the
  code's; in `agent_window` it is 4, and the memory is longer with one entry more than
  after setup and an update. The proofs are for all values of these.
* `MaxRows` = 4 in `paging`: two rows before a call and two that come between its
  statements, for limits below, at and above them. A negative limit is SQLite's "none".
* `MaxInputs` = 3 in `pages` is the least that has a record, a receipt and the
  replacement of either while it is being hashed, or two files and an anchor; two runs
  and a reset are the least in which a run of one session ends in the next.
* `Limit` = 1 in `bot` makes the offset of every message pass through Telegram; with
  `Limit` = 2, a batch that a death cuts in two, all properties hold as well. Three
  lives are the least in which a repeated command is repeated.
* Symmetry is used in safety runs whose processes, or scripts, are interchangeable.
* `paging`, `agent`, `pages` and `bot` turn deadlock checking off: the client ends and
  the chain stops growing at the bound; the agent ends after its cycles and no more
  commands come; the user has no more inputs; nobody starts the bot again. In all
  other runs some client can always call.

### Fairness

`FairSpec` has weak fairness of `Step(p)` for each process: inside a call the code
is synchronous and goes on by itself, and SQLite's wait for the lock ends after
`busy_timeout`, either with the lock or with an error. Nothing is assumed about
clients: a call, and the taking of an answer, may never come. In `paging` the
client goes on asking for pages, each of which may fail. `BotSpec` has weak fairness
of the bot's own steps, which follow each other in one loop, and of the end of a
script, none of which waits for input; nothing restarts a bot that died, and
`CommandsCarriedOut` says so.

## Findings

1. `ledger_window`: the comment at `src/db.ts:160` says that file and keychain agree
   again once the winner has written the witness, and `src/types.ts:59` that
   "appended" means the witness was updated to match. A conditional append
   commits; a `remember` commits on top and writes its root; the conditional
   append then writes its own, older head and answers "appended". From then on
   the strict operations fail with `witness_mismatch` and `verify` reports
   tampering, until the next `remember`.
2. `removals`: `README.md:417` says that `chain()` detects removals. A table without
   its last row, or its first, is reported valid.
3. `partial_exports`: `verifier/index.html:372` says that a contiguous partial export
   stays verifiable. `getEntriesByIds` orders by `created_epoch`; with a clock
   that went back, the entries come out of chain order.

4. `agent_window`: `demo/agent-loop.mjs:15` says that the agent holds and does no
   research over a request without owner authorization. Its reading is limited
   to 200 entries (`demo/common.mjs:87`) and `getChain` gives the first 200. Once the
   memory is longer, which takes some 28 cycles, a new request is not seen: the
   agent goes on, and `owner-approve.mjs` finds nothing to approve.

## What is proved

Every invariant and every action property that a passing run checks is a theorem,
and so is the refinement. Each is proved for every value of the constants that
satisfies the module's assumption, with the hypotheses that its statement names.

### The ledger

`LedgerProofs`: any number of processes, contents, times and rows, with or without
crashes and failures, any subset of the operations.

| Theorem | Property |
|---|---|
| `TypeCorrect` | `TypeOK` |
| `ChainNeverBreaks` | `ChainIntact` |
| `AnswersKeepStanding` | `AnswersStand` |
| `WitnessStaysInChain` | `WitnessInChain` |
| `AppendsExclude` | `CasExclusive` |
| `RowsAreAnswered` | `RowsAnswered` |

Apart from the first none is inductive. The invariant `Inv` adds `Typed` (types, and the
shape of the arguments of each call under way), `LockOK` (the lock is held exactly by the
process between its acquisition and its commit or rollback), `ChainOK` (the table
verifies, and the hash of row i has length i), `TxnOK` (under the lock a process has
read the current table; its row is built on what it read; once committed, the row stays
at its place) and `AcksOK` (answers stand, and the answered appends together with
those committed but not yet answered are at different positions).

A step changes the table, lock, keychain and answers in one of five ways: `Quiet`,
`Stages`, `Acquires`, `Commits`, `Acknowledges`. The lemmas `LifeFootprint`,
`RememberFootprint`, `CasFootprint` and `ReadFootprint` place each action in one of them,
and one lemma per part of the invariant goes through the five. `ChainOK` is preserved by
a commit because the committing process holds the lock and so has read the very table it
extends. `AppendsExclude` follows because a head is as long as its position: equal
previous heads are equal positions, and positions are answered once. `RowsAreAnswered`
counts: a row is answered, or its writer is about to answer, or its writer has died, and
a commit adds one writer to the second kind.

`RefinementProofs` proves `LedgerImplementsAppendLog` (`ImplementsAppendLog`) from `Inv` and
`InsistOK`: an append about to commit has read the head that its client expects, and a
pinned read insists on one head at most. Each action of a process is one action of its
client or leaves the mapped state as it is; one lemma per group of actions shows which.

### Conditional appends alone

`StrictProofs` is about the specification without `remember` (`StrictOnly`), as a hypothesis
of each theorem.

| Theorem | Property | Hypotheses |
|---|---|---|
| `AtMostOneBehind` | `WitnessAtMostOneBehind` | `StrictOnly` |
| `AppendsExtendTheWitnessed` | `CasExtendsWitnessed` | `StrictOnly` |
| `WitnessNeverGoesBack` | `WitnessNeverRegresses` | `StrictOnly` |
| `AlarmsAreReal` | `NoFalseAlarm` | `StrictOnly`, `NoCrash` |

With `remember` the first three are false: the first finding is the counterexample, and
`remember` also commits over whatever root the keychain holds. The strengthening is
`WindowOK`: a row is committed only where the keychain holds the head, and while an append
awaits its confirmation the keychain holds the head it was built on. `AlarmsAreReal`
needs `NoCrash` because a process that is started again has forgotten that its write to
the keychain failed; with crashes TLC finds `NoFalseAlarm` violated.

### The edited file

`EditedProofs` allows any number of edits, at any step of any call.

| Theorem | Property | Hypotheses |
|---|---|---|
| `HeadPinsTable` | two verified tables with one head are one table | |
| `VerificationsAgree` | `VerifiersAgree` | |
| `AcceptedOnlyConfirmed` | `AcceptedIsConfirmed` | `StrictOnly` |
| `EditsStayUnattested` | `EditsNeverAttested` | `StrictOnly` |

`HeadPinsTable` is what the whole design rests on: appending is injective, so equal hashes
have equal predecessors, down to the first row. The induction goes through the least
element of a set of naturals, here the first position at which a claim fails. The
invariant `EInv` says that the keychain holds the head of the table last confirmed
(`ConfirmedOK`), that the process with the lock has read the current table (`LockView`; an
edit needs the lock too), and that, until an edit meets an append that awaits its
confirmation, such an append is alone and the table is the one it read with its row at the
end (`AttestedOK`). With `remember` the last two theorems are false by design
(`src/db.ts:102`): it re-anchors the state root on whatever the file holds.

### Readers

`ReadersProofs`: any limits, any length of the chain, any starting point, any clock and any
appends between the calls or between the statements of a tool.

| Theorem | Property |
|---|---|
| `PagesHaveNoGap` | `PagesExact` |
| `PinnedReadsAreComplete` | `PinnedIsComplete` |
| `LastPagesReachTheHead` | `LastPageReachesHead` |
| `PartialChecksAreHonest` | `PartialIsHonest` |
| `SearchesFindTheNewest` | `FoundAreNewest` |

For pages the strengthening is `CursorOK`: between two pages `afterSequence` is the last entry
received, which is in the chain. `SliceFacts` and `NextFacts` are what the code's slice
and `nextSequence` give; `PageFacts` puts them together for one call. For the tools it is
`ToolsInv`: what a statement found covers (`Covers`) the table of its moment, so what it
leaves out is older than all it kept. That the newest rows are a list without gap or
repetition (`NewestLists`) is argued by the rank of a row, the number of rows before it.

### The pages

`PagesProofs`: any number of runs and resets, any texts, files and anchors, any order in which
hashes, reads, the timer and the fetch end.

| Theorem | Property |
|---|---|
| `TamperingsStopRuns` | `TamperStopsOneRun` |
| `RunsAreNumbered` | `NumbersExact` |
| `SpinnerIsEarned` | `BusyEnds` |
| `UndisturbedVerdictsAreCurrent` | `VerdictIsCurrent` |

For the sandbox, `SandboxInv` adds that no run is from a session to come. For the verifier,
`CurrentOK` says of a verification that overlaps no other, while it is under way, that it
has the inputs that are on the page, unless another verification is to follow (`PlainOK` for
a file, `StrictOK` for a record and its receipt). `NullAssumption` says that the model
value for JavaScript's null is no file and no result.

### The bot

`BotProofs`: any number of messages, size of an answer and number of deaths.

| Theorem | Property |
|---|---|
| `NoCommandIsLost` | `NoneLost` |
| `ScriptsDoNotOverlap` | `OneScriptAtATime` |
| `RepeatsNeedDeaths` | `RepeatedOnlyByDeath` |

`Base` is the last update taken: what the next poll will confirm, or what has been
confirmed if this bot has polled nothing. The invariant says that the batch holds the
updates after `Base` without a gap (`BatchOK`), that what is up to `Base` is carried out or
under way (`TakenOK`), and that a script of this life is the one the bot awaits, unless the
bot is dead (`ChildrenOK`). For repetitions, `NotBegun`: what is after `Base` was begun
in earlier lives only, each later than the one before.

### The demo

`AgentProofs`: any window and limits of `state.json`, any number of sources, cycles,
commands and scripts side by side, any refusals and deaths.

| Theorem | Property |
|---|---|
| `AgentTypeCorrect` | `AgentTypeOK` |
| `EditStopsTheAgent` | `EditEndsWriting` |
| `ListedPackagesStay` | `ListedIsOnDisk` |
| `ListedPackagesAreComplete` | `ListedIsComplete` |
| `UpdatesAreLostToOverlapOnly` | `LostOnlyToOverlap` |
| `ResearchIsReviewed` | `OwnerReviewed` |

`Inv` is what all six start from: types, what the agent's position says of its batch and its
file (`AgentOK`), and that entries are written after what their writer has read, in rounds
that have begun (`HistoryOK`). Every step leaves the entries as they are but for the type of
the first (`MemoryStays`), so what is recorded stays recorded (`RecordsStay`).

* `EditOK`: once the memory is edited, the agent has a batch, or the decision to have one
  before it, only in the round `during`.
* `DiskOK`: as long as `state.json` forgets nothing, the cycle under way has the number
  after those listed, and later a number beyond `KeepCycles`. A package that is
  overwritten is therefore one that is not listed.
* `CompleteOK`: while no call of a batch has failed, each step of it is in the memory
  or still to be written (`Covered`); a package is written when nothing is left.
* `DecidedOK`: every entry, in the memory or about to be written, is what its writer
  should have decided on what it had read (`Decided`): an update extends the latest policy
  of that reading (`ExtendsLatest`), a resolution follows a request found pending in it
  (`FoundPending`), and research a reading in which every request is resolved
  (`Resolved`). Entries read do not change but for `tamper.py`'s, so this stays true
  however long the writer takes (`DecidedStays`), and both properties follow by
  comparing the reading with where the entry came to stand. Nothing is needed about who
  else runs.

### Only model-checked

The liveness properties `CallsAnswered`, `WindowCloses`, `PagingEnds` and `CommandsCarriedOut`:
fairness and ENABLED are out of the prover's reach. That the findings are reachable is
shown by TLC's counterexamples.

## What the properties do not say

The code allows some things that a reader might expect to be excluded. The models have
them, and the properties are stated so that they are outside:

* Two verifications that overlap on the verifier page may end in either order, so the
  older verdict may stay (`VerdictIsCurrent` is about one that began alone); the
  language button shows the last verdict again even after a receipt was refused, and
  the strict line then still says that the match is being checked (`BusyEnds` is about
  the circle).
* A sandbox run that is being hashed survives a reset and appears after it, and hides
  `PENDING_TAMPER_CHECK` if it ends after a tampering.
* A script outlives a bot that dies and runs beside those of the next one;
  `OneScriptAtATime` is about one life.
* Of two updates of the policy that overlap, the later leaves the earlier out
  (`LostOnlyToOverlap` is about the others). A request recorded while an owner decides on
  an earlier one counts as resolved by that decision (`OwnerReviewed` excuses it alone).
* The cycle that found the memory valid before an edit writes its whole batch, and its
  package says VALID (`EditEndsWriting` bounds it to that cycle).
* Beyond the number `KeepCycles`, every start of the agent uses the same number again
  (`ListedIsOnDisk` stops there).
* `verify` raises its alarm over an append that comes between its reads, or is not yet
  confirmed (`NoFalseAlarm` is about all other causes).
* `chain` may call a check partial that covered every row there was when it read them.
* `remember` attests whatever the file holds.

## Not modelled

* Hash collisions, and loss of committed data by the disk.
* The stdio transport and schema validation, which are the SDK's; the dispatch
  of `callTool` is in `Ledger` as the begin and the end of a call.
* `export.mjs`: it writes a package under the number of the last cycle listed. An instance
  of `DemoAgent` with it has more than 22 million states.
* Two agents at once (`/cycle` beside the loop), and a reset under a running agent.
* A clock that goes back in the demo: `DemoAgent` takes entries in the order of their
  commits. The same clock in the tools is in `ReadTools` and `EditedLedger`.
* `telegram-alert.mjs`, the dashboard, the landing page, the scripts for building and
  anchoring: they keep no state, or only show it.

## Plan

In order:

1. `DemoAgent`: `export.mjs` and a clock that goes back, in instances of their own, with
   the proofs of `AgentProofs` extended to them where they hold.
2. The tools that `StrictProofs` excludes: what still holds of the state root when `remember`
   and conditional appends are mixed, beyond `WitnessInChain`.
