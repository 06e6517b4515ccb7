# Verification of botpipe

Botpipe runs ordinary Python functions as durable workflows.  Every model call,
human question and activity is an *operation* that is recorded in the run's
ledger before and after its effect, so that a crashed, interrupted or waiting
run can be resumed by replaying the function against the recorded operations.
The hard part of the program is what happens between two records: a process may
die, a write may half succeed, a model turn may or may not have been sent, a
second process may want the same conversation, a file may change between being
checked and being used.

This directory holds TLA+ models of those parts and of the programs built on
them, TLC configurations that check them on small instances, and proofs that
TLAPS checks for every instance.

## 1. Inventory

| Component | State | Operations | What makes it hard | What makes it correct |
| --- | --- | --- | --- | --- |
| Run ledger, `journal.py`, `storage.py` | `ledger.jsonl` per run; per process a folded `_RunState` validated by file size; poison mark | append, confirm, repair tail, load, snapshot | failing writes and flushes, crashes inside a line, caches in several processes, readers without a lock | acknowledged records are durable and never move; lines are never merged; memory is a prefix of the file |
| Run records, `journal.py` `_apply` and the methods above it | run status, operations, attempts, budgets folded from records | `begin`, `finish`, `fail`, `response`, `wait_input`, `prepare_attempt`, `attempt_checkpoint`, ... | every method repeats checks that the fold makes again on reload; a record the fold rejects makes the run unreadable | no method writes a record that the fold rejects; terminal facts are frozen; a request left behind by a death stops no later one |
| Codec, `codec.py` | contracts of the classes in a value; interned members of flags | encode, verify, decode | classes are edited between recording and replay; mappings and flags have more than one form | what is read is what was recorded, or it is refused |
| Provider operation, `operations.py`, `provider_checkpoints.py`, `recovery.py`, `providers.py` | operation status and checkpoint, attempt status, dispatch reservations, the native turn | dispatch, recover, adopt, validate, capture, repair, settle | a crash between any two of reservation, dispatch, acknowledgement, response and settlement | a model turn is never sent twice without authority; a completed response is never redispatched |
| Operator resolution, `runtime.py` `_resolve` | `resolution_selected` / `operation_reconciled` events | resolve, replay of an unfinished resolution | a crash in the middle of a resolution that has several effects | the selected resolution is completed exactly once, and never contradicted |
| Session bindings, `session_bindings.py`, `sessions.py` | one binding file per conversation: native thread and pending owner | check, claim, advance, finish | several runs share a conversation; the settlement record and the binding file are two writes | at most one unsettled owner; nobody takes over a conversation whose turn may still run; what was said is not lost |
| Budgets, `budgets.py`, `dispatches.py` | budget records, dispatch events | create, observe, reserve, settle | nested budgets charged from parallel branches; wall clock moving backwards | no budget is exceeded; a reservation charges all enclosing budgets or none |
| Run lifecycle and replay, parallel branches, human input, `runtime.py` | run status, pending input, per-context ordinals, sticky replay error | run, resume, operation replay, activity retry, ask_human, scope, parallel | replay must consume the same operations in the same order while branches run in parallel | a recorded effect is never repeated; leftovers are detected; a deterministic program is never told that it changed |
| Artifact capture, `artifacts.py` | content-addressed blobs, capture intent, manifest | capture, captured, approve | sources change while captured; crash between intent, blobs and manifest | a manifest names only blobs that exist; nobody's files are taken for a turn's outputs |
| App-server transports, `providers.py`, `codex_appserver.py`, `processes.py`, `locks.py` | owner map, adapters, process trees, reader threads, cleanup and owner locks | obtain, start, dispatch, wait, tear down, dispose, close | notifications race with answers, teardown with dispatch, closing with everything | no server outlives a close; a waiter is told that its turn is lost only when its server is gone; every call returns while servers go on reading |
| Work lists, `worklists.py`, `workflows/ralph_loop` | items, selection | plan, select, complete | stale file under the cursor; death between publication and record | an item is completed once and stays completed |
| Bundled workflows, `botpipe/workflows/*` | loop counters, documents and verdicts over operations | goal, devloop, ralph loop, workflow author, code to workflow, phases | nested loops that throw the run back, resumption by another run, edited files | what is called complete or published is what was verified; loops with a limit keep it |
| Optimizer, `botpipe_optimizer/*`, `labs/workflows/improve_workflow`, `optimizer_integration.py` | trials, evidence, candidates, recommendations | trial, paired evaluation, judging, improvement, publication | dying callers with living workers, deadlines, edited inputs, lost renames | only complete pairs of what was frozen decide; limits outlive crashes |
| Labs, `labs/workflows/*` | phases and their artifacts; pieces and their approvals; captured evidence | phases, storefront loop, intake | as the bundled workflows | as the bundled workflows |
| Read projection, inspection, provenance, discovery, configuration, policy, prompts, command line | none between calls | fold, hash, find, parse | none that is concurrent | agreement with the records |

How the parts interact.  A workflow function calls operations through a run
context.  The context asks the journal for the operation's record and replays or
executes it; the codec turns results into records and back.  A provider operation
checks its session binding, records an intent, claims the binding, reserves from
its budgets, drives an app-server through the Codex adapter, whose reader thread
writes to the same journal, and captures its outputs.  Bundled workflows, labs
and the optimizer are programs over these operations with files of their own.
Everything durable is in four places: the run's ledger, one binding file per
conversation (shared by runs), content-addressed artifacts, and the documents that
programs keep in the workspace.  Two locks matter: the run's executor lock (one
executor per run) and the session lock (one executor per conversation).  Readers
take none.

## 2. Modules

| Module | Models | Composes |
| --- | --- | --- |
| `DurableLog` | what a ledger promises: an append-only numbered history and acknowledgements that are never taken back | |
| `Ledger` | the append protocol of `journal.py` | refines `DurableLog` |
| `LedgerReader` | a reader without the lock beside the appending processes | extends `Ledger` |
| `ProviderTurns` | what a provider operation promises about its model turns | |
| `ProviderOperation` | one provider operation: executor, ledger rows, app-servers, turns | refines `ProviderTurns` |
| `ProviderResolution` | the operator's choice over an unfinished operation | extends `ProviderOperation` |
| `SessionBinding` | one conversation file, the ledgers of the runs that use it, the session lock | |
| `Allowance` | what nested budgets promise: a turn is charged to all or to none, and never beyond a limit | |
| `Budgets` | provider budgets under parallel branches | refines `Allowance` |
| `Replay` | a run, its resumes, scopes, branches, activities, questions and operator's choices | |
| `ArtifactCapture` | the outputs of one turn: intent, blobs, manifest, approval | |
| `AppServer` | owners, adapters, processes and threads of one provider | |
| `AppServerSends` | the messages of `AppServer` on their way through the pipe of a server | extends `AppServer` |
| `Trial`, `PairedEvaluation`, `RubricTrials`, `CandidateImprovement`, `Publication` | the optimizer | instances in `Programs` |
| `Goal`, `DevLoop`, `WorkLoop`, `WorkflowAuthor`, `CodeToWorkflow`, `PhasedWorkflow` | bundled workflows, and the labs that are sequences of phases | instances in `Programs` |
| `Storefront`, `EvidenceIntake` | two labs | instances in `Programs` |
| `RunRecords`, `Codec` | the methods of the journal and their fold; values on their way through it | instances in `Programs` |
| `Programs` | any one of the fifteen above | composes them |
| `Ledger_proofs`, `ProviderOperation_proofs`, `ProviderResolution_proofs`, `SessionBinding_proofs`, `Budgets_proofs`, `Replay_proofs`, `ArtifactCapture_proofs`, `AppServer_proofs` | proofs | extend the module they are about |
| `MC...` | the small instances | |

Definitions whose comment begins with "Faulty:" are not part of any
specification.  Each is a plausible bug put in place of the definition after it,
and the property named beside it in `PROJECT.json` is then violated: it shows
that the property looks at the code it is meant to look at.

### Ledger and LedgerReader


`file` holds the complete lines with their end offsets, `tail` the pieces of an
incomplete last line, `synced` how many lines are on stable storage.  `view[p]`
is a process's cached `_RunState`: its records, whether a torn line followed,
`prefix_bytes`, `file_bytes` and the poison mark.  A line is written in pieces,
so a write can stop anywhere inside it; record contents are opaque.

`Acquire`, `Release` are the run lock, taken for one journal call.  `Load` and
`Loaded` are `_load` with its check of the file size.  `StartAppend` is
`_append_locked` up to the first system call: it numbers the record from the
cached state and decides whether the tail must be repaired.  `Truncate` and
`SyncTruncate` are `_repair_tail`; `Write` is one `os.write`; `FailWrite`,
`Confirm`, `FailConfirm` are the failure path, which looks at the bytes behind
the retained offset, completes or flushes them once more, and otherwise poisons
the writer.  `Sync` is the flush after which memory advances and the call
returns.  `Crash` may fall between any two of these; `PowerLoss` may drop what was
not flushed and leave any torn line, also one that had been cut off.
`Stat` and `ReadPiece` are `read_only_snapshot`: one stat, then a read that may be
overtaken by truncation and new lines at every piece.

Lines differ in width, as JSON does.  Two things follow: a torn tail can be as long as the
lines that replace it (a stale cache is then trusted; `ledger_stale_cache`), and longer than
the first of them (a reader then joins what it has of it to new bytes; `MisreadWasTorn` says
that only a reader whose boundary was torn can).  Two history variables name the moments: `misled` is set when
an append begins with a cached torn tail that is no longer the file's (`Misleading`), `wasTorn`
when a reader's stat fell inside a torn line.  No action looks at either.

### ProviderOperation and ProviderResolution

Durable: the operation's status `op`, its checkpoint `ck` (`empty`, `intent`,
response, aborting kinds of `provider_checkpoints.py`), the attempt rows `att`
(status, authorization, disposal, answer, ...), the owner of the binding `held`.
Outside the executor: the app-servers and, per attempt, its `turn` (not sent,
on the wire, running, completed, stopped), where it runs and whether it broke the
tool policy.  Volatile: the executor's place `pc`, the adapter it holds.

The actions follow `execute` in `operations.py` in order.  `Recovery` (`FromLedger`,
`StartServer`, `Relaunch`, `Read`, `ReadFails`, `Decide`) classifies the last attempt from
the ledger or from the native thread.  `Dispatch` (`Preflight` to `Send`, `Ack`) makes each
durable write an action of its own: intent, `prepare_attempt`, claim, disposal
pending, configured, bound, reserved, `turn_intent`, then `turn/start`.  `Waiting` is the
turn with its reader thread (`TurnEvent`, `FoulEvent`), deadline and teardown;
`Settling` is the recorded response, validation, owner disposal with its receipt, the
verdict and the release of the conversation.  `World` acts at any point: a `turn/start`
on the wire is accepted even after its writer died, a turn ends or breaks the
policy, a server exits, the executor dies, the program closes the client.

`ProviderResolution` adds `Botpipe.resolve`: `Select` records a choice, `ApplyFail`,
`ApplyRetry`, `ApplyAnswer` and `Reconcile` bring it about, `EnterResolved` is a resume that
finishes a recorded choice first.  It shares the executor's actions, so a choice
meets an operation in every state that crashes can leave it in.  `CleansUp` is the
code's `failed_provider_cleanup`, a failure repeated for the sake of its cleanup; `ruled`
remembers that the failure was the operator's, who may then repeat it.  `Persist` has
the ledger's refusal: an answer is not written to a row that has failed.  `LetGo` has the
owner's release fail and put incomplete evidence in place of a receipt.

### SessionBinding

`binding` is the file: thread, pending owner and its attempt.  `row[r]` is what the
ledger of run r holds about its call; `threads` counts the native threads.  `Check` is
`SessionBinding.check` with its comparison of file and foreign ledger, `Claim`,
`Advance`, `Settle`/`Release` are `claim`, `advance` and `finish`.  The settlement
record and the file are two actions with crashes in between, and every other run
may come in as soon as the session lock is free.  `StartFrom` is the thread a turn
resumes: that of the recorded request, if there is one, and only otherwise the file's.

### Budgets

`begun` is the operation a `provider_budget` block records, `budget` the state in the
ledger, `dispatches` the reservations in ledger order.  The process keeps only
`left`, the monotonic rest of each budget it has entered.  `Look` reads both clocks
without the lock, because the code evaluates `time.time()` and `_remaining_cap()` before
the journal takes it; `Observe`, `Snapshot`, `Reserve`, `ReserveRefused` act under the lock on
what was read.  `Breach` is the order of the checks, `RefuseFirst` the first budget, from
the outside inwards, that fails one.

### Replay

`ops`, `status`, `pending` and `selected` are the ledger: the operations by scope and
ordinal with their recorded call and outcome, the run's status, the open question,
and an operator's unfinished choice.  `frame` (one for each scope), `live`, `diverged` (the
sticky replay error) and `candidate` (a submitted answer) die with the process.  The
workflow is *any* deterministic program: `script` keeps what it was seen to do after a
given history of outcomes, and chooses freely where that has not come up; `Edit` replaces
it.  `Run`, `Answer`, `Crash` are executions; a call is matched with its record, or recorded
and executed; activities fail, are retried, are interrupted, or raise what cannot be
recorded; children and parallel groups open scopes of their own, and a group joins what
its branches came to; `assert_consumed` looks for leftovers; `Select` and its completion are
the operator's.  Values that are mappings know the order of their keys, because the
ledger sorts them.

### ArtifactCapture

`files` are the mutable sources; `response`, `approved`, `intent`, `blobs`, `manifest` and `result`
are durable; what a process has read (`data`), what is still to be done (`due`) and whether
it saw the turn end (`fresh`) are not.  Each source is read once, then the intent is
written, then each content is published as a blob, then the manifest, then the
operation completes; anybody may change a file and the process may die between any two.

### AppServer and AppServerSends

`srv` are the server processes with what was recorded of their teardown, `ad` the adapters
(one for each operation key) with their cleanup lock, `owner` the map with its lock
`olock`, `th` the threads: a worker for each key, a reader for each process and one thread
that closes the provider.  Locks are reentrant as in the code.  A server may answer, die
or stay silent at any point; a wait ends with the answer, with a failure, or at its
time limit.

`AppServer` sends in one step.  `AppServerSends` takes these steps apart: `sending` are the
threads whose message is not written, `writer` is the `_write_lock` of an adapter, `deaf` the
servers that have stopped to read.  `_send` has no time limit, so a thread that writes to a
full pipe waits there with every lock it holds, a worker in its dispatch, a reader in its reply
to the server, a teardown in its cleanup requests.  A server stops and begins to read
whenever it likes.  The messages of the handshake go into an empty pipe, which holds them;
cleanup requests are written once a thread may have been registered.

### Programs

Each program module has `pc` and one record `m`, so that `Programs` can run any of them
in the same two variables.  A file, a build or a review is a *version*, a number that is
never used twice, so that "what was checked" can be compared with "what is used".

| Module | What runs | What may come between | What is asked of it |
| --- | --- | --- | --- |
| `Trial` | `run_trial` with its worker process | callers die and call again, workers outlive them, code is edited, time passes | an outcome is of the code it names, is kept, and its time starts once; a result that a stray worker wrote, or a run that it created, is the exception that both name |
| `PairedEvaluation` | freeze, two arms, compare, validate | edits of every file, also by the evaluators | what is compared is what was frozen; what is accepted is still current |
| `RubricTrials` | trials of pairs, blinded judging in two orders, repairs | edits, deaths, the end of the time or turns | trials ran what was planned; an improvement needs every pair; begun trials are not written off |
| `CandidateImprovement` | copy, edit, validate, evaluate, review, revise | edits, deaths, an operator's retry | one candidate throughout; evaluated once |
| `Publication` | install, select and load a recommendation | two publishers, deaths, losses of power, edits | what is loaded was accepted; the receipt names what is there, but for a name that nobody has synced yet, and that is then absent |
| `Goal` | plan, work, verify, audit over runs | stops, resumes, also behind newer runs, edits of the goal | complete is earned, and undone only by a new goal or a run that goes by an older copy; tokens are kept; nothing is paid beyond the limit |
| `DevLoop` | plan, phases, reviews, repairs, audit, follow-up runs | repairs in the middle of phases | what is audited was verified; follow-ups are bounded |
| `WorkLoop` | plan, select, implement, complete | deaths at every step, edits of the list | the plan is worked on; completions are kept and published once; nothing is said of an end, since nothing bounds the refusals |
| `WorkflowAuthor` | build, test, review, hand off | the tests and others edit the candidate | what is handed off was tested; what is verified is current |
| `CodeToWorkflow` | distill, design, build, publish | deaths; every phase may throw the run back | what is published was built from what was accepted |
| `PhasedWorkflow` | ten workflows given as sequences of phases | phases that throw the run back over nested loops | what a phase reads is current |
| `Storefront` | pieces, packages, approvals, totals | humans who send pieces back | what is final is approved; rounds are asked for; totals agree |
| `EvidenceIntake` | capture of declared files under limits | files that grow, shrink and vanish; deaths | captures fit; the answer is what is kept |
| `RunRecords` | every method of the journal that appends | deaths between a file and its record | the ledger stays readable; references hold; what is settled is kept |
| `Codec` | encode, write, edit a class, read | edits of classes, members cached by the reader | what is read is what was recorded, or it is refused |

## 3. Runs

| Run | Instance | What it shows |
| --- | --- | --- |
| `ledger` | 2 processes, 2 payloads, lines of 4 pieces and of 1, 4 lines, 2 faults, one reader | until an append is misled: numbering without gaps; the protocol implements `DurableLog`; a reader misses nothing that was complete when it began, and misreads only if it began inside a torn line |
| `ledger_stale_cache` (violated) | the same | a cache validated by size alone lets a process cut off acknowledged lines |
| `provider` | 3 attempts, 3 servers, 2 faults, retry-safe, read-only | turns follow `ProviderTurns`; a live turn holds the conversation; recovery never calls a sent turn stopped; a recorded answer ends sending; the session is released after the recorded shutdown |
| `resolution` | 2 attempts, 2 servers, 1 fault, 2 choices, not retry-safe | one turn, and one more for each choice of the operator; an answer outlives every choice; choices only advance; no turn is sent under an unfinished choice; an operator who repeats a failure for its cleanup is never refused it |
| `session` | 3 interchangeable runs, 2 attempts, 3 threads, 2 crashes | unsettled work owns the conversation; a call is refused only for unsettled work or a rejected retry; the file names the thread of the latest settlement; a call settled by its first attempt goes on with the thread before it |
| `budgets` | 2 branches, one in a nested budget, limits 2 and 1 turns and 2 seconds, 1 crash, 1 clock setting | `Allowance` is implemented, across a crash too; refusals are justified; durations start once |
| `budgets_clock` (violated) | the same without crash and clock setting | a branch is refused for a clock that nobody set back |
| `replay` | 2 operations of the root, 1 of each sub-scope, groups of 2 branches, 1 retry, 3 operations in all, 3 executions, 2 faults | a deterministic program is never told that it changed; what it saw is on record; effects happen once or with authority; a diverged run stops; a question stays open until its answer is final; the outcome is that of the history |
| `replay_order` (violated) | two values that are one mapping in two orders, 2 executions, 1 fault | a program that goes by the order of a result is told that it changed |
| `artifacts` | 2 outputs, one required, 3 contents, one of them invalid, 3 crashes, 3 changes | manifests are backed by blobs; nothing is adopted after a crash; approvals are usable |
| `appserver` | four instances, below | no server behind a close; one server for an operation; quiet when stopped; a turn is lost only with its server; every call returns and the close ends, if no server that lives on stops reading for good |
| `programs` | one program in each behavior, bounds below | the last column of the table above, and that every program that has a limit ends or waits for a human |

**Why the bounds are enough.**  A ledger fault needs a torn line, its repair and two
appends behind it: four lines and two faults hold this with a crash in the middle of the
repair; a fifth line repeats the third.  `MixedWidth` makes one
record four pieces long and the others one: a torn record of three pieces is then as long
as three lines and longer than the line that reports its repair.  For an operation, the first attempt can be
uncertain, the second one started by recovery and the third one forbidden or allowed by
it; more attempts repeat the second.  Three servers are one for each attempt, or one for an
attempt and two for recoveries of it.  Two faults allow a crash in a recovery from a crash.
Three runs at a conversation are an owner, a run that takes over and one that
comes in between.  One second limit and one clock setting suffice for budgets since only
the order of readings matters; two turns in the outer and one in the inner budget
separate the two limits.  A replay needs an execution that records, one that replays and
goes further, and one that replays that; two branches are enough to be told of each
other's divergence.  A capture needs a crash before the intent, one between the blobs
and one in the recovery from it.  The instances of `appserver` are alternative bounds, since
together they repeat each other: a worker that calls twice through two adapters; one
that calls twice through two servers of one adapter under a fault, which a late reader of the
first one needs; one whose server fails while the provider closes; and two workers that
contend for the lock of the owners.  Its safety properties are proved for all sizes.  The programs have
one more round, item, phase or publisher than it takes to be sent back, to be one of
several or to be raced, and one death or edit at any point (two deaths for a work
list, whose recovery has a window of its own).

**Bounds in the guards.**  `MaxLines`, `MaxFaults` (Ledger), `MaxAttempt`, `MaxServer`, `MaxFaults`
(ProviderOperation), `MaxChoice` (ProviderResolution), `MaxThread`, `MaxAttempt`, `MaxCrash`
(SessionBinding), `MaxTime`, `MaxSets`, `MaxCrashes` (Budgets), `MaxRoot`, `MaxSub`, `MaxGroup`,
`MaxExec`, `MaxFault` (Replay), `MaxCrash`, `MaxChange` (ArtifactCapture),
`MaxServer`, `MaxAdapter` and the record `bound` (AppServer), and in the programs every constant that its module marks as a bound.  None of
those exists in the code; the other constants (`Limit`, `Retries`, `MaxRevision`, `MaxRound`,
`MaxTurn` of phases, `MaxFiles`, `MaxDepth` and so on) are the code's own limits, made small.
`Programs` gives the values: trials 1 edit, 1 death, 3 calls; goal 2 runs, 1 stop, 2 tokens,
resumed behind a newer run where it stopped in planning or audit;
rubric 2 pairs, 4 units of time, 3 turns; improvement 1 revision; phases 7 turns;
development loop 2 phases, 12 turns, depth 1; storefront 2 rounds; publication 2
publishers, 2 calls, 1 fault; intake 3 files; author 2 rounds, 6 turns; work list 2 items, 2
refusals (the code has no such limit), 2 deaths; records 2 operations, 1 attempt, 1 turn; codec depth 3, 9 values, 1 edit;
recreation 2 behaviors, 10 turns, 1 death.

**Deadlock.**  The `ledger` runs check it: a process can always take or leave the lock.
The other systems may stop: an operation is completed, a conversation has no further
calls, a budget is used up, a program has ended; their configurations say
`CHECK_DEADLOCK FALSE`.  That nothing waits for ever in `AppServer` and in the programs is the
business of `EveryCallReturns` and `EveryProgramRests`.

**Fairness.**  `AppServer` and `AppServerSends`: weak fairness of every worker, of every reader
and of the closing thread; they are threads, and each takes its next step.  Servers are not
fair, they may stay silent for ever: a *wait* for an answer has a deadline in the
code (`request.deadline`, the teardown and disposal timeouts), so its end is a step of the
waiting thread.  A *write* has none, so `Send` is a step of its own, which is not
enabled while the pipe is full or another thread writes.  It is strongly fair: a pipe that is
emptied again and again takes the message in the end.  That it is emptied is not
assumed but said: `EveryCallReturns` is about behaviors in which no server that lives on stops
reading for good; without that condition TLC finds a worker that stays in its write.  A thread that waits
for a lock is not enabled, so weak fairness does not promise it the lock: the property says
that it gets it because every holder lets go.

`Programs`: weak fairness of `Step`, which leaves out edits, deaths and
what other processes do, and of `Clock`: the code's loops take their next step when
the operation before it returns, and time passes.  The development loop, the work loop, the
recreation of a codebase and the records are not part of `EveryProgramRests`: nothing in the code
bounds the first three, whose reviewers may refuse for ever (`ralph_loop/workflow.py:78`, `100`),
and the last is called by others.  `ProviderOperation` states
`WF(Work)` and makes no liveness claim in a run.  The other modules claim none.

**Symmetry** (processes in `ledger`, runs in `session`) is used only with safety properties.

## 4. Proofs

All theorems hold for every value of the constants that satisfies the named assumptions.

*Ledger_proofs.*  Lines of any widths (`WidthAssumption`: a line has at least one piece), any
processes, records and faults.  What cannot be proved is what is not so: an append that
begins with a cached torn tail which is no longer the file's may cut off acknowledged lines
(`ledger_stale_cache`).  The history variable `misled` marks that append, and the theorems say
that there is no other way: until it happens, everything holds.  The inductive invariant is
`UntilMisled`, that is, `IInv` as long as nothing was misled; there is no hypothesis
on behaviors, and `misled` is never taken back (`MisledStays`).  `Lined` says that a line ends its width
behind the line before, so that ends increase and an offset tells the number of
lines; `Views` that *every* cached state, stale ones included, is a prefix of the file that
knows where its lines end and whether more was there; `HolderReady` and `Appending` that what
the holder is writing continues the file.  The core of the argument is `LoadedIsCurrent`: a cache of the
file's size without a torn tail ends where the file's lines end, hence has all of them.
Proved: `LedgerTypes`, `LedgerNumbering`, `AcknowledgedSurvives`,
`MemoryFollowsDisk`, and `LedgerRefinesDurableLog`, the refinement of `DurableLog`.
The lock-free reader has an invariant of its own on top of that one, `ReadUntilMisled`.  Its read may be
overtaken at every piece, so what it has buffered need not be the file any more.  `Reading`
follows it: up to the lines that were complete at its `Stat` it reads exactly these (nothing ever cuts
off a complete line), and if its boundary is the end of one it stops there.  Behind
them it goes on only if the boundary was inside a torn line, and only there it can misread.  Proved of
`SpecReader`: `MisreadNeedsTornTail` and `ReadersSeeCommitted`.  The condition of the first
is needed: without it TLC finds a misread in the `ledger` instance.

*SessionBinding_proofs.*  The invariant has the type invariant, and: an executor inside
the critical section holds the lock, the owner has an attempt, nobody is between claim and
settlement without being the owner, a claim is still the file's, settlement precedes
release, retry counters stay in bounds, and unsettled work owns.  Proved: `TypeCorrect`,
`UnsettledWorkOwns` (hence at most one run has unsettled work on a conversation).

*Budgets_proofs.*  `Charges`: a budget's counter is the number of reservations it encloses,
within its limit, and branches look only at budgets that were created.  `InTime`: record,
process and every pending reading leave no less time than the deadline does; it
holds while nobody sets the wall clock, and is proved for every step but `SetClock`.
Proved: `BudgetTypes`, `ChargesExact`, `TurnsBounded`, `RefusalsJustified`, `DurationHeld` and
`BudgetsRefineAllowance`.

The second half of *SessionBinding_proofs* continues from its invariant with three more parts.  `Path` says
what a call's place and status tell about its records: it settles its latest attempt
and not before it is over, what reached a server was started, a bound turn has a
thread.  `Placed` ties the file to them: the owner's attempt is not beyond the call's, and
an attempt that is claimed, started or answered and not settled is the one in the file.
`Kept` generalises `FileNamesLastSettled` to the moments when somebody owns the file: the thread
of the latest settled call is in the file, or in the settlement of the owner, or an
owner that may still answer has a thread.  `FileNamesLastSettled` alone is not inductive,
since a step that releases the file copies what the settlement says.  Proved:
`FileFollowsSettlements` and `RefusalsAreJustified`.

*ArtifactCapture_proofs.*  Assumption (`CaptureAssumption`): absent files, files and intents are told apart from
each other, and required outputs are among the declared ones.
`Reading` says that what a process has read could be recorded, `Taken` that it is what the
intent will say, `Publishing` that what it has passed while publishing is a blob, `Backed`
that a manifest names what the blobs hold, and a fresh process saw its turn end.  They
are needed together: a manifest is backed because everything due was published, and
that a thing was published is known only from where the process is.  Proved:
`CaptureTypes`, `ManifestsAreBacked`, `NothingIsAdopted`, `ApprovalsAreUsable`.

*ProviderOperation_proofs.*  Assumptions: at least one attempt and one server (`BoundAssumption`),
flags that are Boolean (`FlagAssumption`).  None of the safety properties is inductive: that
a live turn is owned depends on what every durable write before `turn/start` has left, also the
writes of an executor that died between any two of them.  The invariant says it in parts, and
the first group of them, `Core`, holds however retries come about.
`Truth` is what the record of an attempt says of its turn (a turn that was sent was
authorised, one recorded as failed cannot act any more, an answer is of a completed turn);
`Blank` says that the attempts behind the one the checkpoint names have no record yet;
`Checked` what a checkpoint of each kind has behind it, `Place` which row, checkpoint and attempt the
executor has at each of its places, `Turn` what it knows of the turn there, `Stage` how far the
attempt's record is.  The rest holds because only recovery causes retries: `Order` (the attempts before
the checkpoint's neither act nor have answered), `Kept` (a retry marker has a stopped record behind
it), `Reached` (what recovery found, and that nothing acts when a verdict falls), `Shut` (settlement and
release follow the recorded shutdown).  One lemma for each part, and under it a case for each
action that can disturb it.  Proved: `TypesHold`, `LiveTurnsAreOwned`,
`RecoveryIsSound`, `AnswersAreNotRepeated`, `ReleaseFollowsShutdown`, and `ImplementsTurns`, the
refinement of `ProviderTurns`: every step sends, answers, stops or settles a turn
as that specification allows, or changes nothing it sees.

*ProviderResolution_proofs.*  The same assumptions, and `ChoiceAssumption`.  An operator may retry an
attempt whose fate is unknown, so `Order`, `Kept` and `Reached` are false here, while
`Core` stands: `CoreStep` is used for the operation's own steps, and `ResolvingCore` shows it for the
steps of a resolution, which write only what became of a server into a record and only end
turns.  In place of the others: `Waived` (an attempt the checkpoint has left behind acts only if it was waived,
and has no clean answer), `Choosing` (where a resolution may be, that nothing else runs while a
choice is recorded, and that an answered checkpoint is never retried), `Known` (what recovery
established about the attempt in hand, up to the step that uses it: not answered, and not acting or
waived) and `Counted` (without `retry_safe` the checkpoint's number is paid for by choices).  `Known` is
the part that a test would hardly reach: between the recovery and the retry that relies on it lie the
recorded choice, the settlement of the owner and any number of crashes, and a resume that continues a
recorded choice recovers again.  A failed row that refuses an answer (`Persist`) changes nothing but the executor's place, and what a
release that fails writes over a receipt (`LetGo`) is a record of the server, which `Core`
allows.  TLC checked this invariant on the `resolution` instance before it
was proved.  Proved: `SecondTurnsAreWaived`, `AnswersOutliveChoices`, `ChoicesAdvance`, `ChoicesSendNothing`.

*AppServer_proofs.*  Any sets of keys, servers and adapters; assumptions `SizeAssumption`,
`BoundsAssumption` (the bounds are of their types) and `ThreadAssumption` (workers, readers and the
closing thread have different names).  `Control` says where a thread of each kind can be, `Locked`
which lock it holds at each place, `Teardown` what it has found out about the process it is
killing; `Work` and `Turn` tie a worker to its adapter and to its waiting request, `Reading` a
reader to its process, `Process` and `Adapted` a process to what was recorded of its
teardown and an adapter to its process.  `Single` gives an operation one adapter, `Closing` says
which owners the closing thread still has before it.  The properties hold because a step that
takes a process or an owner away needs a lock, and every thread that relied on it holds
that lock or looks again.  A step changes the records of one thread, one process and one adapter:
what it does to those is shown part by part, and frame lemmas carry every part of all
others over.  Proved: `TypesHold`, `CloseIsFinal`, `OneLiveServer`, `StoppedIsQuiet`, `LossIsOwn`.
`SendsOnlyDelay` says that `AppServerSends`, seen through the variables of `AppServer`, only does what
`AppServer` allows, so that these hold behind every blocked send as well.

*Replay_proofs.*  Any deterministic workflow, any number of operations, branches, retries,
executions and faults.  Assumptions: `SizeAssumption`, `CallAssumption` (sub-scopes make activities and
questions), `NoneAssumption`, and `StoredAssumption`: a recorded result, read again, is recorded as the
same.  `Core` has the frames and records well formed, branches only while the root
waits for their group, and an executing scope's record unfinished and of the call it makes.
On it rest separate invariants, none of which is inductive without `Core`: `DInv` (what a scope
may still do after a divergence, what a finished one has consumed), `QInv` (an open
question), `FInv` (effects, an execution under way and an unused authorisation together are at most
one more than the operator granted), `AInv` (a validated answer is what its record will hold) and
`KInv`.  The last one is the meaning of replay: for every scope there is a chain of what the program
knows before each ordinal, such that record n is of the call the program makes there,
and the outcome of record n gives the next entry; a running scope stands on that
chain.  It is a statement about the whole recorded history, so no induction over its
length is needed: an action either appends the next entry or leaves the chain alone.  Finished records
never change, which is a lemma of its own.  Proved: `WellFormed`, `DivergenceIsFinal`, `ReportsAreTrue`,
`QuestionsStayOpen`, `EffectsStayAuthorised`, `AnswersAreFinal`, and under the hypothesis `InOrder`
`ReplayGivesTheSame` and `UneditedRunsNeverDiverge`.  `InOrder` says that the ledger returns a result in the order it
was given; the hypothesis is needed, and `replay_order` shows what happens without it.

**Only model-checked:** all programs (`AcceptedIsWhatWasChecked`, `ReplayedAsRecorded` and the other properties of
`Programs`) and the liveness properties; of the other modules, every safety property that holds
is proved but `FirstAttemptsContinue` and `CleanupIsNotRefused`.  Three things are
beyond the proof system and stay with TLC: liveness (`EveryCallReturns`, `EveryProgramRests`),
what `ENABLED` says, and induction over data, so that what the codec's contracts mean for a value
of any depth is checked up to the bounds only.  The properties of the programs are stated over all of them
at once in `Programs`, and one of them, `Codec`, needs a recursive operator, which the provers do
not take.

## 5. Disagreements between code and documentation

Three are runs whose property is violated; `PROJECT.json` quotes the sentences.

| Run | What the code does |
| --- | --- |
| `ledger_stale_cache` | a cached ledger state is trusted by its size only; a stale one cuts off acknowledged lines (`journal.py:651`) |
| `budgets_clock` | branches that share a budget refuse each other for a clock that nobody moved (`budgets.py:161`) |
| `replay_order` | a program that goes by the order of the keys of a recorded result is told, after a resume, that it changed (`journal.py:117`) |

The next ones have no run of their own.  The models do what the code does, and the property
named here says exactly where it departs from the document: it would be violated without
the exception, and says what holds beside it.

| Where | What the code does | Stated in |
| --- | --- | --- |
| `journal.py:609`, against `docs/architecture.md:61` | a reader without the lock that began inside a torn line joins it to the bytes written after its repair, and calls a healthy ledger corrupt | `MisreadWasTorn` |
| `operations.py:519`, against `docs/architecture.md:125` | a retry resumes the thread of its recorded request and not the session's; what another run said in between is lost to later calls | `FirstAttemptsContinue` |
| `runtime.py:1995`, `journal.py:1068`, against `docs/requirements/readable-history.md:282` and what `tests/test_session_bindings.py:429` tries for an interrupted turn | a choice to fail an operation that has an answer cannot be finished once its process died behind the failed row | `CleanupIsNotRefused` |
| `codex_appserver.py:1051`, against `docs/sdk.md:172` | a message is written to a server without a time limit; one that stops reading holds its caller, and whoever tears it down, for ever | `EveryCallReturns` |
| `flow.py:518`, `197` | a run that is resumed behind a newer one saves its own older copy over a completed goal | `CompletedStays` |
| `trials.py:172`, `243`, against `docs/optimizer.md:124` | a stray worker of a dead caller replaces `worker-result.json` after the check of its code | `OutcomeIsOfItsCode` |
| `trials.py:159`, `227`, `232`, against `docs/optimizer.md:132` | a stray worker creates the run after the time of the trial was given back; its time starts twice | `TimeStartsOnce` |
| `recommendations.py:819`, against its docstring (808) | a publication found in place is acknowledged though nobody flushed its name | `ReceiptNamesAll` |
| `codec.py:1204`, against `docs/architecture.md:57` | a mapping with keys that are not text is refused | `ReadAsRecorded` |

The following were met while the models were written.  They are in the models as the
code has them (the properties above are stated so that they hold with them), but
no property is about them.

- *Operations and sessions.*  The app-server of an executor that died survives when only
  its answer is recovered, and the session is released (`codex_appserver.py:1709`;
  `docs/architecture.md:164` has the parent's exit confirmed first).  A tool violation seen
  while a turn is being stopped is lost on resume, and its answer is adopted
  (`providers.py:381`; `docs/sdk.md:139`).  A retry that is rejected at preflight leaves the claim of the attempt before it, which
  nobody can settle (`operations.py:1012`); the message of `session_bindings.py:221` then names
  an "unfinished" run that has ended.  `Stranded` is that case.
- *App-servers.*  A server that dies during `initialize` wakes its waiter only by the time
  limit (`codex_appserver.py:781`, `800`).  Closing an owner whose server exited by itself
  never reports success.
- *Run records.*  A `response.md` that a death has left without its record refuses every other
  answer of its attempt, a supplied one too (`journal.py:1268`; `docs/architecture.md:48`, `159`);
  the request of an attempt is cleared for the same reason (`journal.py:1213`).  A creation that died leaves a run folder, and that run id is refused from then on.
  `reserve_budgets` relies on its caller (`operations.py:746`) for the attempt to be prepared, `begin`
  on `runtime.py:1017` for the ordinal to be free.
- *Codec.*  A model with `extra="allow"` whose extra has the name of an aliased field, or a
  made-up flag member with the name of a declared one, is recorded and refused on
  every read; contracts with more than about 48 nested generics too.  A change of a flag
  class's boundary or of `Annotated` metadata is not noticed.  A lone surrogate passes the
  codec and fails in the journal's write.
- *Goal.*  `max_goal_turns` counts only verification turns; planning and final audit are
  bounded by tokens only.  "Complete" is accepted even from the turn that passed the
  limit.  Tokens of a turn that failed between two saves are not charged.
- *Development loop.*  The repair of a phase item may rewrite the criteria of a completed
  phase; a blocked review leaves the candidate it did not accept in `phase_plan.json`.
- *Recreation of a codebase.*  The publication validates the live files and not the
  captured ones; only the first new design hears a build's reason for a redesign; a
  later duplicate of a coverage entry wins; a run cannot be resumed behind its design
  review, for the order of keys (`replay_order`).
- *Optimizer.*  The frozen specification of an evaluation is looked at again only
  at freezing and replay.  A paired evaluation whose result was lost and whose
  attempt is not retried stays uncertain for ever, by design.
- *Labs.*  Recovered files of an intake do not count for `max_total_bytes`.  The recordings of
  a storefront are shared by its attempts, its scripts may change after the recording,
  and `totals.json` is loaded and saved without a lock.

## 6. Assumptions and what is left out

Assumed of the world: the native thread's history is what happened, a server delivers
events in order, locks are freed when their holder dies, a flush that returned is durable,
a rename is atomic, digests do not collide.

Left out inside the modules:

- `ProviderOperation`: output repairs (`output_retries > 0`), failing ledger writes (`Ledger` has
  them).  `ProviderResolution` starts from an operation with a request: an operator's retry
  of an empty checkpoint, which `provider_checkpoints.py:398` refuses, is not there.
- `SessionBinding`: operator retries and deleted run directories.
- `Budgets`: providers without `supports_timeout`, `turn_timeout_seconds`.
- `SessionBinding` and `Budgets` are not composed.  A reservation that is refused after the
  claim (`budgets.py:162`) is in `SessionBinding` as `GiveUp` from `reserve`, with the claim
  staying; that every later resume is refused again is not stated.
- `Replay`: limits raised at a resume, the preflight of contracts, hashes of code identity.
- `ArtifactCapture`: directories as artifacts, the details of links and modes.
- `Codec`: the contracts' own size limits, hand-edited records, alias members of flags.
- `CodeToWorkflow`: source manifest, trace corpus and discovery.
- Programs: prompts, rendering, and the checks of a document's fields, which are a choice
  between accepted and refused.

### Not modelled

- Read projection and inspection: folds of a snapshot; the snapshot itself is `LedgerReader`.
- Provenance and code identity: hashing of source text.
- Discovery, configuration, policy, capabilities, prompts, models, limits, command line:
  parsing and declarations without state between calls.
- Provider adapters and the sessions API: declarations; what a call does with them is in
  `ProviderOperation`, `SessionBinding` and `AppServer`.
- Asynchronous calls (`_async_call`, `aparallel`): a task that waits for the thread of a call; a
  cancelled task returns when its thread does (`runtime.py:602`), and the thread is `Replay`.
- Content checks of documents; the optimizer's records and evidence, which are folds of
  files that do not change.
- `image_to_game`: questions and one loop in front of the goal workflow.
- Packaging, benchmarks and tests.

## 7. Plan

Done: `Ledger`, `DurableLog`, `LedgerReader` (proved for lines of any widths);
`ProviderOperation`, `ProviderTurns`, `ProviderResolution` (proved); `SessionBinding`,
`Budgets`, `Allowance`, `Replay`, `ArtifactCapture` (all their properties proved); `AppServer` (safety
proved) and `AppServerSends` (liveness checked); the run records, the codec, work lists, workflows,
optimizer and labs as `Programs` (checked).

Left, in this order:

1. Properties of single programs stated in modules that do not reach `Codec`, so that they can be proved:
   publication, trials and the goal workflow first.
2. `FirstAttemptsContinue` and `CleanupIsNotRefused`, which are only checked.
3. `SessionBinding` and `Budgets` composed, for the reservation that is refused after a claim.
4. `ProviderResolution` from an operation whose checkpoint is still empty.
5. Output repairs in `ProviderOperation`.
6. `image_to_game`.
