# elasticctl in TLA+

`elasticctl` keeps Elastic Security detection content (rules, exception lists,
data views, dashboards, Fleet policies) in files and moves it between a working
tree, the *mirror*, and a running stack; it edits single objects of the stack
behind a preview, and serves read-only tools over MCP. Its `cargo xtask record`
drives a live stack to record the fixtures of the tests. Paths below are relative
to `src/crates/`, those of `xtask` and `docs` to `src/`.

## 1. Inventory

| Component | State it keeps | Operations | Interacts with | What is hard | Module |
|---|---|---|---|---|---|
| State pull transaction (`elasticctl-api/src/state/transaction.rs`, `pull.rs`) | mirror files, sibling lock, transaction directory (staged bytes, backups, journal) | acquire, recover, stage, replace, remove | the operator's editor and git; other pulls; diff/push read the mirror | kills between two renames, failing fsyncs, non-atomic removal, edits without the lock | `PullTransaction` |
| Report transaction (`elasticctl-cli/src/report_file.rs`) | report file, lock, transaction directory, journal with recovery phases | prepare (before the confirmation), publish (after the apply), recover | `state push --report` | a crash during recovery itself, the report against the mutation it describes | `ReportTransaction` |
| State diff and push (`state/push.rs`, `diff.rs`, `mirror.rs`) | the plan | read mirror, fetch, plan, apply containers, items, rules | stack, mirror, guard, report | stale plans, partial application, stop-on-failure order, reading a mirror that is being replaced | `StatePush` |
| Integration policies (`fleet/integration_policy_ops.rs`) | plan, expected parents, expected packages | plan, apply import, apply delete | stack | recheck before each write, snapshots advanced after each write, shared parents and packages | `IntegrationPolicies` |
| MCP server (`elasticctl-mcp/src/server.rs`) | permits, gate, session | initialize, admit, run, cancel, time out, shut down | client, tools | completion against deadline against cancellation; permits at the limit | `McpSession` |
| MCP framing (`bounded_io.rs`) | partial line, writer | read a frame, write a frame | server, client | a client that stops reading; CR and limit across chunks | `McpSession` (the writer and the end of the input) |
| MCP tools (`elasticctl-mcp/src/tools/`) | none | read-only calls | API | gated tools, retries under a deadline | `McpSession` (their requests) |
| Transport, capability probe (`elasticctl-core/src/transport.rs`, `capabilities.rs`) | memoised capabilities | one-shot and retried requests, probe, require | the stack | a write that happened, answered 5xx and is sent again; concurrent first use of the probe | `GuardedCommand`, `McpSession` |
| Guarded mutations (`elasticctl-cli/src/guard.rs`) | none | preview, confirm, apply, report | every mutating command | time between preview and apply | `GuardedCommand`, `ConfirmedRun` |
| Data views (`data_views_ops.rs`) | plan | import, delete, reference swap, default | stack | several requests, each of which may fail; the default moves as well | `DataViews` |
| Dashboards, saved objects (`dashboards_ops.rs`, `saved_objects.rs`) | plan | import, delete, bundle | stack | lossy writes found after the write | `Dashboards` |
| Agent policies (`fleet/agent_policy_ops.rs`) | plan, expected package | import, delete | stack | names, agents and the monitoring package change behind the preview | `AgentPolicies` |
| Cases and alerts (`cases_ops.rs`, `alerts_ops.rs`) | plan | status, comments, attachments, creates, deletes, tags, assignment | stack | versions, partial bulk results, posts sent twice | `Triage` |
| Rules, selection, exceptions (`ops.rs`, `rules_ops.rs`, `selection.rs`, `exceptions.rs`) | plan | enable, delete, import, prebuilt, list imports and deletes | stack | bulk answers that say less than happened | `Detection` |
| Paged reads (`rules.rs`, `exceptions.rs`, `cases_ops.rs`, `dashboards.rs`, `fleet/`, `search/`) | pages so far; a point in time or an async query on the stack | page loops, polls, closes | stack | the collection changes between two pages; what is opened must be closed | `PagedReads` |
| Recorder (`xtask/src/main.rs`) | `CleanupOwnership`: owned ids, default lease, nonce | record a session, clean up, write the fixtures | a live stack, other recorders | any of a hundred requests fails or loses its answer; cleanup must neither leave nor take too much | `Recorder` |
| Configuration, codec, normalisation, adapters' output | none | pure functions | all | precedence, lossless round trips | - |
| Conformance and release tooling (`xtask`) | - | compare fixtures and matrices | - | not part of the program | - |

`PROJECT.json` lists the same components with their status and, under `hazards`,
each hard behaviour at its line.

## 2. Plan

Done: `PullTransaction`, `ReportTransaction`, `StatePush`, `IntegrationPolicies`,
`McpSession` and `Recorder`, each with its inductive invariant and every safety
property of its runs proved; the guarded commands (`DataViews`, `Dashboards`, `AgentPolicies`, `Triage`,
`Detection`, `PagedReads`) over `GuardedCommand`, composed by `Commands`, with their
inductive invariant, the truth of a successful exit, what paged reads do not lose, and
the safety part of the refinement of `ConfirmedRun` proved command by command.

To come, in this order:

1. an abstract store that switches the view of a file only at a commit, which
   `PullTransaction` implements;
2. framing (`bounded_io.rs`) as a function of chunks, against a reference;
   configuration precedence as a function of its sources.

## 3. The pull transaction

`PullTransaction.tla` models one mirror and the processes that run
`state pull` on it.

| State | Code |
|---|---|
| `target[f]` | bytes at a mirror path: a pulled version (a number), `Absent`, or `Edited` by the operator |
| `txn`, `staged`, `backup[f]` | `.elasticctl-pull-txn/`, its `staged/<n>` and `backups/<n>` |
| `jrn`, `tail`, `entries`, `existed`, `phase[f]` | `journal.ndjson`: no whole manifest, whole, or unreadable; a torn last record; the manifest; the phase each entry has reached |
| `lock` | the sibling lock file, released by the kernel when a process dies |
| `pc[p]`, `mode[p]`, `todo[p]`, `sub[p]`, `failed` | where process `p` is, why it is in recovery or removal, the entries its loop has left, what it is half way through, and `first_error` |
| `before`, `ver`, `touched`, `gone`, `cut`, `put`, `outcome` | history: the validated mirror, the version being installed, files edited since, backups a commit discarded under a live journal, whether that commit was interrupted, files renamed into place, the result returned |

Actions are the code's steps: `Acquire` / `LockHeld`, `FetchFails`, `Begin`,
`Stage`, `WriteManifest`, and per entry `AppendPhase`, `BackUp`, `CheckTarget`,
`Install`; then `ReplacedAll` and `Cleanup` (children of the directory in any
order, as `remove_dir_all` may); `Recover`, `Undo`, `UndoDone`, `CleanupFails`.
Each file operation may fail before or after taking effect (`Fault`), a process
may die anywhere (`Crash`), the operator may edit anything (`OperatorEdits`).
The bytes of a file are abstracted to their version, a partly written staged
file to one that is staged or not (nothing reads it before the manifest), and
path validation, symlinks and the remote reads to `FetchFails`.
Every mutation is fsynced before the next, so a power failure is a `Crash`.

### Properties and runs

`TypeOK` (with it that a process is at work exactly while it holds the lock);
`AtomicUnlessCut` (all planned files replaced or none, unless a commit
was cut short while discarding backups); `NoLoss` (previous bytes are in place or
backed up); `ViewMovesOnlyAtCommit` (what the next recovery
would leave changes only in a commit's removal, and only to the new bytes);
`ReportedOutcomeIsTrue`; `TransactionIsRemoved` (a transaction left behind is
removed by the pulls that follow). Files the operator touched during the
transaction are excluded from the content claims: the code cannot know them.

| Run | Bounds | Shows |
|---|---|---|
| `pull_safety` | 2 files, 2 interchangeable processes, 2 pulls, 1 failing operation, 1 kill, 1 edit | the safety properties. Two files are needed for a mix of old and new; two processes for a lock freed by a kill; a failure and a kill for a rollback that is itself interrupted |
| `pull_retry` | 2 files, 1 process, same budgets | `TransactionIsRemoved` |
| `pull_all_or_nothing` | 2 files, one kill | `AllOrNothing` is violated: the removal of a committed transaction is not atomic (finding 1) |

Fairness: `RetriedSpec` assumes that a running process keeps running
(`WF(Step(p))`: the code is sequential and never waits) and that somebody runs
`state pull` again (`WF(Acquire(p))`). Faults and kills are bounded, so
eventually they stop; nothing assumes the transaction is ever retried in a
particular state.

### Findings

1. `remove_transaction` commits with `fs::remove_dir_all`. Stopped after a backup
   and before `journal.ndjson`, the next recovery restores the other backups and
   deletes new files: the mirror is neither the old state nor the new one
   (`docs/specs/elasticctl-design.md:475`).
Not a run of its own, but visible in the model: `recover_one` takes a missing
staged file for proof of an install. After an interrupted removal of a rolled-back
transaction the proof is wrong, and the next recovery may delete an operator's file.

### Proofs

`PullTransactionInv.tla` defines the inductive invariant `IInv`, which
`PullTransactionProofs.tla` proves for any number of
files, processes, pulls, failures, kills and edits. The assumptions are those of
the module: files are numbered by an injection, the contents `Absent` and `Edited`
are not versions, the bounds are naturals. No safety property is inductive
alone: that a rollback ends with the old bytes depends on the backup of an entry
whose journal record is one step behind the disk. The parts of `IInv`:

| Part | Says |
|---|---|
| `LockInv` | a process is away from idle exactly when it holds the lock |
| `DiskInv` | what exists without a transaction; the journal is never unreadable; which entries have staged files and backups |
| `BackupInv` | a backup holds the bytes the file had before; without one the path holds the old or the new bytes |
| `DecidedInv` | without a whole journal the outcome is decided: all new, or all old, or a commit was cut short |
| `UndoableInv` | with a whole journal, undoing leads back to the old mirror unless a commit has begun to discard backups |
| `CutInv` | by then no staged file is left |
| `StageInv`, `ReplaceInv` (with `EntryInv`) | how far a running replacement has come: the entries its loop has passed, those ahead, and the one at hand |
| `UndoInv`, `CleanupInv` | entries whose rollback is done need no more undoing; a removal that commits finds every file new |

Every action has a lemma that preserves `IInv`; `InvariantHolds` puts them
together. From it follow `NothingIsLost`, `JournalStaysReadable`,
`AtomicReplacement` (invariants) and `CommitIsTheOnlySwitch` and `OutcomeIsTrue`
(action properties, from `IInv` on both sides of a step). The types of the variables are
the lemma `PullTypes` of the same module, the Boolean flags apart from the others;
`TypeCorrect` adds `LockInv` to it. `TransactionIsRemoved` is a liveness property and
stays with TLC, as does the violation.

## 4. The report transaction

`ReportTransaction.tla` models the processes that run `state push --report` on
one destination: the whole of `report_file.rs` and its place in `cmd/state.rs`.

| State | Code |
|---|---|
| `target` | the destination: `Absent`, a report (`DryRun(n)` or `Applied(n)` of push `n`), or `Edited` by the operator |
| `txn`, `staged`, `backup`, `original` | the sibling transaction directory and its three files |
| `jrn`, `tail`, `existed`, `phase` | `journal.ndjson`: readable or not, a torn last record, `existed_before`, the last whole record |
| `lock`, `pc[p]`, `mode[p]` | the lock, the step of each push, and whether a recovery or removal starts a push, follows a failure or commits |
| `remote` | the last push that wrote to the stack |
| `before`, `ver`, `touched`, `committed`, `cut`, `outcome` | history: the destination at preflight, the push, edits since, whether the removal of an installed report began, whether one was interrupted, the result returned |

The journal differs from the pull's in one respect: recovery appends to it.
`Restoring` is written before the backup moves back and `Restored` after, so an
interrupted recovery can be told from an interrupted publication. `Recovery` is the
decision the code takes from the phase, the backup, the staged file and the saved
original bytes; `Unreplace`, `Restore`, `Finish` and the two appends carry it out.
An append that fails, or whose process is killed, may leave nothing, a part of the
record or all of it. The remote plan is one action, `Apply`: what it does to the
stack is another module's subject.

| Run | Bounds | Shows |
|---|---|---|
| `report` | 2 processes, 2 pushes, 1 failure, 1 kill, 1 edit | all of the properties below. Two pushes are needed for one to recover another; a failure and a kill interrupt a publication and then its recovery |

`NoLoss`: the previous report is in place or can be put back. `AllOrNothing`: a push
leaves the new report or the old one. `AppliesAreReported`: the stack is written
only with a journal and a staged report on disk, and a push that reports success has
its applied report in place. `RefusalIsExplained`: recovery refuses what an earlier
push left only after the operator touched the destination, a removal was cut short
or a record was appended behind a torn one. `RemovedOrRefused`: the pushes that
follow remove a transaction or refuse it.

Fairness is that of the pull: a running push goes on, and somebody pushes again.

### Observed limits

The properties are stated so that they hold; three things they leave room for are
behaviour of the code, too:

- Recovery appends `Restoring` with the same `append_phase`. Behind a torn record
  the two become one line that `read_journal` refuses: the comment that an
  incomplete record is always final (`report_file.rs:581`) holds for one
  interruption, not for two.
- The removal of an installed report is not atomic. Cut short behind a removed
  backup, it leaves a journal that says `Installed`, and every later push fails with
  "lost the backup needed to recover".
- When publishing fails after the plan was applied, the rollback puts the previous
  push's report back: the mutation is reported only by the error message
  (compare `docs/specs/elasticctl-design.md:492`).

### Proof

`ReportTransactionInv.tla` defines `IInv`, and `ReportTransactionProofs.tla` proves it
for any number of processes, pushes, failures, kills and edits, and from it all four
safety properties. The assumptions are those of the module: `Absent` and `Edited`
are not reports, `NoProc` is no process, the bounds are naturals. `NoLoss` and
`AllOrNothing` are not inductive: what a recovery may conclude from a missing backup
depends on the last whole record, on whether a torn one follows it, and on where the
push that left them stood. `IInv` therefore says, for each place a push, rollback,
recovery or removal can be at or can have been killed at, which files exist, what
they hold and what the journal says; the report itself is in the destination, the
backup or the saved original in every one of these cases. `RefusalIsExplained` and
`AppliesAreReported` are action properties that follow from `IInv` before and after a
step. `RemovedOrRefused` is a liveness property and stays with TLC.

## 5. State push

`StatePush.tla` models `state push`: one mirror, one stack, and pushes one after
the other, each of all rules or some (`--rule-id`), with or without `--yes`.

| State | Code |
|---|---|
| `mirror`, `stack`, `minted` | rule and list files with their items; the stack's rules (a body, a list reference, the internal id it points at), lists (a body, an id) and items; the last list id |
| `pc`, `scope`, `yes`, `local` | where the push is, the rules it is about, the confirmation, the mirror as read and narrowed |
| `remote`, `todo`, `ids` | what planning has read, the lists still to read or to resolve, the live ids of the lists the rules reference |
| `ops`, `report`, `outcome` | the writes left, the change report, the result |
| `changed`, `edits`, `faults` | history: what others changed on the stack since the push began; bounds |

`Start` with `ReadMirror`, `ReadRules`, `FetchList` and `FindItems` read one answer
at a time; `PlanWrites` computes the drift, the exception plan, the pointer repairs
and the refusals; after the confirmation `ResolveId` and then `ApplyList`,
`ApplyItem`, `ApplyRule` write one object at a time, in the code's order, each of
which can fail, or succeed without an answer. `ClientEdits` changes the stack at
any moment and `MirrorEdits` the mirror: an editor, or a pull that has moved a file
to its backup, since push takes no lock. A rule references at most one list, and
bodies stand for everything normalisation keeps.

`CleanAfterPush`: a push that reports no failure leaves nothing to push, down to
pointers the diff does not see. `RulesComeLast`: a rule is written with the live id
of its list, and no rule is once a list or an item has failed. `RemovalWasInstructed`: an item is deleted only from a list whose file was
read without it. `ReportIsTrue`: every change is in the report, and what the report
calls applied is there. `Converges`: pushing again brings the stack to the mirror.
What other clients changed during the push is excepted.

| Run | Bounds | Shows |
|---|---|---|
| `push_safety` | 1 rule, 2 lists, 1 item that may be in either, 2 bodies, 2 changes by others, 1 failing request | the safety properties. Two lists are needed for order and for an item in the wrong list; two changes for a list deleted and created again |
| `push_retry` | 1 rule, 1 list, 1 item, 2 changes, 1 failing request | `Converges`, while an item stays in its list |
| `push_moved_item` | 2 rules, 2 lists, 1 item, 1 change | `RetryReconverges` is violated (finding 2) |

Fairness: a running push goes on (`WF(Step)`), and the whole mirror is pushed,
confirmed, again and again (`SF(Start(Rules, TRUE))`; strong, as pushes of fewer
rules come between).

### Findings

2. Items are written in the order of their lists. One that moved from a later list
   of the stack to an earlier one of the mirror is created before it is removed; the
   stack, which addresses items by `item_id`, refuses, the push stops there, and
   every retry does the same, against the comment at `state/push.rs:404`.

Not checked, but visible in the model: after a failed list or item `report.pending`
keeps the rules, although the comment of `ChangeReport::pending`
(`report.rs:56`) says it is zero after a push.

### Proof

`StatePushInv.tla` and `StatePushProofs.tla` prove every safety property of
`push_safety` for any sets of rules, lists and items. Assumed is what the module
assumes: objects are numbered (the order of writing), there are finitely many lists
(each new list gets an id that none has), `Home` gives an item lists, and `None` is no
object. `CleanAfterPush` is about the end of a push, so its invariant follows the
push from read to write:

| Part of `IInv` | Says |
|---|---|
| `ShapeInv`, `HomeInv` | the shapes of the variables; an item of the stack is in a list that exists |
| `ScopeInv`, `ReadRulesInv`, `ReadListsInv`, `ReadItemsInv` | what is read so far, and that the stack still has it unless somebody else changed something |
| `OpsInv`, `OrderInv` | a planned write is one the mirror asks for, none is planned twice, lists come before items and items before rules, and a failed list or item ends the push |
| `IdsInv` | an id the push has resolved or was given is that of the list, unless others touched the list |
| `RulesInv`, `ListsInv`, `ItemsInv` | as long as nobody else wrote, an object is as the mirror has it, or its write is still to come, or (rules only) its failure is in the report |

The planning lemmas (`RulesAreCovered`, `ListsAreCovered`, `ItemsAreCovered`,
`PlanIsUnique`, `PlanIsPlanned`) say that the diff misses nothing and repeats nothing; the
write lemmas (`ListWritten`, `ItemWritten`, `RuleWritten`) what one write changes.
`Converges` stays with TLC: it is a liveness property.

## 6. Integration policies

`IntegrationPolicies.tla` models `fleet integration-policies import` and `delete`.
Fleet has no conditional write, so each row of the plan repeats planning's reads
and compares before it writes; rows share agent policies and packages, and what
they expect there moves on with every confirmed write.

| State | Code |
|---|---|
| `fleet` | the policies (name, parents, package, the rest), the agent policies (agents, portable or not), the packages (the wanted version, another, none) |
| `pc`, `cmd`, `todo`, `rows`, `row` | where the command is, its arguments, the reads and targets left, the row at hand |
| `seen` | `existing`, `name_owners`, `parent_snapshots`, `package_groups`; while applying, `expected_parents` and `expected_groups` |
| `blocked`, `report`, `outcome` | `blocked_packages`, the rows of the report with `affected_agents` and `package_installs`, the result |
| `shown`, `raced`, `clean`, `lost`, `edits`, `faults` | history: the preview's parents and packages, what others changed since the command last read it, whether nothing has gone wrong so far, writes whose answer was lost; bounds |

Every request is a step: `ReadExisting`, `ReadNames`, `ReadParent`, `ReadPackage`
plan; `RecheckObject`, `RecheckOwner`, `RecheckParent`, `RecheckPackage` precede a
write; `WriteAnswered`, `WriteFails` (refused, failed, or done without an answer; a
create may have installed its package) and `DeleteUnconfirmed` are its ends;
`Observe`, `VerifyStored`, `VerifyPackage` follow an import. Each may fail, and
`ClientEdits` comes between any two. The offline validation of a file, secrets,
package metadata and namespaces are abstracted to whether a parent is portable;
equality of raw objects to equality of content, so a client that changes a policy
and changes it back, which the code's comparison of revisions notices, is not
noticed here. A delete reads the parents of all targets before their packages, the
code those of one target after the other.

`PlanIsValid`: a plan made from reads at different moments satisfies what
`validate_import_plan` and `validate_delete_plan` ask, so they never refuse one.
`OwnWritesAreExpected`: with no failure and no other client no row fails, whatever
the rows share. `WritesWhatWasShown`: a row writes over what the preview showed and
what the rows before made of it; only a change that came after the row's own read
may be missed, the window the code cannot close. `ReportIsTrue`: succeeded rows are
what the file says, writes are reported, every agent policy a confirmed write
changed counts with the agents it had, and what gets installed was announced and is
reported.

| Run | Bounds | Shows |
|---|---|---|
| `integration` | 2 policies in the file and 1 foreign, 2 agent policies, 1 package, 2 changes by others, 1 failing request | all of these. Two rows that share both parents and the package are the least in which one row's write could be mistaken for another's; two changes cover one during planning and one during the apply |

Fairness is not needed: nothing here waits.

### Proof

`IntegrationPoliciesProofs.tla` proves all five properties for any numbers of
policies, agent policies and packages, clients and failures. The assumptions: ids are
positive numbers, the constants are of their kinds, the markers for "absent" and
"not read" are no objects, and a file names no two policies alike, which
`duplicate_error` checks (`integration_policy_ops.rs:2248`). `IInv`
(`IntegrationPoliciesInv.tla`) consists of the types, `PlanIsValid` and
`OwnWritesAreExpected` themselves and

| Part | Says |
|---|---|
| `PoliciesInv`, `OwnersInv`, `ParentsInv`, `PackagesInv` | at each point of planning: what is still to be read, and that what was read passes the validators |
| `ShownInv` | while rows are written: a snapshot is the preview's with the changes of the rows that wrote, and a package is as previewed or was installed by a row |
| `RowInv`, `RecheckInv`, `VerifyInv` | the row at hand: what it has looked at is as the command believes, unless somebody else changed it since |
| `InstallsInv` | a package that was to be installed and now is, is reported, blocked or under observation |
| `CleanInv` | without failures and other clients everything read is still so |

`CleanInv` is what makes `OwnWritesAreExpected` inductive: that a row finds what it
expects depends on every earlier row having advanced the snapshots as Fleet did
(`AdvanceFacts`, `CleanWrite`). `WritesWhatWasShown` is stated of a row's own agent
policies: the code advances only those, so a foreign change that is undone elsewhere
is none of its business. `ReportIsTrue` is proved as five facts about a step
(`ReportStep`), each from `IInv` on both sides.

## 7. The MCP session

`McpSession.tla` models one session of `elasticctl mcp`: the frames, the lifecycle
gate, the tool calls, and under them the retries of the transport and the
capability probe that the calls share. The session runs on a current-thread
runtime, so a poll of a task is one step.

| State | Code |
|---|---|
| `life` | which of the two lifecycles the first frame chose, and the legacy gate: awaiting an `initialize`, rejected for good |
| `receiver`, `eof`, `root`, `session` | the receive loop (reading, or writing a protocol error), the end of the input not yet seen, the root cancellation token, serving / closing / closed |
| `free` | permits of the semaphore (`server.rs:119`) |
| `op[c]`, `left[c]` | where the operation of a call is: queued at the capability cell, probing, in a backoff of either, requesting, over; attempts left |
| `late`, `ct` | calls whose deadline has passed, calls whose own token is cancelled |
| `known`, `queue` | the `OnceCell` of the capabilities, and the calls at it: the head probes |
| `outbox` | answers handed to the SDK and not yet written |

`ReceiveCall` is `call_tool` up to its first await: resolve the tool, try a permit
once, validate, require the feature, send the first request. `ProbeOk`,
`FeatureRefused`, `WaiterWakes`, `RequestOk`, `Transient`, `BackoffEnds` and
`RequestFails` are the answers; `DeadlineSeen` and `CancelSeen` the other arms of
the select. Whatever ends a call ends it through `End`, which drops the operation:
the permit comes back, and the cell passes to the next waiter. `Write` may never
happen, since the client may stop reading. `ServiceEnds` and `RuntimeEnds` are the
shutdown, which waits for no writer longer than its two seconds. Arguments and
results are abstracted: a call is the kind of its tool, an answer success or error.

`PermitsAddUp`: permits and running calls always add up, and while a call waits for
the probe exactly one call runs it. `CallsEnd`: every call ends, and as it should
(`AnswersAreTimely`: no success behind a deadline, no answer to a cancelled call).
`SessionEnds`: a session told to stop closes.

| Run | Bounds | Shows |
|---|---|---|
| `mcp` | 3 calls, 2 permits, 2 attempts | all of these. Three calls on two permits are the least in which one is refused while another waits for the probe of a third; two attempts give one backoff |

Fairness: timers fire (`DeadlinePasses`), a task that is ready is polled
(`DeadlineSeen`, `CancelSeen`, `ServiceEnds`, `RuntimeEnds`, `StartupCut`), a loop
that reads sees the end of its input. Nothing is assumed of Elastic, which may never
answer, nor of the client, which may never read: `CallsEnd` rests on the deadline
alone. The session may stop for good, so deadlock is not checked.

### Proof

`McpSessionProofs.tla` proves `TypeOK`, `PermitsAddUp` and `AnswersAreTimely` for any finite set of
calls, any number of permits and any number of attempts, the assumptions of the
module. `PermitsAddUp` is not inductive: who probes next depends on the order of the
queue. The invariant `Inv` adds to the types

| Part | Says |
|---|---|
| `PermitInv` | free permits and running calls add up |
| `CellInv` | until the cell is set, the queue holds the calls at it, each once; its head probes and the others wait; afterwards nobody probes |
| `LeftInv` | a call in a backoff has an attempt left |

`EndStep` is the main lemma: a call that ends closes its gap in the queue
(`LeavePlace`), which makes the next one the prober exactly when the head has left.
`StartStep`, `ProbeOkStep`, `MoveStep` and `RuntimeEndsStep` are the other changes of
the cell and of the permits, `FrameStep` the steps that touch neither. `AnswersAreTimely`
follows from the guards of the steps that answer and from `Inv`; the rest of `CallsEnd`,
and `SessionEnds`, are liveness and stay with TLC.

## 8. Guarded commands

`GuardedCommand.tla` is one run of a mutating command: it plans with reads, shows a
preview at the guard (`guard.rs`), applies the plan with `--yes` and reports a row
per object. The modules of the components extend it with their operations;
`Commands.tla` is their union, a run being a run of one of them, and the property
`IsConfirmedRun` (`Run!Spec`, `INSTANCE ConfirmedRun WITH ...`) says that each of
them implements `ConfirmedRun.tla`.

| State | Code |
|---|---|
| `cmd` | the command line: family, operation, targets, mode, `--yes` |
| `pc`, `todo`, `plan` | the request that comes next, the ids the loop has left, what planning has seen |
| `stack` | the objects of that family; its shape is the component's |
| `rows` | the report; `ExitCode` is 1 for a failed row or an error |
| `writes`, `moved` | history: writes that took effect and whether they met what was shown, facts others changed since the command last read them |
| `faults`, `edits` | requests that may still go wrong, changes others may still make |

`Read` is a request that only reads. `Mutate` is one that writes: it may be refused
by a fault, be done and lose its answer, or, on the routes the transport retries, be
done, answer 5xx and be sent again, when the second attempt meets its own effect.
`Edit` is another client, at any step.

| Module | Operations | What the data is |
|---|---|---|
| `DataViews` | import (plain, overwrite, skip existing) with base and metadata updates, delete, reference swap with the default behind it, default | a view is a base and a metadata part; references a set |
| `Dashboards` | import with its reference check, its PUT and the audit of a lossy one, delete, opaque bundle | a version per dashboard; `Lossy` is what a stack that drops a part keeps |
| `AgentPolicies` | import with names, monitoring package and read back, delete | a version and whether agents or integrations are attached |
| `Triage` | case status by version, case delete, create, comment, attach; alert status, tags and assignment by ids or by query | versions count; posts are counted, the stack does not deduplicate them |
| `Detection` | enable and delete rules by selectors, import rules with their lists, import and delete lists, prebuilt rules | absent, another version, the desired one |
| `PagedReads` | offset pages (exceptions, dashboards, Fleet, cases), pages behind the last alert, point in time, a corpus of rules divided by type and by `enabled`, async query | four documents, pages and a result window of two, rules of two types that are on or off |

`WritesWhatWasShown`: a write meets its object as the preview showed it, unless
another client changed it behind the command's last read. `ReportIsTrue`: a row that
denies an effect has none, one that claims an effect has one, and an exit status of 0
reports every object an answered request changed. `SuccessIsReal`: a command that
exits 0 reached its goal for each target. `ReadsAreWhole`: a read that succeeds has
every document that nobody touched, and none of those twice: rules whatever others
create, delete and switch, searches and alerts unless a full page whose last hit has no
sort values cut them short (`plan.cut`), the lists of dashboards and Fleet policies for
any one change. `OneChangeIsNoticed`: one switch, creation or deletion during a read of
rules breaks the sum over the parts, or does no harm. `LeavesNothingOpen`: points in time and async queries are closed.
`IsConfirmedRun`: nothing is changed before the confirmation or outside the targets,
the report claims no effect that there is not, and every command ends.

| Run | Bounds | Shows |
|---|---|---|
| `commands` | 2 objects (4 documents), 2 changes by others, 1 request that goes wrong | all of these, from every initial state of the stack that the operation can meet. Two objects give a failed row beside a good one and two rows that share a default or a package; two changes give one that hides another; pages of two over four documents give a page before, at and behind an edit |
| `partial_read` | one change by others, no fault | `ExceptionReadIsWhole` is violated (finding 3) |

A request for rules is answered with what matches when it is served: `OthersSwitch`
turns a rule on or off between two of them, and a rule may be in both halves of a type
or in neither. `ReadsAreWhole` therefore speaks of rules nobody switched (`Untouched`),
and `OneChangeIsNoticed` of one change. What the code does not notice is listed under
the findings. Every rule has one of the two types; one of a type
that `RULE_TYPES` does not list, which the sum is there to refuse, is not modelled.
Cases are pages by offset that end at a short one: the code checks nothing that a
property could hold, as with exception lists beyond finding 3.

Fairness is `WF_vars(Next)`: a sequential program goes on, and each request is
answered or fails, since the transport has a timeout. A run ends, so deadlock is not
checked.

### Findings

3. `find_paged` compares what it has with the total of the latest page. When an
   object of an earlier page is deleted between two requests, the offset skips one
   that was there throughout, and the lower total is reached without it: the short
   read that the comment at `elasticctl-api/src/exceptions.rs:141` refuses.

Not a run of its own, but visible in the model: `find_all` reads the two halves of a type
beyond the result window in two requests. With two changes between them, a rule that was
read is disabled and read again, and one that was not is enabled and in neither half: the
sum is what was counted first, and the read succeeds with a duplicate and without a rule
that was there throughout, the partial corpus that the comment at
`elasticctl-api/src/rules.rs:295` rules out.

Not checked, but visible in the model: an import of rules does not read the part of
the answer that holds the errors of its exception lists (`ops.rs:72`); alerts and
rules are deleted or updated by id whatever they hold by then, and `Write(o, TRUE,
TRUE, {})` marks the commands whose preview promises no more; a post that is sent
again is counted twice in `posts`. The goal of an attachment is a post, not exactly
one: nothing in the code tells a second one from the first, and no property here
excludes it.

### Proof

`CommandsInv.tla` defines the inductive invariant `IInv`, `GuardedCommandProofs.tla`
has the facts about the generic run and the loop, and it and `CommandsProofs.tla` a
lemma for every action of the six components. They hold for every finite set of ids and any
number of changes and faults (`CommandAssumption`). Neither promise is inductive:
`ReportIsTrue` compares rows and writes while the loop is between the two, and
`WritesWhatWasShown` needs to know, before the write, what the plan remembers.

| Part | Says |
|---|---|
| `CmdOK`, `OpOK`, `PlanOK` | which commands the adapters make; planning remembers objects |
| `TodoOK` | each object asked for comes once in the loop, and those still to come have no row |
| `QuietPlanning`, `OnlyConfirmed`, `WithinTargets` | planning writes nothing, nor does a run without `--yes`; no write leaves the targets |
| `HeadWritten`, `AnswersReported` | behind a write the object at the head is written; an answered write has a row or is that one |
| `ClaimsHaveWrites`, `UntouchedIsUntouched` | the two halves of a true row |
| `DataViewsInv` ... `DetectionInv` | per component: at a step that writes, what it relies on is as the plan has it, or *excused*: somebody changed it behind the last read, or a request of this run took effect unanswered |
| `ReadsInv` | a point in time or async query is open only while its read goes on, or a request about it was lost |

A step changes the loop in one of few ways: it plans on (`PlansOn`), passes the guard
(`Guarded`), handles the object at the head (`HandlesOn`), has it sent again
(`SendsAgain`), reports it (`Reported`), gives up (`GivesUp`), finishes or checks the
whole set (`Finishes`, `ChecksWhole`), or is another client's (`Watches`). For each
kind one lemma proves that `LoopInv` and the refinement step are kept; the lemma of an
action shows its kind and that the part of its component is kept. `CommandsInvariant`
puts them together, and `CommandsTypeOK`, `CommandsWriteWhatWasShown`,
`CommandsReportIsTrue` and `ReadsLeaveNothingOpen` follow. `CommandsAreConfirmedRuns`
is the refinement without its fairness, `Spec => Run!Safety`.

`SuccessIsReal` compares the end of a run with what it was asked for, so it needs what
every step has already reached. `SettledInv` says it of the loop: unless a row has
failed, each target is still to come or *settled*, that is as asked, skipped, or
changed by another client. `SuccessInv` adds to it what the components know on the way:

| Part | Says |
|---|---|
| `DataViewsAims` | a view to be deleted was not the default, and at the request the default is as planned unless another client moved it; behind the request of a swap the source is gone and has no references |
| `AgentPoliciesAims` | a policy whose agents are being observed is as asked, unless the verification has already found it bad |
| `TriageAims` | a case the planning has resolved is as it was read, and one with the wanted status is not in the loop; an alert of a batch exists |
| `DetectionAims` | a selected rule the planning has passed exists; an object an import leaves to the server has a row that says it is skipped |

The second part of `CommandsProofs.tla` has one more lemma per action. In the loop a step makes a row
fail, settles the object at the head, or stays at it, and unsettles no other object
(`LoopSettles`); the guard starts the loop over what is not settled yet
(`GuardSettles`), and a request about the whole set settles it at once
(`BulkSettles`). `CommandsSuccessInvariant` gives `CommandsSuccessIsReal`. A data view
swap shows why the parts are needed: the source may be deleted while it is the
default, and only the step behind it moves the default.

`ReadsAreWhole` is about the end of a read; `WholeInv` says what each page before it has
kept. *Stayed* is what was there at the first request and nobody has created or deleted
since; *untouched* is what nobody has switched either.

| Part | Says |
|---|---|
| `StayedIsThere` | what has stayed is still on the stack while pages are read |
| `AlertsAims` | the documents come in order, and up to the last one read nothing that has stayed is passed over |
| `SearchAims` | the same over the point in time, of all its documents |
| `RulesAims` | an untouched rule has been read once and no request to come asks for it, or it is asked for by exactly one; one of the two holds if it was there at first |
| `CheckedAims` | as long as others made at most one change, the pages read are the first ones of the first list, and such a change shows in the total |

The last one is what the check of the total is for: a document that comes or goes
between two pages shifts the rest of an offset list, and the next page would skip or
repeat one, but one change alone moves the cardinality, so the read is refused. Two may cancel each
other out, which is why the property speaks of one. The lemmas on pages
(`BehindLast`, `OffsetJoin`) and on the parts of a corpus (`SliceRead`, `SliceHalved`,
`PartsFacts`) are about any set of documents and
rest on `SortedInOrder`: the sorted sequence of a finite set of numbers exists, has
each element once, and is in order. The third part of `CommandsProofs.tla` has a lemma
per request, `CommandsWholeInvariant` and `CommandsReadsAreWhole`.

`Sorted` and `Noted` of `GuardedCommand` are written as a choice and a function, since
the provers know nothing of `SortSeq`, `@@` and `:>`. Left to TLC are the end of every
command and `OneChangeIsNoticed`. `Docs`, the four documents of a read, the size of a
page and the two types of rules are definitions, not constants: the theorems hold for every set of ids and every number of changes and
faults, over these documents.

## 9. The recorder

`Recorder.tla` models `cargo xtask record`: `record_session` creates marker objects
under fixed ids, measures them and deletes some again; `cleanup` then removes what
`CleanupOwnership` still holds, whatever happened before; the fixtures are written
only when both succeeded. The session is sequential, so its requests are a script, a
sequence of steps that the actions interpret; requests that only read, or only change
the content of a marker object, are one `use` step.

| State | Code |
|---|---|
| `phase`, `pc`, `at` | session, cleanup, writing or done; the step, and the request of that step |
| `there[r]` | what the stack has under each fixed id: nothing, this session's object, one joined with somebody else's, one with another session's nonce, a foreign one |
| `own`, `claimed`, `armed`, `lease` | `CleanupOwnership` with its claims, the kept inventory and nonce, and `pending_data_view_default_restore` |
| `default`, `enabled`, `alerts` | the space's default data view in the raw form the stack reports (`Unset`: null or the empty string), the alert rule and its alerts |
| `failed`, `errors`, `published` | the result of the session, the errors of cleanup, the fixtures |
| `taken`, `mover` | history: what was deleted, as it was; who moved the default last, and whether a restore has read it since |

Any request may fail before or after the stack applied it; another client takes a
fixed id, or chooses or unsets the default, at any moment, between the read and the
post of a restore, too; the alert rule fires while it is enabled.

`ForeignSurvives`: nothing without the session's markers is deleted, in Fleet nothing
without its nonce. `NothingLeftBehind`: published fixtures mean an empty stack, and a
clean cleanup leaves none of the objects that were claimed before they were created.
`DefaultIsGivenBack`: while the default is the session's a lease to restore it is
held; without the lease, what the session set last is the raw default it found, or the
companion; and a restore displaces a default that another client chose only when it was
chosen behind the restore's own read. `DependantsGoFirst`:
no parent, data view or index is deleted before what refers to it.

| Run | Bounds | Shows |
|---|---|---|
| `recorder` | `MaxFaults` = 2, `MaxEdits` = 1, 9 ids that others may take | all of these, and that the recorder never gets stuck. Two failures are one that ends the session and one in the cleanup of what it left; the ids are one of each kind of claim |

What the properties leave room for is behaviour of the code: the source and
replacement data views are recognised by id alone, so cleanup can delete a foreign
one whose create was refused; objects claimed only after the answer (list, item,
rule, scratch and search index, and Fleet's) stay when the answer is lost; the
companion data view may become the default without a lease; a document written into
an existing index or over a dashboard joins another client's object. The restore reads
the default and posts its own by force (`main.rs:5824`), with nothing to tie the two
together: a choice made between them is overwritten, which `DefaultIsGivenBack` allows
and the run reaches. A default that another client *unset* is restored over whenever the
lease may have met an unset one: the code cannot tell it from its own.
An index without the marker document is given up without an error (a read of it answers
not found), one with another document is refused with one: `Look` takes a foreign index
either way. Not modelled
here: a rule execution in flight behind the last sweep, a kill of the process, and
`write_recording` stopping between two files.

### Proof

`RecorderInv.tla` defines the inductive invariant `IInv`; `RecorderProofs.tla` proves
it for any number of faults and of changes by other clients and for every set of ids
they may take (`RecorderAssumption`: two natural numbers and a set of the session's
ids). Each property alone is far from inductive. That a delete of the script takes
only what is the session's depends on what the script did up to it, and that a clean
cleanup leaves nothing depends on what it has passed.

| Part | Says |
|---|---|
| `Made(k, r)`, `Claimed(k, r)`, `LeaseTaken(k)` | not state but the script: what it has made, claimed and leased when it comes to its step `k`, by the last step about `r` (`Since`) |
| `MadeIsThere`, `OnlyMadeIsThere` | while the script runs, the stack has of the session what it has made and nothing else, but for the case, a create being read back and a drop being verified |
| `ClaimedIsOwned`, `EarlyIsOwned`, `LateIsOwned` | what is claimed is owned; what is claimed before it is created is owned as long as it is there, and the rest unless the session has failed or is about to read it back |
| `LeaseIsHeld`, `DefaultIsKept`, `RestoreIsDue` | a default of the session's has a lease, and a restore posts over what it has just read, or over what another client set since |
| `LookedAt`, `SweptIsGone` | cleanup deletes what it has just found its own; without an error, what it has passed is given up |
| `MineIsWhole`, `DoubtIsACreate`, `PublishedIsClean` | what may be there twice or joined, which requests read back a create, and that fixtures follow two successes |

The script is a sequence of some 130 steps, too long for the provers to unfold
at once, so its facts are proved part by part. `Part(s, m, c, l, m2, c2, l2)` says
that each step of `s` finds what it relies on when `m`, `c` and `l` are made, claimed
and leased before it, and that `m2`, `c2` and `l2` are behind it. `ScriptParts` proves
it of each part of the script, `PartJoin` joins two of them, and `ScriptIsPart` is the
whole: no step deletes what is not made or what something still refers to, none
creates what must be claimed and is not, none moves the default without the lease.
`SweepFits` says the same of cleanup: dependants come before what they refer to, the
restore before the data views, the alerts last.

A step of the program ends by going on or by giving up. `RecordGoesOn`,
`CleanupGoesOn`, `SameStepKeeps` and `StopKeeps` prove `IInv'` for each of these ends
from what the step did to the stack and to ownership, `PutKept`, `TakeKept` and
`OwnKept` are the effects of a write, a delete and a claim, and the lemma of an action
joins the two. `RecorderForeignSurvives` and `RecorderTypeOK` are parts of `IInv`;
`RecorderNothingLeftBehind` is what `SweptIsGone` says behind the last step.
`RecorderDependantsGoFirst` follows from `OnlyThreeDelete` and, in the script, from
`MadeIsOurs` (nothing that is made refers to what a delete takes), in cleanup from the
order of the sweep. `RecorderDefaultIsGivenBack` needs `RestoreIsDue`: a default that
another client chose before the read makes the restore give up, so `OthersKeepTheirDefault`
leaves only a choice the restore has not seen.

## 10. Proved and model-checked

Proved with TLAPS, for all values of the constants:

| Module | Theorems | Model-checked only |
|---|---|---|
| `PullTransaction` | `TypeOK`, `NoLoss`, `AtomicUnlessCut`, `ViewMovesOnlyAtCommit`, `ReportedOutcomeIsTrue` | `TransactionIsRemoved` |
| `ReportTransaction` | `TypeOK`, `NoLoss`, `AllOrNothing`, `RefusalIsExplained`, `AppliesAreReported` | `RemovedOrRefused` |
| `StatePush` | `TypeOK`, `CleanAfterPush`, `RulesComeLast`, `RemovalWasInstructed`, `ReportIsTrue` | `Converges` |
| `IntegrationPolicies` | `TypeOK`, `PlanIsValid`, `OwnWritesAreExpected`, `WritesWhatWasShown`, `ReportIsTrue` | none |
| `McpSession` | `TypeOK`, `PermitsAddUp`, `AnswersAreTimely` (of `CallsEnd`) | that calls end, `SessionEnds` |
| `Commands` and its components | `TypeOK`, `WritesWhatWasShown`, `ReportIsTrue`, `SuccessIsReal`, `ReadsAreWhole`, `LeavesNothingOpen`, `Run!Safety` (the safety of `IsConfirmedRun`) | `OneChangeIsNoticed`, the end of every command |
| `Recorder` | `TypeOK`, `ForeignSurvives`, `NothingLeftBehind`, `DependantsGoFirst`, `DefaultIsGivenBack` | that it never gets stuck |

Each `IInv`, and `SuccessInv` and `WholeInv`, was model-checked with the constants of its
module's run before it was proved. Liveness, and the liveness half of `IsConfirmedRun`, is out of the prover's
reach. No module declares a RECURSIVE operator.

## 11. Not modelled

Configuration and profiles: the precedence of flags, environment and profile is a
pure function of one input, which the unit tests enumerate. The byte-limited line
reader of `bounded_io.rs` is a function of the bytes it is fed; the session takes a
line as read or as refused. Formats, normalisation and rendering are conversions
without state; a command's model keeps what it tells apart. Argument parsing is a
set of commands. Authentication, TLS and body limits of the transport end in a failed
request. The conformance runner and the conformance matrix compare files.
Windows-specific behaviour (no directory fsync, rename over open files) is left out.
