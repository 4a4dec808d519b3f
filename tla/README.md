# ProofToAct: verification project

ProofToAct decides whether an agent may act on what it remembers. Evidence is
signed and judged against a key, a validity window, a scope and its
contradictions; an authorized proposal may be spent once, under a lease and a
fencing token; effects are recorded only by the holder of the newest fence; and
a caller who does not know whether its commit landed must be able to find out
without acting twice. Around that core stand the paid live drill, which consumes
its authorization through files and calls a provider at most once, the recovery
of context in a second cluster, the release, which spends one approval on one
provider effect, and the ceremonies that set all of it up.

One question returns in every part: *a request was sent and its answer is lost;
what may be done next?* The code answers with create-only records written before
the request, conditional writes, readbacks and verdicts that say UNKNOWN. The
modules here model these protocols with every crash, lost answer and late
request the code has to survive, and state what must hold nevertheless. TLC
checks small instances; TLAPS proves the safety properties that the runs check
for every value of the constants (see Proofs for what stays with TLC).

## Inventory

| Component | State | Operations | What is hard |
|---|---|---|---|
| Evidence and keys (`src/cloud/authority-store.js`) | keys, verification receipts, evidence rows | register, revoke, append, audit | two admissibility queries that must agree; revocation and rejection must stick in every order of calls |
| One-shot authority (same file, `database-commit-result.js`) | epochs, proposals, receipts, outbox, effects, resources; a session per caller | `authorizeDviProposal`, `spendAuthority`, `recordProtectedEffect`, `reconcileRequest`, `prepareResource` | lost acknowledgements, late commits, retries, several clock readings in one transaction |
| SQL authority functions (`src/cloud/primary-security.js`) | the same tables, vector sets, selections | the store's decisions as `SECURITY DEFINER` functions | evidence judged at one clock, leases at another |
| Vector retrieval (`admissible-vector-retrieval.js`) | vector sets, selections | `retrieve`, both proofs, purge | evidence changes between preparation, ranking and proof |
| Local memory (`src/protocol.js`) | evidence, leases, fences, receipts, checkpoints | ingest, retrieve, evaluate, reserve, checkpoint, recover | conflicts judged once, on arrival; lease boundaries |
| Control ledger (`integrated-live-drill-control-ledger.js`) | files of one directory | claim, reserve, launch, finalize | processes, power failures, a clock that is set back |
| Provider dispatch (`primary-security.js`, `provider-dispatch-*.js`) | occupancy, control and activation rows | claim, begin, redeem, activate, complete, mark unknown, terminalize | a provider call that may have happened |
| Provider exchange (`integrated-live-drill-dispatch-broker.js`, `-provider-operation-broker.js`, `-activation.js`, `-exchange.js`, `-terminalization.js`) | capability and transcript files, queues | five kinds of process around one dispatch | acknowledgements lost in between, timeouts, several hosts |
| Primary bootstrap (`primary-security.js`, `database-security-posture.js`) | roles, grants, passwords, trust root | scrub, create, grant, attest | interrupted or overlapping runs must not leave a capability behind |
| Release store and broker (`release-control/`, `release-provider-one-shot-broker.js`) | effect and budget items | reserve, dispatch, finalize, terminalize | ambiguous conditional writes, budget races, replays |
| Private recovery query (`private-recovery-query*.js`) | one item | operator run, invocation, reconcile | a query asked twice, a receipt of another run's query |
| Create-only files (`atomic-create-only-file.js`) | final and temporary names | publish or read | a reader that cleans up after a slow or dead publisher |
| Continuity journal (`integrated-live-drill-recovery-continuity.js`) | seventeen step files | claim, complete, unknown, inspect | files that are visible while empty |
| Recovery store and broker (`recovery-store.js`, `recovery-broker.js`) | bundles, audit events | append, `recover` | an audit that fails after the query ran |
| Provider recovery worker (`integrated-live-drill-provider-recovery.js`) | artefacts, control record | one recovery in resumable steps | two workers, expiry, sticky refusals |
| Recovery grant repair (`recovery-security.js`) | grants of `managed-mcp`, lock, intents | repair, disable | a failure while the private schema is open |
| Fresh-cluster provisioning (`scripts/fresh-cluster-*.js`) | chain of transitions in one item | create or adopt, bootstrap, revoke, reconcile | access left behind by a dead run |
| Bootstrap ceremony (`run-one-time-bootstrap-ceremony.js`) | journal, lock, root session | mutations from setup to terminal receipt, cleanup | a crash at every line; events that show late |
| Fresh primary, orchestration, Lambda, document validators, release and gate scripts, web demo | | | see *Not modelled* |

The authority store reads the evidence tables inside its transactions. The local
memory is a second implementation of the same idea and does not call it. The
live drill consumes its authorization in the control ledger, starts children as
processes, and only then dispatches a provider call through the SQL ledger; the
recovery worker journals the same call in the continuity journal and audits it
through the broker. The release and the private query share a DynamoDB table.
The ceremony and the provisioning run before everything else.

## Modules

| Module | Models | Composition |
|---|---|---|
| `EvidenceStore` | keys, receipts, evidence; every method is one transaction and one action | |
| `AuthorityStore` | authority tables, sessions of concurrent callers | extends `EvidenceStore`; implements `FencedAuthority` |
| `FencedAuthority` | abstract: grants with increasing fences and disjoint leases, one per action, effects under the newest fence | |
| `VectorRetrieval`, `AuthorityFunctions` | the SQL functions and their clients | the second extends the first |
| `ProofToActMemory` | the in-memory store; methods are synchronous, so atomic | |
| `ControlLedger` | files, processes, crashes, power failures; one action per system call | |
| `ProviderDispatch` | the dispatch ledger; every SQL function is one step | |
| `ProviderExchange` | the processes around it | extends `ProviderDispatch`; implements `OneShotEffect` |
| `OneShotEffect` | abstract: an effect performed at most once, and a verdict that can be relied on | |
| `PrimaryBootstrap` | the run that installs functions and grants | |
| `ReleaseStore`, `ReleaseBroker` | the table, request by request; the workflow runs | the second extends the first |
| `PrivateQuery` | operator runs, invocations, their item | |
| `CreateOnlyFile` | publication by temporary name and link | |
| `RecoveryContinuity` | the journal | |
| `RecoveryBroker`, `ProviderRecovery` | bundles, audit sink, `recover`; the worker of a drill | the second extends the first |
| `RecoveryGrants` | repair and disable of grants | |
| `FreshCluster` | controller and reconciler | |
| `BootstrapCeremony` | runner, journal, provider | |
| `AuthorityStoreProofs`, `ControlLedgerProofs`, `MemoryProofs`, `FileProofs`, `ProviderExchangeProofs`, `AuthorityFunctionsProofs`, `RecoveryProofs`, `ReleaseProofs` | theorems and their proofs | each extends the component it is about; `ProviderExchangeProofs` covers `ProviderDispatch`, `AuthorityFunctionsProofs` also `VectorRetrieval` and `PrimaryBootstrap`, `RecoveryProofs` the broker, the worker and the grants, `ControlLedgerProofs` also `FreshCluster`, `FileProofs` also `RecoveryContinuity` and `BootstrapCeremony`, `ReleaseProofs` also `PrivateQuery` |
| `MC*` | instances; a module with a `part` or a scenario explores several instances by themselves in one run | |

An operator defined just before a definition, with its parameters and a comment
that begins with "Fault:", is not part of the specification. It is a plausible
bug of that definition, and putting it in the definition's place makes a property
fail.

Of the type invariants, `TypeOK` (with `EvidenceTypeOK`), `LedgerTypeOK`,
`MemTypeOK` and `ReleaseTypeOK` are theorems of their own; those of the other
modules are part of their inductive invariants.

### AuthorityStore

A call goes through the stages of `#runSerializable`: `open` (statements run),
`dispatched` (COMMIT sent), `landed` or `orphaned`, and back to idle. The
statements of a transaction read `statement_timestamp()` at nondecreasing
instants between its start and the dispatch; five readings cover every branch of
`spendAuthority`. They compute a *plan*: verdict, operation, fence, lease,
currency. SERIALIZABLE is modelled by what it guarantees: a transaction lands
only at a point of the serial order where its statements would compute the same
plan. Landing, losing the acknowledgement and dropping the commit are separate,
so a commit may land long after its caller got `AmbiguousCommitError`.
`reconcileRequest` reads and is an operator. Requests, proposals and envelopes
stand for everything their digests cover; there is one tenant, one incident and
one database clock.

The evidence behind a reservation may be revoked before its effect is recorded.
The code makes the reservation the decision, and `recordProtectedEffect` does
not look at the evidence again, so no property speaks about it.

### VectorRetrieval and AuthorityFunctions

A function is one serializable statement. It judges evidence at
`statement_timestamp()`, the start of the call, and leases and proposals at
`clock_timestamp()`, read after each lock; a call therefore takes time, and
evidence may expire during it. A preparation whose COMMIT was unanswered may land
late and leave a snapshot that only `purgeExpired` removes; a proof whose
snapshot is purged before its cleanup fails although its selection is durable.
A call is one step at its end: SERIALIZABLE
lets a call that starts before another one ends take effect before or after it.
The reading of the clock after the last lock stands also for the reading that
follows it. The active run of a resource is fixed by the operator. The roles that functions
demand of `session_user` and `observe_authority_race`, which only reads, are left
out.

### ControlLedger

`createDurableLedgerFile` is `Create` (validation and `O_EXCL`), `Write`,
`SyncFile`, `SyncDirectory` and `Return` (the re-read). Validation and creation
are one step: a validated file changes only by a power failure, which ends the
call. `Abandon` is a process that dies or a system call that fails. After
`PowerFailure` a volatile entry may be gone and unsynced data torn. `SetClock`
moves the wall clock either way.

### ProviderDispatch, ProviderExchange

A function that raises changes nothing and is not a step. Hosts are named by the
grant in their capability file. The dispatch broker claims and begins; the
operation broker redeems and parks a `READY` until the activation process
acknowledges; the exchange writes its consumption fence and calls the provider;
the terminalizer settles what has expired, and is started by a timer only after a
first run (`cadence`). `PrimaryBootstrap` is the program that
creates these functions: it scrubs and rotates passwords before it checks the
trust root, so a run with another trust root is rejected after it has taken the
deployment's capabilities away; an EXECUTE granted to public makes every later
run refuse at preflight; the administrator's open default is locked, never
refused. A capability is EXECUTE; table privileges and login options are refused
the same way. An attestation says that the posture was exact at that moment; an
overlapping run may scrub later.

### ReleaseStore, ReleaseBroker, PrivateQuery

A store operation is a strong read, a conditional write and, after an error, a
strong read that decides what is reported. A write its caller gave up on may be
applied later. Two reserve runs may both report `INTENT_RECORDED`; that they
cause one effect rests on the provider's idempotency token, which is the intent.
The shipped readbacks never report `CONFIRMED_NOT_APPLIED`. The single-process
broker is modelled although the shipped entry points use the phases: only tests
call `runProviderOneShotBroker`. `OneBrokerAssumption` says that no approval is
given to both. It is needed: a reserve run that loses its own consumption recovers
the `CONSUMED` record of a single-process run, appends an intent to it, and a
dispatch uses that intent, so that two brokers act on one record. Without the
assumption TLC finds `ReceiptsAreTrue` violated that way.

Runs of the private query are not assumed to be serialised: the workflow's
concurrency group does that, the script does not. Commands of one operation
differ in the function version. The clock is a refusal that may happen at any
time. An approval outside its window makes the handler throw before it reads the
store, so the item stays `RESERVED` and reconciliation says WAIT; a
`markDispatch` that landed while its answer and its readback were lost leaves
`DISPATCHING` for good.

### CreateOnlyFile, RecoveryContinuity, BootstrapCeremony

Every system call of `publishOrReadExactOwnedFile` is a step and may fail; power
loss keeps any part of what was not synced. The journal's files are created and
then written, so an empty one is visible; power loss is left to `CreateOnlyFile`.
A slow process may write UNKNOWN after another recorded the result: the
inspection then says AMBIGUOUS and no receipt is issued. The pre-call intent is
one value; the checks that bind its fields are left out.

In the ceremony a mutation is `INTENT_RECORDED`, `DISPATCH_STARTED`, `ACCEPTED`.
CloudTrail shows an event, and a session request arrives, within `Lag` of the
journalled start. A re-run after a change set was executed goes on only if
CloudFormation still shows it AVAILABLE, which the model leaves open. Several
interruptions leave a journal that no later run completes; they are safe, since
nothing is sent again, and follow from the code as read:
a crash in the accepted cleanup after the event of `DeleteRolePolicy` is visible
fails `reconcileExactRootEvents` with `includeCleanup: false`; a replaced
`AssumeRole` without an event leaves two journal steps for one event; a lock
without a journal is refused by audited recovery. Failed root calls and the
operator's new login are not modelled.

### RecoveryBroker, ProviderRecovery, RecoveryGrants

Bundles and audit events are written in one transaction each, with a read on a
fresh connection when COMMIT is unanswered. In the worker, admission closing and
death of the process are one action. A guard that refuses before the issue time
may pass later; one that refuses at or after expiry sticks and burns the artefact,
and if that write fails only the process remembers.
`commitPreparedRecoveryCompletion` checks freshness again, so a terminal event
may be committed and yet never be handed off.

The grants' target lock and intents are permanent and one-shot: a disable whose
intent was used cannot be retried under its operation and ends in a hold, and a
death between creating and writing the lock leaves an empty file that blocks
every operation. Processes of the same operation are told apart only by the
intents. A statement that takes effect after its readback is beyond the code, and
the properties exempt it (`overtaken`); likewise, after a journal failure
in mid-repair the view is inactive and the program ends with an ordinary error.

### FreshCluster

The workflow serialises the processes of an operation, so there is one at a time.
Reading the provider and appending the transition of an observing stage is one
step. A late create that lands after the absent readback makes the receipt untrue
and is exempted (`returned`). A reconciler that dies between
`RECOVERY_*_DELETE_DISPATCHING` and the delete makes every later one refuse while
the administrator exists; an interrupted `CREATE_NEW`, which has no reconciler,
stays occupied. The finalizer of key revocation rejects unconditionally and is
not modelled.

## Runs

| Run | Question | Distinct states | Bounds and why they suffice |
|---|---|---|---|
| `authority_callers` | one evidenced reservation per action, disjoint leases, nothing after revocation, whatever was acknowledged found again, final reconciliation | 470,838 | two callers make every race on a row; three requests cover same action, same effect key and other action, and one operation id is given to two requests, also after the first one stored no receipt; time 0..2 with leases 1 and 2 gives a hand-over; `MaxInt8` = 2 reaches the fence limit |
| `authority_rows` | does the store implement `FencedAuthority`; do the two admissibility queries agree; do revocation and rejection last | 418,311 | hand-over in both orders and a delayed effect; two proposals that expire at different times; an empty database; two keys with different windows, five submissions over three ids and instants on both sides of every boundary |
| `authority_current` | expected violation, see Findings | | |
| `memory` | reservations follow each other; what escapes quarantine; a successor gets the right receipt | 672,528 | four records that contradict each other, colliding lease keys; two agents, two checkpoints |
| `memory_conflict` | expected violation, see Findings | | |
| `control_ledger` | nothing consumed twice, forgotten or out of order, the cap kept, a complete ledger stays as it was digested; a cluster created once, and no access left when a receipt says so | 875,328 | two processes, two scopes, one power failure, clock 0..2 around the expiry 1: enough to finalize both scopes (25 steps); for the cluster up to three processes and two unanswered requests (`ClusterBudget`): an interrupted run, a reconciler and a run after it |
| `provider` | implements `OneShotEffect`; a lost acknowledgement stops the exchange; a dispatch is settled while the terminalizer's timer goes on, the queue drains; the ledger is sound for callers bound only by its functions; bootstrap leaves no capability outside the policy | 233,218 | three hosts, two with one order and one with another authorization of the same effect; clock to 4 past the expiry 3; five orders that collide in every field of the ledger's keys; two bootstrap runs, two roles, two trust roots |
| `terminalizer_cadence` | expected violation, see Findings | | |
| `release` | receipts true, one token per effect, budget keeps its reserve; a query asked and reported once | 430,475 | the four phases with two losses; reserve and dispatch run twice; five single-process runs that compete for an effect and for the budget; three query runs, one of another version, two faults |
| `files` | success is durable and refusal justified; a step sent once, its receipt backed; the ceremony one-shot and its terminal receipt true | 1,735,533 | three publishers of two contents, two faults and a power loss; two workers, three starts; one stack, two crashes, lost requests or stale reads |
| `recovery` | what is handed off is audited and backed; no failed repair leaves the private schema exposed silently; statements applied while the view is inactive; a selection is what its snapshot ranked first; a spend is backed by evidence admissible when it was decided; a source was current | 1,237,732 | a caller and a publisher with three contending bundles; two workers with three starts and faults together (`DrillBudget`); two tools, two operations, two faults; two clients on one retrieval id over five rows with a contradiction, another scope and no signature; four requests, fence limit 2, time to 3 |
| `bootstrap_resumes` | expected violation, see Findings | | |

A faulty run ends early: faults are bounded by `MaxFaults`, `MaxFailures`,
`MaxUnanswered`, `MaxLosses`, `MaxBreaks`, `MaxMishaps` and `MaxQueryFaults`,
starts of a process by `MaxRuns` and `MaxStarts`, clocks by `MaxTime` and
`MaxClock`. Two faults are the
least that lose an answer and then the readback that should replace it. Some
instances start where earlier programs leave the system: authorized actions,
proved selections, a published bundle; `authority_rows` also starts from
nothing. Interchangeable processes are symmetric where no liveness is checked;
in `recovery` the workers, the retrieval clients and the operation ids are the
same two model values, one role per part, so that one permutation serves all.

Deadlock is checked for the authority store, the memory, the ledger and the
provider. It is not for `release`, `files` and `recovery`, whose processes end
after a bounded number of starts.

### Fairness

Only the runs of the provider exchange use it. `ExchangeFairSpec` assumes that
time passes, that the timers of the acknowledgement and of the result fire, and
that the terminalizer is started again once it has run (`cadence`): its timer
unit in `infra/systemd` has `OnUnitInactiveSec=60s`, which counts from the end of
the last run. It does not assume a first run, which no unit gives (see
Findings), nor that the cadence goes on: `CadenceEnds` is a stopped timer or a
restarted host, after which a timer that is not `Persistent` has nothing to
count from. `SettledByTheCadence` says what is left: a dispatch handed over to a
terminalizer with a cadence is settled unless the cadence ends. A run that
reaches the database is one step, so the database is assumed to be reachable
again and again. No process of the exchange has to make a step and no answer has
to arrive. In the release the terminalizer is a
workflow a person starts, so nothing is claimed to happen there, and the other
protocols may be abandoned at any step by design.

## Findings

* `authority_current`. `docs/COMMIT_RECONCILIATION.md` promises that a receipt
  whose lease has ended is reported as no longer current. A direct reply takes
  `authority.current` from one statement and `databaseNow` from a later one
  (`authority-store.js:3255`), so it may call a lease current at a database time
  past its end. A caller that compares the lease with `databaseNow` is safe.
* `memory_conflict`. In the local memory a record that arrives before its
  validity starts is never compared with its contradictions, and both become
  usable (`protocol.js:217`). `OnlyEarlyEvidenceEscapesQuarantine` shows that
  this is the only way.
* `terminalizer_cadence`. `docs/FULL_DRILL_EVIDENCE.md:190` says that the
  terminalizer converges expiry and ambiguity. Its timer
  (`prooftoact-integrated-live-drill-provider-terminalizer@.timer:5`) has no
  trigger but `OnUnitInactiveSec`, its service refuses a manual start, and the
  dispatch broker's unit wants only the timer, so nothing in the repository
  starts the first run. A dispatch whose other processes die stays open past its
  expiry: `EventuallySettled` fails under fair clocks and timers. The row stays
  occupied; nothing is sent twice.
* `bootstrap_resumes`. A test says that cleanup of an abandoned ceremony resumes
  at every durable crash boundary. `persistLocalReceipt` makes two journal
  writes, and `acceptedLocalReceipt` (`run-one-time-bootstrap-ceremony.js:4612`)
  rejects what the first leaves behind, so after a crash between them no run,
  cleanup included, goes on. Nothing is sent twice, but the temporary role stays
  until somebody removes it by hand.

## Proofs

Each theorem holds for any number of processes and any values of the constants
that satisfy the named assumptions; the bounds of the runs (`MaxTime`,
`MaxFaults`, `MaxMishaps`, ...) are arbitrary natural numbers in them. All follow the same
scheme: a type invariant, an inductive invariant that implies the property, one
lemma per action, and a temporal step.

**`AuthorityStoreProofs`**: `TypeOK`, `SpendIsSafe` (the conjunction of
`OneReservationPerAction`, `LeasesNeverOverlap`, `OneAuthorizationPerAction`,
`IntentsFollowReservations`, `ReservationsAreEvidenced`, each also a theorem),
`ResourceFollowsReservations`, `EffectsUnderNewestFence`,
`NoReservationAfterRevocation`, `ReconciliationIsFinal`,
`AcknowledgedIsReconcilable`, the evidence properties `AuditAgreesWithSpend`,
`ContradictionsNeverBothAdmissible` and `VerdictsStick`, and the refinement
`ImplementsFencedAuthority`. The argument rests on one observation: a commit
lands only where its plan would be computed again, so every step that writes may
be reasoned about as if its statements ran at that moment, except for the clock.
`LeasesNeverOverlap` is not inductive by itself; `ResourceBoundsReservations`,
which says that the resource row bounds the fence and the lease of every
reservation on it, is what a new reservation is compared with. In the refinement
a landed reservation is a `Grant`, a landed effect a `Perform`, and every other
step is invisible. The two admissibility queries agree because an evidence id
names one row and one verification receipt, and a `verified` receipt has its row,
a key of its issuer and an observation in the key's window: the columns that the
audit does not compare (`EvidenceInv`).

The reconciliation properties have an exception that the proof found: an
operation id whose request stored no receipt (it was refused before any row was
written) may be given to another request, and what is reported for that id then
changes. Both properties exempt exactly this (`OperationTaken`), and
`authority_callers` explores it.

**`ControlLedgerProofs`**: `LedgerIsSafe` (`ConsumedAtMostOnce`,
`IssuedIsDurable`, `LaunchesInOrder`), `FinalizedIsStable`, `ReservedWithinCap`, and
`ClusterIsOneShot` and `AccessRevokedWhenReported` of `FreshCluster`. The inductive
invariant of the ledger says that a call in flight is the only owner of its file,
that the file is as far as the call is, and that a launch whose directory sync has
happened rests on durable files only: its own `fsync` of the directory makes every
earlier entry durable too. What a call created and has not written yet cannot be
read (`CreatedIsPartial`), so a file that can be read is not in anybody's hands, and
a ledger that can be finalized stays so until the power fails. For the cap, whoever
writes or was given a reservation passed the check of the sum up to its scope
(`CheckedSums`); the two recursive sums exist and run along each other, shown with
the least index at which they would not.

For `FreshCluster` the invariant has five parts: a receipt, in the item or in an
update still on its way, is true (`Truthful`); an update only adds to the chain it
expects (`Lawful`); what a process believes to be absent is absent or in `returned`
(`Believes`); what it wrote stands in the item (`Stands`); and a controller has sent
only what belongs to the stages behind it (`Progress`), while nothing closes the
operation (`Open`). No assumption on the constants is needed.

**`ProviderExchangeProofs`**: for callers bound by nothing but the functions'
own checks, the dispatch ledger accounts for every activation (`LedgerAccounts`);
the same for the hosts (`HostsAreAccountedFor`); `AckLossStopsTheExchange`; and
the refinement `ImplementsOneShotEffect`. The invariant ties the stage of each
process of a host to the row it works on: whoever may still call holds an
activation of an unsettled row, and there is one row per key, over any number of
installations.

**`MemoryProofs`**: `MemTypeOK`, `ReservationsFollowEachOther` (the table of
leases shows the newest receipt of its key), `OnlyEarlyEvidenceEscapesQuarantine`
(conflicts are judged once, on arrival, and a record that was valid then stays
comparable) and `RecoveryReportsTheReceipt` (a checkpoint names a receipt, and
receipts never change).

**`FileProofs`**: `SuccessIsDurable` and `RefusalIsJustified`. The invariant
follows each inode: whose it is, which names lead to it, and what of it is synced
when a process is at a given call. A refusal is justified only with at least two
read attempts (`FileAssumption`; the code makes eight, `PUBLICATION_SETTLE_ATTEMPTS`): a single attempt
that meets the publisher between `link` and `unlink` would give up for nothing.

`SentOnce` and `ReceiptIsBacked` of `RecoveryContinuity`: only the last file of the
journal may be empty, and it has one writer (`EntriesInv`, `OneWriter`); a process at
the step of the marker owns the claim, and the journal ends there, so the marker is
the claimer's (`WorkerInv`); only the owner calls, and only after its marker
(`CallsInv`, `EvidenceInv`); a journal with a receipt is whole and of full length,
so that no process has anything left to write (`IssuedInv`).

`CeremonyIsOneShot` and `TerminalReceiptIsTrue` of `BootstrapCeremony`: the steps have
a rank, and what precedes a pending step is done or pending itself (`Prepared`); a
mutation is sent only from a recorded start (`SentAfterStart`); the temporary role is
made once and, once gone, gone for good (`RoleIsMadeOnce`, `RoleIsGone`); a role has one
active session at most, since a replacement waits for the end of what the lost one
may have been (`OneActive`); and each receipt in the journal is true (`JournalIsTrue`).

**`AuthorityFunctionsProofs`**: `SelectionsAreSnapshots`, `SpendIsBacked`,
`SourcesWereCurrent`, and `CapabilitiesFollowPolicy` of the bootstrap. That a
selection is the first of its snapshot needs that a set of rows with natural
distances has one nearest row. That a source is current needs that an action is
authorized once, so that the proposal of the lease check and that of the evidence
check are the same row. For the bootstrap, `FarEnough` says what a process has
seen to by the step it is at (posture, routine defaults, privileges, memberships,
passwords), and `Careful` what any statement of any process leaves true; a
statement is careful because of where its own process is, and so no process undoes
what another relies on.

**`RecoveryProofs`**: `RecoveredIsAudited` (`BrokerInv`: an answer is behind its
event, and COMMITs that land late carry the event that was planned),
`HandoffIsBacked` (`ProviderInv`: the artefacts on file are in the order the
worker writes them, each rests on a committed event, and every handed-off result
is the one on file), `NoSilentExposure` and `AppliedWhileInactive` (`ExposureInv`,
`GrantInv`: an intent is used by one process, and whoever holds the view open is
running, has announced it, or died).

**`ReleaseProofs`**: `OneTokenPerEffect`, `ReceiptsAreTrue`, `ReleaseTypeOK`,
`BudgetIsKept`, and `QueryReceiptsAreTrue` of `PrivateQuery`. A record only
goes on in one order (`Precedes`), so an answer or a delayed write, however
old, precedes the record as it is; a conditional write that is applied therefore
finds exactly what its caller saw. `FailedInv` says that whoever may still record
FAILED_TERMINAL has not called the provider and that nobody else can. `BudgetInv`
adds that a consumption on its way to the write carries the account its approval
names, since the read of the budget goes on only then. That the account is the sum
of the journal (`JournalInv`) needs that the fold over the effects does not depend
on the order in which CHOOSE takes them: the lemmas on `Tally` show it with a
smallest set for which it would, and an effect that is new adds its amount.

For the private query: any update, the caller's own or a delayed one, takes the item
one status on (`LegalUpdate`); an invocation asks only after it has read its own
dispatch in the item, so at most one does (`Dispatched`); PASS names an invocation
that got its row (`EntryIs`); and a published receipt is the terminal one, which no
update changes (`ToldIsTrue`).

The assumptions are named in the modules that declare the constants:
`EvidenceAssumption`, `AuthorityAssumption`, `CallsAssumption`,
`LedgerAssumption`, `DispatchAssumption`, `ExchangeAssumption`,
`MemoryAssumption`, `FileAssumption`, `VectorAssumption`, `FunctionAssumption`,
`BootAssumption`, `BrokerAssumption`, `WorkerAssumption`, `GrantAssumption`,
`ReleaseAssumption`, `OneBrokerAssumption`, `QueryAssumption`,
`ContinuityAssumption`, `CeremonyAssumption`. They say that the constants have the
shapes the validators of the code enforce and that a value which stands for
"none" is not one of the things it stands beside; the ones that say more are
`FileAssumption` (two attempts), `CeremonyAssumption` (a session lives for some
time) and `OneBrokerAssumption` (above). TLC evaluates
all of them.

### Only model-checked

* `SettledByTheCadence` and `OperationQueueDrains`: liveness under fairness is out
  of the prover's reach.
* `LedgerIsSound` is checked on the instance; `LedgerAccounts` proves of the
  module what it says.

Every other property that a run checks is a theorem. Two of them are about sums,
one recursive and one a fold. The induction theorems of the library take an
operator as a parameter, which the provers cannot instantiate; the proofs argue
with a least counterexample instead, from `WFMin` and `NatLessThanWellFounded`.

## Not modelled

Cryptography (a signature is genuine or not), digests (equal exactly when what
they cover is equal), formatting and validation of documents, vector distances
(an order on the rows), file ownership and modes, `*ForTest` hooks, deployment
and teardown of the private query, and the components marked `not_modelled` in
`PROJECT.json` with their reasons.

Most of the repository's lines are of that kind. The files of the modelled
protocols are covered for the larger part; the rest of the code is verification
of the release tree, gate scripts and read-only inspections of a deployment,
builders and validators of signed documents, templates and policies, the Lambda
handlers and the web demo. They compute a verdict from bytes and keep no state
between calls, so a state machine of them would say nothing beyond the code.
What still has a protocol of its own and no module is listed in the plan.

## Plan

Modelled next, each with the properties and proofs its protocol calls for:

1. `FreshPrimary`: the journal of `fresh-primary-provider-controller.js`, with
   `PrimaryBootstrap` as its bootstrap stage and `FreshCluster` as the pattern.
2. The documents of the provider orchestration, composed with
   `ProviderExchange`: which phase may be repeated after which document.
3. Deployment and teardown of the private query around `PrivateQuery`.
