# TLA+ verification of ModelKeep

ModelKeep is a pull-through mirror for Hugging Face: it archives the files of a
model or dataset revision on demand, publishes complete revisions atomically and
serves them from disk.  This directory holds TLA+ models of its concurrent and
crash-exposed parts, TLC configurations that check them on small instances, and
proofs of the theorems that hold for every instance.

Paths below are relative to the repository; line numbers are those the modules
were written from.

## 1. Inventory

| component | state | operations | where |
|---|---|---|---|
| transfer gate | queue of tickets, repositories transferring, limit | acquire (wait, be granted, leave cancelled), release | `src/pullthrough.rs` 54-208 |
| management jobs | active jobs in memory; on disk one record per job and three indexes | submit, run, progress, cancel, open (recovery), pages | `src/admin.rs` 407-1470 |
| single flight | one flight per key: progress history, result | join (lead or follow), publish, wait with deadline, finish | `src/singleflight.rs` |
| acquisition registry | one entry per running acquisition with its state | register, observe, cancel, remove | `src/pullthrough.rs` 313-470 |
| cancellation token, helper | token state, attached child process | cancel, commit, attach, reclaim, run helper | `src/upstream.rs` |
| revision store | published revisions with manifest and files, refs, staging, extension lock | publish, extend, resolve, verify, remove, update ref, recover | `src/lib.rs` |
| fetch staging | staging directories with selection record and lease | acquire or claim, heartbeat, preserve, recover, list, remove | `src/lib.rs` 1871-2347, 3153-3640 |
| pull-through | composition of the above; resolved refs cache | ensure, reconcile, fetch and publish, refresh, adopt refs | `src/pullthrough.rs` |
| client API | none of its own | cold-miss wait, file and metadata requests, ranges | `src/http.rs` |
| self-check, audit, inventory | the last report | read-only walks of the archive | `src/lib.rs` 963-1091, 1324-1868, 2431-2581 |
| importer, command line, UI | none of their own | one publication; startup, remove, audit; static pages | `importer.rs`, `main.rs`, `admin_ui.rs` |
| upstream helper | files in a staging directory | download, events on stdout | `upstream/hf_fetch.py` |

How they interact.  A client request or a job's thread calls `ensure`, which
joins a single flight keyed by repository, revision and selection.  The leader's
thread registers an acquisition with its cancellation token, reconciles with the
archive, waits in the transfer gate, takes a staging directory, runs the helper
in it, commits the token and publishes or extends the revision; the flight then
hands the result to all who joined.  A cancellation finds the acquisition in the
registry and cancels its token.  A second process (the command line) works on
the same archive directory with nothing but file-system operations between them.
Readers (downloads, metadata, inventory, verification, self-check) take no lock.

What is hard: critical sections of different locks that depend on one another
(registry, token, job map, flight map); waits by 50 ms polling on two
conditions; a lease renewed by one thread, judged by another; files that are
renamed one by one and read meanwhile; a crash between any two of them; a name
that moves upstream between two looks at it; idempotency that must survive a
restart.  `PROJECT.json` lists each hazard at its line.

What makes each component correct:

- gate: at most `Limit` slots, one per repository, none leaked; a caller waits
  only if it must; first come, first served per repository; every wait ends.
- jobs: a record is always reachable by its indexes; one active job per request;
  a terminal record is final; every job ends; an answer given to a key holds.
- single flight: one leader per key; every waiter sees the result of the flight
  it joined, and progress in order; every wait ends.
- token and helper: a cancelled acquisition publishes nothing, a claimed one is
  not cancelled; no helper outlives its acquisition; the reason a helper gives is
  the reason told.
- store: what is published is complete and verifies, at every instant and after
  any crash; a ref names a published revision.
- staging: one owner at a time; bytes of a resumable transfer are not lost;
  what is removed belongs to nobody.
- pull-through: a success means that what was asked for is archived, whoever's
  flight it was; nothing is transferred twice; everyone is answered.
- readers: what is archived is served with its own bytes; a report accuses
  nothing that is sound and passes nothing that is broken.

## 2. Modules

| module | what it is | state |
|---|---|---|
| `Archive` | abstract: what readers of one repository's archive are promised | implemented by the next, used by `PullThrough` |
| `RevisionStore` | the directories, manifests, references and extension lock on disk | checked, proved |
| `RevisionStore_proofs` | its inductive invariant and three properties | proved |
| `RevisionStore_refines` | a stronger invariant, `SettledVerifies`, and the refinement of `Archive` | proved |
| `ArchiveReaders` | `RevisionStore` with everything that reads it: downloads, metadata, inventory, verify, audit, self-check | checked, proved |
| `ArchiveReaders_proofs` | the invariant of readers beside any writers, and four properties | proved |
| `TransferGate` | the queue and slots of `pullthrough.rs` 54-208 | checked, proved |
| `TransferGate_proofs` | its invariant and five properties for every limit and number of callers | proved |
| `FetchStaging` | staging directories: lease, heartbeat, claim, preservation, recovery, removal | checked, proved |
| `StagingListing` | `FetchStaging` with the listing an operator is shown | checked, proved |
| `FetchStaging_proofs` | the invariants of both, and five properties | proved |
| `ColdMiss` | one missing file: single flight, progress, deadlines, the helper process and its token | checked, proved |
| `ColdMiss_proofs` | the invariant of a flight and its waiters, and five properties | proved |
| `JobStore` | management jobs: records, indexes, pages, threads, cancellation, restart | checked, proved |
| `JobStore_proofs` | the invariant of memory, records and indexes, the pages, and six properties | proved |
| `PullThrough` | the composition: requests, flights, reconciliation, gate, resumption, publication, references | checked, proved |
| `PullThrough_proofs` | the invariant of callers and flights, five properties, and that it uses `Archive` as promised | proved |

`MC*` modules add what only TLC needs: symmetry sets and the requests of
`MCPullThrough`.  They hold no model code.

How they compose.  `ArchiveReaders` and `StagingListing` extend the module they
read, so that every read falls between any two steps of the writers.
`PullThrough` uses each of the parts by what the part's own module promises: the
archive by a publication in one step (`Archive`, which `RevisionStore` is proved
to implement and of which `PullThrough` is proved to take no other steps), the gate by a first-come queue with one slot (`TransferGate`), the
staging by the set of directories that can be resumed (`FetchStaging`), the flight
by its start and its end (`ColdMiss`).  `JobStore` has of an acquisition only its
flight's registration, claim and end.

The order was: the archive first, since everything the program promises is about
what is on disk; then who may write there (gate, staging); who asks (flights,
jobs, clients); the composition; then the readers; last the proofs of all of it.
What the plan has left: the one-time migration of the job indexes, and the pure
functions (`parse_range`, path validation) against reference definitions.

## 3. How the modules correspond to the code

`PROJECT.json` maps every definition to its lines.  What follows is what a
reader needs to compare them.

### TransferGate

`waiting`, `transferring`, `granted` are `GateState`'s fields; a ticket is the
number `acquire` draws, and `repository_of` is what its queue entry carries.
`permits` is what a `TransferPermit` holds.  Each action is one critical section
of the gate's mutex: `Enter` (draw, queue, promote, and the immediate return if
the promotion granted it), `TakePermit` and `LeaveCancelled` (a waiter that woke,
by the condition variable or its 50 ms poll, and looked), `Release`
(`TransferPermit::drop`), `Cancel` (somebody cancels the token a waiter polls).
The actions state `promote` by what it computes, the one set that `Admits` allows.
`Turn` is one turn of the code's loop over the deque and `Promotion` the whole loop;
`PromoteIsTheLoop` says that it computes exactly that set, and is proved.

### JobStore

Memory (`active_jobs`) and disk (`record`, `by_created`, `active_marker`,
`idempotency`) are separate variables, and every write can end in four ways
(`Outcome`): done, done but the active marker failed, renamed but the directory
was not flushed, or not done at all.  `SubmitNew` goes through the writes of
`persist_new` in their order, and a failure leaves what was written.  A job's
thread (`RunStart`, `Join`, `Walk`, `Progress`, `RunEnd`) and the flight it
joins (`ClientStarts`, `FlightRegister`, `FlightCommit`, `FlightEnd`,
`FlightRetire`) are separate, as they are separate threads.  `cancel` is three
steps, since it drops and takes the lock between them: `CancelRead`,
`CancelStop`, `CancelMark`.  `Restart` empties the memory; `Recover` then deals
with one marker at a time and a restart may come before the last.

A job's number is its place in the history, which the code orders by time and
identifier.  A client is told of a job in two ways: `get` answers from memory if the
job is active and else from its record (`Got`), while the history (`list_page`) and a
repeated submission always answer with the record on disk.  `Shown` is the set of both;
they differ while a record is `Ahead` of the memory.  `Page` is one page of the history after a cursor, and
`Cursors` are those a client reaches that follows the history from its start.

Left out: timestamps, byte and file counters, the one-time migration.

### RevisionStore and Archive

The archive of one repository: `directory`, `manifest` and `file` are what is on
disk for each commit, `ref` the reference files, `lock` the `flock` of an
extension.  A file's content is the identity of the writer that made it, so that
two different downloads of one path are different and a mix-up is seen.
`Writer` is an operation that publishes or extends (`Fetching` are those that
publish the directory they fetched into; the others copy and flush), `Remover`
one that deletes.  `Stop` is the death of a writer's process, `PowerLoss` what a
loss of power may take back: `stale` are the manifests that could come back
because a directory has not been flushed since, `unsynced` the renamed paths,
`unflushed` the files without their bytes.

Abstractions: work on private directories is merged into the first step that
touches shared state; a reference's rename and its flush are one step; deletions
are durable at once; paths have one level; the directories above a revision, which
the first publication of a repository makes and never flushes, are durable from the
start (`PublishSync`; section 6).

`Archive` is the promise: `Publish` makes a revision appear, `Extend` only adds
files, `SetRef` needs a revision that is there, `Condemn` an unreferenced one,
`Settle` withdraws the licence of a loss of power to undo what was acknowledged.
Who publishes or extends may do without that licence from the start, as `PullThrough`
does, for which a publication is on disk when it ends.
The refinement maps a revision to what its manifest lists with the bytes found
there, and to nothing from the start of its deletion.

### ArchiveReaders

`read` is what one reader does and has read so far; each action is one call of
the file system (a reference, a manifest, a file's metadata, its bytes, a listing
of a directory), and the store moves between any two.  A download resolves, reads
the manifest, opens the file, and sends it; its validator comes from the manifest
and its bytes from the file.  `verify` resolves each file by the manifest of that
moment and compares the set of files with the manifest read first.  The
self-check looks at manifests and file metadata, then at references, which it
compares with the revisions it has found.  `since` is history, the measure of the
properties: what was held when the reader began, what has been wrong all the time,
what has been complete and undisturbed all the time.

Abstractions: one repository, a listing of a directory is taken at once, names
that no operation of the program writes do not occur, and of a file that lost its
bytes to a loss of power the size may be right or wrong.

### FetchStaging and StagingListing

The directories under `tmp/` for one repository and revision.  `place` is the
prefix of the name (`.fetch-active-`, `fetch-abandoned-`) or that it is gone;
a path is a directory with the number of its name, since every rename draws a
fresh `operation_id`.  `lease` counts heartbeat intervals; 0 is a lease file that
has expired, -1 no lease file.  `recorded` and `commit` are the identity file.
`heart` is the heartbeat thread, with its own step between writing its `.part`
and renaming it.  A request is a process with its acquisition: within one process
the gate admits one per repository, so the other party is another process (the
command line beside the server) or the next life of this one.

`Examine` is one entry of the two loops of `acquire_fetch_staging`; a claim is
three steps (`ClaimRenew`, `ClaimRename`, `ClaimFinish`), a new directory three
(`Make`, `MakeLease`, `MakeIdentity`), a preservation two, a publication four
(`PublishList`, `PublishClean`, `PublishUnlease`, `PublishRename`), a removal by an
operator three (`RemovalCheck`, `RemovalOpen`, `RemovalDone`), because
`remove_dir_all` goes on in a directory it has opened even when that is renamed.
`Removable` is what a removal reads before it deletes.

`StagingListing` adds the listing and the self-check's view of staging: an entry's
lease is read and then its identity, by a name taken earlier.  One entry is
followed at a time, from an expired lease on: with any other lease the verdict is
final at that read.

Abstractions: in the loops of an acquisition an entry's identity and lease are
read in one step; a heartbeat whose directory was renamed ends at once (it would
find its path gone); writes within a directory that is there do not fail, but for
a heartbeat's.  `Blocked` says whether the revision may exist half removed; only
then does it matter whether an acquisition is a pull-through or a refresh
(`Operation`).

Assumption, in `Timely`: a heartbeat comes, and a claim, a preservation or the
tail of a publication gets on, before the lease it works under runs out.  The code
has 120 s of lease for a 30 s heartbeat.  Without it no lease protects anything.

### ColdMiss

One key of the single flight (flights of different keys share nothing but the
map).  A waiter's `cursor` is the number of the next event it will take; `Attach`
sets it one event behind, `Scan` is one turn of the loop of `Flight::wait` under
the flight's lock, `Observe` the relaying after it.  `Notified` is `notify_all`; a
sleeper wakes by it or by its deadline.  The flight's thread goes through
`run_fetch`: spawn, `attach` (which stops the helper if the token is cancelled),
the reading loop, `reclaim`, the judgement of what it read, the wait for the exit,
`commit`, and the end of the flight under the registry's lock (`Retire`).  `handle`
says who holds the process, the thread or the token; whoever holds it reaps it.
The helper may write any line, close its end of the pipe, exit with any status, or
do nothing for ever.

Abstractions: the pipe holds one line; a line is one of the classes that the
protocol's judgement tells apart; the history of 64 events never fills, so no
waiter skips one; the resolved commit is in `FetchStaging`; publication is one step
with two results, of which `failed` also stands for a panic of the thread.

### PullThrough

A flight carries the name of the caller that leads it.  A caller goes through
`file_response`, the metadata route, or a job; a flight through `run_acquisition`:
register, reconcile with the record or upstream's inventory (`Reconcile`,
`Inventory`, `Compare`), look at the archive again (`Check`), the gate, the
staging (`Stage`, which pins the commit of what it resumes), the helper
(`FetchResolve`, `FetchDone`), the claim, the publication or extension, the record of
upstream's file list, the reference, the adoption of a name that metadata learned.
Each read of the archive or of upstream is a step of its own, so `head` may move
and others may publish in between.  `mishaps` are failures of upstream,
cancellations and passed deadlines.

Abstractions: the archive is the abstract one, without removals and losses of power
(`UsesArchive` says so: a file of a revision is one of its commit); commits are
numbered in the order upstream's reference named them; one mutable reference;
`Wishes` are the requests that callers may come with; an allow-list of patterns is
a set of paths with the kind `pattern`, which cannot be reconciled from a record.
`named`, the memory of what metadata resolved, has one entry: the code keeps at most
`MAX_RESOLVED_REFS` (1024) and drops what comes after, and a restart loses all of them;
neither is modelled, so `NameIsLearned` is about names that are still remembered.

## 4. Runs

| run | instance | result |
|---|---|---|
| `transfer_gate` | 3 repositories, 2 slots, 5 tickets | passes |
| `job_store` | an acquisition and a walk, 2 jobs, 1 cancellation, 1 failing write, 1 restart | passes |
| `job_keys` | 2 walks, 2 principals, 2 keys, 2 jobs, pages of one, 1 failing write, 2 restarts | passes |
| `revision_store` | 2 commits, 2 paths, 2 acquisitions, an import, a remover, 3 operations, 1 death, 1 loss of power | passes |
| `readers` | one reader of any of six kinds, 2 acquisitions, a remover, 2 commits, 2 paths, 2 operations, 1 death, 1 loss of power | passes |
| `staging` | 2 processes, 2 selections, 2 operations, 2 directories, a revision that may be half removed, 2 faults | passes |
| `staging_live` | 2 pull-throughs, 1 selection, 3 directories, a revision that may be half removed, 1 fault | passes |
| `cold_miss` | a client with a deadline that asks again and a job without one, 2 flights, 2 lines, 2 classes of failure | passes |
| `pull_through` | 2 callers with any two of ten requests, 2 commits that share a path of 3, 1 mishap | passes |
| `job_cancel`, `store_flush`, `pull_prefetch` | the smallest instance that shows it; `pull_prefetch` that of `pull_through` | violated: section 6 |

What they show, and why the bounds are enough:

- `transfer_gate`: slots are exactly those of the callers that hold or are owed a
  permit (`SlotsAccounted`); a ticket waits only behind a full gate or its own
  repository (`NoStrandedWaiter`); nobody is admitted past an older ticket that
  could run (`NoOvertaking`); every wait ends (`EveryWaitEnds`).  Five tickets over
  three repositories and two slots give queues with two tickets of one repository
  behind another's, the shapes that `promote`'s index arithmetic tells apart.  The
  safety properties, and that the limit is kept, are proved for all bounds.
- `job_store`: one active job per request, a job once shown as ended, by any
  read, is shown so by all for ever unless a failed write left its record ahead of the
  memory (`TerminalIsFinal`), a startup ends every interrupted job, and while no
  write fails every job ends.  Two jobs and a cancellation are the parties that
  meet in one record; a third adds no critical section.  `job_keys` checks the
  indexes without threads, where a write may fail and the process die at every
  point of a submission: a record is on exactly one page, found by its key and by
  the next startup (`RecordsIndexed`), and an answer given to a key holds
  (`AnswersHold`).  Splitting the two keeps each exhaustive.
- `revision_store`: three operations are an extension of what another published
  beside a third that publishes, removes or extends; two paths make a half-moved
  extension visible.  The invariants and the refinement are proved for all bounds.
- `readers`: what was archived when a request came is served with its own bytes
  (`HeldIsServed`); a verification passes nothing that was broken all the while and
  rejects nothing that was undisturbed (`VerifyTells`); the self-check reports what
  it can see and accuses nothing sound (`ReportIsTrue`).  Readers do not affect one
  another, so one of each kind is enough; two operations are a publication and
  what extends, interrupts or removes it under the reader.
- `staging`: nobody takes the directory of a running acquisition (`LeaseProtects`),
  a directory that can be resumed is dropped only by its owner or an operator
  (`CommittedKept`), and one is listed as resumable only if it was (`ListingTells`,
  but for the mixture of two faults that its comment describes).
  Two processes are enough for every race between a pair; a directory may be left
  by an earlier process, and two faults are a death during the recovery from
  another.  A lease of two intervals has the three values that the code tells
  apart.  `staging_live` has a third directory, one for each process and one left
  behind: a pull-through that is refused and asks again is admitted, and no lease
  is renewed for nobody.
- `cold_miss`: the flight of the key is the only one that works (`OneFlight`), who
  waits to the end hears the end of its own flight (`ToldTheEnd`), no helper is left
  without someone to reap it (`NoOrphan`), the first reason a helper gave is told
  (`ReasonIsTold`), every wait that can end does.  Two flights are a retry that
  starts while the first flight's waiters have not woken; two lines are a failure
  after or before a result, or progress beside either.
- `pull_through`: the ten requests are a file by name and by commit, metadata,
  prefetches of all, of one, of two files and of a pattern, by commit and by name,
  a refresh and a dry run.  A success means that what was asked for is archived
  (`AskedIsArchived`), whoever led the flight; who waited for the slot transfers
  only what is still missing (`WaitedTransfersTheRest`); a name that metadata
  answered is there once its commit is (`NameIsLearned`); what was cancelled changes
  nothing (`CancelledChangesNothing`); everyone is answered.  Two commits that share
  a path are a reference that moves once, at any moment; every race of the code
  here is between two callers of one repository, with two exceptions that take three:
  a backward adoption (section 6), and a download that shares a prefetch's flight and
  learns that its file does not exist.  That clause of `AskedIsArchived` is proved, and
  TLC met it with three callers; in this run it has no instance.

`CHECK_DEADLOCK FALSE` is in every configuration because each of them bounds the
work (tickets, jobs, operations, admissions, flights, requests): when all is done
the model stops.  That nobody is stuck before that is what the liveness properties
(`EveryWaitEnds`, `EveryJobEnds`, `EveryRetryAdmitted`, `EveryCallerAnswered`) and
`NoStrandedWaiter` say.  The bounds themselves are the `Max...` constants, each in
the guard of what it bounds.

Symmetry is declared only in runs without liveness: over keys and principals in
`job_keys`, over commits, paths and fetching writers in the runs of the store, over
processes in `staging`.

### Fairness

- Gate: `WF` of taking a grant, of leaving when cancelled, and of releasing.  The
  first two hold since a waiter polls every 50 ms; the third since a transfer ends
  when its helper exits or is killed.  Nothing makes anybody enter or cancel.
- Jobs: `WF` of the steps of a job's thread and of a flight, which are threads
  that are never blocked for ever, and of recovery, which runs before serving.  A
  restart, a cancellation and a submission are never forced.
- Staging: `WF` of each process's steps (a refused caller asks again, which is
  what a client's retry does), of each heartbeat, of an operator's removal and of
  time.  A death, a failure and a new request are never forced.
- Cold miss: `WF` of each waiter's steps, its deadline among them, and of the
  flight's thread and the exit of a helper that has closed its end of the pipe.
  A helper need not write nor end, so a wait without deadline is only promised to
  end once its flight has ended or is cancelled.
- Pull-through: `WF` of each caller's and each flight's steps; here a helper that
  runs ends (`cold_miss` has the other case).  Failures, cancellations, deadlines,
  and the move of upstream's reference are never forced.

## 5. Proofs

`TransferGate_proofs`, from `Limit >= 1`, `MaxTickets` a natural number and
`NoRepository` no repository.  `GateInv` is `TypeOK`, that every ticket is in one
place (not drawn, waiting, granted, holding or gone), that the slots in use are
within the limit, `SlotsAccounted` and `NoStrandedWaiter`.  None of the last three
is inductive alone: that a promotion cannot give a repository two slots needs the
accounting, and the accounting needs that a ticket is in one place.  The centre is
`PromoteSound`: any set that satisfies the equation `Admits` consists of the oldest
tickets of idle repositories and leaves nobody stranded.  `NoOvertaking` is then
proved as an action property, and `LimitHolds` says that the limit is kept.
`PromotionIsDetermined` shows that the equation has exactly one solution for every queue,
so that defining a promotion by it blocks no step and leaves no choice; the argument
goes along the queue by what one turn of the loop does (`ScanOne`).  `ScanStops` is the
loop's early end: at a full gate what it has not looked at would not be admitted.
`LoopIsThePromotion` is about the loop itself, index, deque and early end included.  Its
invariant `LoopAt` says between two turns that the deque is in order and is what the queue
has left, that the tickets looked at are older than those ahead, and that those admitted
are what the equation admits of them (`TurnKeeps`, by `PassOver` and `TakeOut`); `Left`,
which every turn lowers, ends it within `MaxTickets` turns (`LoopStops`).  Where an
induction is needed, on the number of turns or along the deque (`DequeExists`, `DequeIs`),
the proof takes the least counterexample, which the prover can, where an induction
theorem over an operator it cannot.

`RevisionStore_proofs`, from `WriterAssumption`, `BoundsAssumption` and
`NoneAssumption`.  `StoreInv` is `TypeOK`, `DiskInv` (what every revision that is
not being deleted satisfies: its manifest's files are there; what may come back
after a loss of power lists less than what is there) and, for each writer,
`WriterInv` (what its steps so far have made true under the lock it holds).
`ListedIsIntact` alone says nothing of the files an extension has moved but not
listed yet, so it is not inductive.

`RevisionStore_refines` adds to it that a directory is published or condemned, that
abstract history has been seen, and that nothing is left over while no operation
died; from there `SettledVerifies`, and that every step is one of `Archive` or a
stutter.  Publication, swap, acknowledgement, reference, deletion and loss of power
each map to one abstract action; all other steps show a reader nothing.

`ColdMiss_proofs`, from `WaiterAssumption`, `BoundsAssumption` and `ClassAssumption`
(a class of failure is none of the model's other words).  `ColdMissInv` says of each
flight who holds its helper at each step of its thread, that the first failure the
helper wrote is what the thread has kept or the very next line it reads, and that the
key names the flight whose thread is at work; of each waiter, that its cursor does
not pass its flight and that a result is taken only after every event.  `OneFlight`,
`ToldTheEnd`, `NoOrphan` and `ReasonIsTold` follow.  None is inductive: `NoOrphan` at the
exit needs to know who held the helper while its thread read, and `ReasonIsTold` what
was still in the pipe.

`JobStore_proofs`, from `RequestAssumption`, `KeyAssumption`, `BoundsAssumption` and
`NoneAssumption`.  `JobInv` relates memory, records and indexes: a job in memory is
active, recorded under the same identity and marked; a record is in the history; the
entry of a key and the record it names agree; while a startup looks at the markers
nothing is in memory and all that is still active lies ahead of it.  `SubmitNewKeeps` is
the heart, one case for each of `persist_new`'s writes and for each way it can fail;
threads, flights and cancellations reach the records only by `Update` (`UpdateKeeps`).
`TerminalIsFinal` rests on two facts of a step (`ShownAsEnded`): a terminal record that is
not in memory is left alone, and memory and disk come apart only in a failing write.
`OneActivePerRequest`, `AnswersHold`, `TerminalIsFinal` and `StartupEndsEveryJob` follow.
Of `RecordsIndexed` the keys and markers are parts of `JobInv`; that a record is on
exactly one page is a theorem about pages.  A page and what is older than its next
cursor tile what was older than its own (`PagesTile`); a client's cursors are a chain,
since no next cursor skips another (`AllMet`), so no job is on two pages (`OnePage`);
and the oldest cursor that still has a job ahead of it has it on its page
(`SomePage`).

`FetchStaging_proofs`, from `SelectionAssumption`, `LeaseAssumption` (at least two
heartbeat intervals), `OperationAssumption` and `BoundsAssumption`.  The argument is about
names.  An owner works under a name that it has made itself, so no two owners share one
(`OwnersApart`).  Anyone else learns a name by listing and acts on it only if its lease
had expired when it was read; while no renewal fails an owner's lease does not expire
(`LeaseKept`), so nobody else acts on an owner's name (`Untouched`).  `StagingInv` is
these with the types, that no name is known before it is given (`NamesKnown`), that a
heartbeat is its owner's (`HeartsTrue`), and that an owner's directory is there until an
operator removes it (`OwnerPresent`).  `LeaseProtects` and `CommittedKept` follow.
`RenewedIsOwned` has an invariant of its own beside it, and the hypothesis that no refresh
meets a half removed revision (`"refresh" \notin Operation \/ ~ Blocked`): without it the
code breaks it (section 6).  `ListingInv` adds what the listing remembers of an entry, and
gives `ListingTells`.

`PullThrough_proofs`, from `FilesAssumption`, `NamesAssumption`, `NoneAssumption` (no value
is no set of files), `WishesAssumption` (what a request of each kind looks like) and
`BoundsAssumption`.  `PullInv` says of a flight that
what it was asked for is archived or still wanted (`Wanted`), that its commit is the one
it was asked for, when it resumes another's staging too (`CommitsNamed`), and that it
claims before it changes anything (`ClaimsFirst`); of a caller that it waits for a flight
that was asked for the same (`OwnWay`) and is answered truly (`Answered`); of the gate
that who transfers holds the slot (`SlotHeld`), which makes the second look of a prefetch
last (`RestOnly`).  `AskedIsArchived`, `WaitedTransfersTheRest`, `NameIsLearned` and
`CancelledChangesNothing` follow.  `AskedIsArchived` alone speaks of answers, so it says
nothing of the flight that is about to give one.  `PullUsesArchive` joins this module to
the archive's: every step is one of `Archive` or leaves the archive alone.  `UseInv` adds
what that needs: a flight that has claimed brings at least one file, what a flight or a
caller is about to make the reference name is published, and so is what it names.  So a
step of the composition asks nothing of the archive that the directories of
`RevisionStore` do not give.  TLC checked the refinement on the instance of `pull_through`
before it was proved; no run of the project repeats it.

`ArchiveReaders_proofs`, from the store's assumptions and `ReaderAssumption` (the kinds of
reader, and that a reference's name is no commit: `http.rs` 745 takes 40 hexadecimal
digits for a commit).  It rests on `StoreInv` and two facts that readers need of
directories.  A reader puts its answer together from several moments; the lemma
`StoreGoesOn` says what a step of the store leaves true of a revision that nobody
deletes (what is listed stays listed with the same digest; what is undisturbed keeps its
manifest), and `ReaderInv` what each reading leaves true until the answer: what was held
is behind a walk or before it (`Keeping`), what was wrong all the time is reported or
still to be met (`Verifying`, `Checking`).  `HeldIsServed`, `VerifyTells` and `ReportIsTrue`
follow.

Each of these invariants was checked by TLC on its run's instance before it was proved.

Only model-checked: the liveness properties (`EveryWaitEnds` twice, `EveryJobEnds`,
`EveryRetryAdmitted`, `EveryCallerAnswered`), which are out of the
prover's reach; and what the three violated runs refute.

## 6. Where the code and its documents differ

Each of these is a run whose property quotes what is said and which TLC violates.

- `job_cancel`: a job can be `cancelled` and published.  `cancel` decides under one
  lock whether there is an acquisition to stop, and marks the record under another;
  the job's thread may start the acquisition in between.
- `store_flush`: the files of a pull-through publication are hashed but never
  flushed, so a loss of power may leave a published manifest with torn files.
- `pull_prefetch`: a prefetch of everything by name, after the name has moved
  upstream, is answered with the older commit that the archive holds in part:
  reconciliation finds the new one unpublished (`pullthrough.rs` 1047), and the look at
  the archive that follows (1645) asks nothing of the old one.

Observed while modelling, and not the subject of a run:

- "A terminal record is never overwritten" (`admin.rs` 1023) does not hold after a
  write that failed at its directory flush (1378), when the record is already renamed.  A
  cancellation of a queued job is then answered with an error and undone in memory, the
  record on disk says `cancelled`, the history and a repeated submission show it so, and
  the job's thread overwrites it with `queued` and later with how it ended.  TLC
  refutes the claim without the exception in five states of `job_store`'s instance;
  `TerminalIsFinal` has the exception and shows that there is no other.
- `adopt_resolved_refs` (1206-1217) asks whether the archive has the reference and
  then writes it, so a refresh in between is undone and the reference moves backwards,
  which the comment at `pullthrough.rs` 1189-1192 excludes.  It takes three parties (metadata,
  a download by commit, a refresh): TLC finds it with three callers, and it cannot
  happen with the two of `pull_through`.  `NameIsLearned` says only that there is a
  reference.
- The directories above `revisions/` that `create_dir_all` makes for a new repository
  (`lib.rs` 738, 2634) are never flushed, so a loss of power soon after its first publication
  may take all of it.  The model takes them to be there.
- A request by name for a file that is missing acquires it and moves the reference
  (`pullthrough.rs` 1818), where `docs/adr/0012` (Decision) leaves that to a refresh.
- A refresh of a commit that is published already transfers everything, discards
  it and reports the commit as published.
- A file that upstream does not hold ends in an empty snapshot, which is answered
  500; `docs/modelkeep-api.md` 442 says 404.
- A flight that a download started is not reconciled after its wait for the slot,
  so a file shared with the transfer before it is transferred twice; the look
  before the gate resolves references only, so a request by commit that lost a race
  is transferred again.
- A failure that the helper reports as unavailable or rate-limited does not keep
  the staging directory (`handle_fetch_failure`).
- A reference that is set between a removal's scan of the references and its
  deletion names a deleted revision, against `docs/adr/0007` (Decision).  `Archive` allows
  exactly this case, in `RemoveStart`.
- A refresh that finds its revision half removed returns without removing its
  staging directory (`pullthrough.rs` 1504); the heartbeat renews that lease for the
  life of the process, so later acquisitions of it are refused.  Half a revision
  also makes the inventory of all repositories fail, and metadata answer an error.
- A key that was answered with an equivalent active job is not recorded, so
  repeating it later starts a second job.  A test has it so.
- A stream of progress that never pauses can carry a waiter past its deadline: the
  deadline is looked at when there is nothing to relay.
- The self-check looks whether one runs and starts one under different locks, so
  two requests may start two walks.  A revision that is published during the walk
  can be reported as a dangling reference; a verification that crosses an extension
  can report a mismatch.
- A staging directory that is renamed between the listing of names and the read of
  its lease is listed as having none, and so as removable.

Properties are stated with the exceptions that the code has, and the comment on
each says which: no failed write (`EveryJobEnds`), no operation that died
(`SettledVerifies`), no failed renewal and no operator's removal (`LeaseProtects`),
no failed renewal (`CommittedKept`), not both of them (`ListingTells`: a preservation
that comes too late leaves an expired lease, a claim by that name finds the directory
emptied by a removal, and its own new lease and identity are what the listing reads
next), no refresh of a half removed revision
(`RenewedIsOwned`, `EveryRetryAdmitted`), no deletion of the revision concerned (the properties of the
readers), a request that names a commit (the prefetches of `AskedIsArchived`).

## 7. Not modelled

- The one-time migration of the job indexes, and the counters of bytes and files.
- Nested directories of a revision, and the separate flush of a reference.
- A recovery record that startup skips because it cannot be read, and the measuring
  of the space that staging takes.
- Routing, headers, byte ranges, the layout of metadata documents, authentication,
  the management page, argument parsing: no state of their own.
- The importer's decoding of cache directory names; its publication is a writer of
  `RevisionStore`.
- `upstream/hf_fetch.py`: a client of an external library, in another process.  To
  `ColdMiss` it may write any line and exit in any way, or not at all.
