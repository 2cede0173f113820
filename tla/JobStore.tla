------------------------------ MODULE JobStore ------------------------------
(***************************************************************************)
(* The durable management jobs of ADR-0018: JobManager with its in-memory  *)
(* map of active jobs, the job records and the three indexes on disk, one  *)
(* detached thread per job, cancellation requests, and a process that may  *)
(* stop between any two steps and start again.                             *)
(*                                                                         *)
(* Every critical section of the lock on active_jobs is one action; the    *)
(* lock is held over the writes.  A write can fail, and how far it got is  *)
(* its outcome.  A process that dies half-way through a section is the     *)
(* section failing there, followed by Restart.  The acquisition a job      *)
(* joins is modelled by its single flight, one per request.                *)
(***************************************************************************)
EXTENDS Integers, FiniteSets

CONSTANTS
    Request,        \* kind, repository, revision and selection of a job
    Acquiring,      \* the prefetch and refresh requests; others walk the archive
    Principal,
    Key, NoKey,     \* hashed idempotency keys
    Canceller,      \* concurrent cancellation requests
    MaxJobs,        \* bound on job identifiers drawn
    PageLimit,      \* jobs of a page of the history
    MaxFailures,    \* bound on failed writes
    MaxRestarts,    \* bound on process restarts
    None            \* an absent record, index entry or thread

ASSUME RequestAssumption == Acquiring \subseteq Request
ASSUME KeyAssumption == NoKey \notin Key
ASSUME BoundsAssumption ==
    /\ MaxJobs \in Nat /\ MaxFailures \in Nat /\ MaxRestarts \in Nat
    /\ PageLimit \in Nat \ {0}

Job == 1 .. MaxJobs

Active == {"queued", "running"}
Terminal == {"completed", "failed", "cancelled"}

(* The fields of a job record the manager decides by.                      *)
Record == [request : Request, principal : Principal, key : Key \cup {NoKey},
           state : Active \cup Terminal, started : BOOLEAN]
Entry == [job : Job, request : Request, principal : Principal]

ASSUME NoneAssumption ==
    /\ None \notin Record /\ None \notin Entry /\ None \notin Nat
    /\ None \notin {"spawned", "working", "waiting", "published", "completed",
                   "failed", "starting", "running", "cancelled", "committing"}

VARIABLES
    active_jobs,    \* in memory: the record of each active job
    record,         \* on disk: <job>.json
    by_created,     \* on disk: jobs in the history index
    active_marker,  \* on disk: jobs in the index of active jobs
    idempotency,    \* on disk: the entry of each key
    unrecovered,    \* markers the startup has not looked at yet
    worker,         \* each job's thread: where it is, or the result it holds
    flight,         \* each acquiring request's single flight
    cancelling,     \* each cancellation request: its job and its next step
    drawn,          \* job identifiers drawn
    failures, restarts,
    answers,        \* history: submissions with a key answered with a job
    published       \* history: jobs whose acquisition published

disk == <<record, by_created, active_marker, idempotency>>
vars == <<active_jobs, record, by_created, active_marker, idempotency,
          unrecovered, worker, flight, cancelling, drawn, failures, restarts,
          answers, published>>

Result == {"published", "completed", "failed"}
Registered == {"running", "cancelled", "committing"}

InMemory == {j \in Job : active_jobs[j] # None}
OnDisk == {j \in Job : record[j] # None}
Serving == unrecovered = {}

Init ==
    /\ active_jobs = [j \in Job |-> None]
    /\ record = [j \in Job |-> None]
    /\ by_created = {}
    /\ active_marker = {}
    /\ idempotency = [k \in Key |-> None]
    /\ unrecovered = {}
    /\ worker = [j \in Job |-> None]
    /\ flight = [r \in Acquiring |-> None]
    /\ cancelling = [c \in Canceller |-> None]
    /\ drawn = 0
    /\ failures = 0
    /\ restarts = 0
    /\ answers = {}
    /\ published = {}

-----------------------------------------------------------------------------
(***************************************************************************)
(* persist.  The rename decides: before it nothing has changed ("lost").   *)
(* After it the directory sync can still fail, which the caller sees as an *)
(* error ("unsynced"), and a failing index is only logged ("unmarked").    *)
(* The history and idempotency indexes were written before the record.     *)
(***************************************************************************)
Outcome == {"ok", "unmarked", "unsynced", "lost"}

Succeeded(outcome) == outcome \in {"ok", "unmarked"}

(* set_active_marker: a marker for an active job, none for any other.      *)
Marked(j, rec) == IF rec.state \in Active THEN active_marker \cup {j}
                                          ELSE active_marker \ {j}

Persist(j, rec, outcome) ==
    /\ outcome # "ok" => failures < MaxFailures
    /\ failures' = IF outcome = "ok" THEN failures ELSE failures + 1
    /\ record' = IF outcome = "lost" THEN record ELSE [record EXCEPT ![j] = rec]
    /\ active_marker' = IF outcome = "ok" THEN Marked(j, rec) ELSE active_marker
    /\ UNCHANGED <<by_created, idempotency>>

Update(j, rec, outcome) ==
    /\ Persist(j, rec, outcome)
    /\ active_jobs' = IF ~ Succeeded(outcome) THEN active_jobs
                      ELSE IF rec.state \in Active
                           THEN [active_jobs EXCEPT ![j] = rec]
                           ELSE [active_jobs EXCEPT ![j] = None]

-----------------------------------------------------------------------------
(* Mutant of Stale: the entry of a job that has ended counts as stale.     *)
StaleWhenEnded(k) ==
    /\ k # NoKey /\ idempotency[k] # None
    /\ idempotency[k].job \in OnDisk => record[idempotency[k].job].state \in Terminal

(* An entry whose record is missing is what a submission that died before  *)
(* its record left behind; the next submission with the key removes it.    *)
Stale(k) == k # NoKey /\ idempotency[k] # None /\ idempotency[k].job \notin OnDisk
Repaired(k) == IF Stale(k) THEN [idempotency EXCEPT ![k] = None] ELSE idempotency
Known(k) == k # NoKey /\ idempotency[k] # None /\ ~ Stale(k)

(* Mutant of Equivalent: only running jobs are looked at.                  *)
EquivalentRunning(j, r) ==
    j \in InMemory /\ active_jobs[j].request = r /\ active_jobs[j].state = "running"

Equivalent(j, r) ==
    j \in InMemory /\ active_jobs[j].request = r /\ active_jobs[j].state \in Active

Answered(r, p, k, j, how) ==
    answers' = answers \cup
        IF k = NoKey THEN {}
        ELSE {[request |-> r, principal |-> p, key |-> k, job |-> j, how |-> how]}

(* submit, of a key whose entry is for the same request and principal: the *)
(* recorded job is the answer.  Another request or principal is a conflict *)
(* and changes nothing.                                                    *)
SubmitReplay(r, p, k) ==
    /\ Serving
    /\ Known(k)
    /\ idempotency[k].request = r /\ idempotency[k].principal = p
    /\ Answered(r, p, k, idempotency[k].job, "recorded")
    /\ UNCHANGED <<active_jobs, disk, unrecovered, worker, flight, cancelling,
                   drawn, failures, restarts, published>>

(* submit, while an equivalent job is active: that job is the answer.      *)
SubmitDuplicate(r, p, k) ==
    /\ Serving
    /\ ~ Known(k)
    /\ idempotency' = Repaired(k)
    /\ \E j \in Job :
        /\ Equivalent(j, r)
        /\ Answered(r, p, k, j, "deduplicated")
    /\ UNCHANGED <<active_jobs, record, by_created, active_marker, unrecovered,
                   worker, flight, cancelling, drawn, failures, restarts,
                   published>>

(* ensure_idempotency_index: the entry that a record's key leads to.       *)
EntryOf(j, rec) == [job |-> j, request |-> rec.request, principal |-> rec.principal]

(* Mutant of PersistNew: the record is written before its indexes.         *)
PersistRecordFirst(j, rec, done) ==
    /\ record' = IF done >= 1 THEN [record EXCEPT ![j] = rec] ELSE record
    /\ by_created' = IF done >= 2 THEN by_created \cup {j} ELSE by_created
    /\ idempotency' = IF done >= 3 /\ rec.key # NoKey
                      THEN [idempotency EXCEPT ![rec.key] = EntryOf(j, rec)]
                      ELSE Repaired(rec.key)
    /\ active_marker' = IF done >= 4 THEN active_marker \cup {j} ELSE active_marker

(* persist_new: the history index, the key's entry, the active marker and  *)
(* only then the record; `done` of these four writes are made.             *)
PersistNew(j, rec, done) ==
    /\ by_created' = IF done >= 1 THEN by_created \cup {j} ELSE by_created
    /\ idempotency' = IF done >= 2 /\ rec.key # NoKey
                      THEN [idempotency EXCEPT ![rec.key] = EntryOf(j, rec)]
                      ELSE Repaired(rec.key)
    /\ active_marker' = IF done >= 3 THEN active_marker \cup {j} ELSE active_marker
    /\ record' = IF done >= 4 THEN [record EXCEPT ![j] = rec] ELSE record

(* submit, of a new job: it is written, put in memory and its thread       *)
(* started.  A failing write is an error for the client, even one after    *)
(* the record was renamed into place.                                      *)
SubmitNew(r, p, k, done) ==
    LET j   == drawn + 1
        rec == [request |-> r, principal |-> p, key |-> k,
                state |-> "queued", started |-> FALSE]
    IN  /\ Serving
        /\ j \in Job
        /\ ~ Known(k)
        /\ \A i \in Job : ~ Equivalent(i, r)
        /\ drawn' = j
        /\ PersistNew(j, rec, done)
        /\ \/ /\ done = 4
              /\ active_jobs' = [active_jobs EXCEPT ![j] = rec]
              /\ worker' = [worker EXCEPT ![j] = "spawned"]
              /\ Answered(r, p, k, j, "recorded")
              /\ UNCHANGED failures
           \/ /\ failures < MaxFailures
              /\ failures' = failures + 1
              /\ UNCHANGED <<active_jobs, worker, answers>>
        /\ UNCHANGED <<unrecovered, flight, cancelling, restarts, published>>

-----------------------------------------------------------------------------
(* run, up to the work: a job cancelled before its thread started is no    *)
(* longer in memory.  When the write fails, update hands back the previous *)
(* record, and the thread goes on with it.                                 *)
RunStart(j, outcome) ==
    /\ worker[j] = "spawned"
    /\ IF j \in InMemory
       THEN /\ Update(j, [active_jobs[j] EXCEPT
                             !.started = TRUE,
                             !.state = IF active_jobs[j].request \in Acquiring
                                       THEN "queued" ELSE "running"], outcome)
            /\ worker' = [worker EXCEPT ![j] = "working"]
       ELSE /\ outcome = "ok"
            /\ worker' = [worker EXCEPT ![j] = None]
            /\ UNCHANGED <<active_jobs, disk, failures>>
    /\ UNCHANGED <<unrecovered, flight, cancelling, drawn, restarts, answers,
                   published>>

(* The request of a job never changes; its thread holds its own copy.      *)
RequestOf(j) == record[j].request

(* The thread starts its request's flight or joins the one in the air.     *)
Join(j) ==
    /\ worker[j] = "working"
    /\ RequestOf(j) \in Acquiring
    /\ worker' = [worker EXCEPT ![j] = "waiting"]
    /\ flight' = IF flight[RequestOf(j)] = None
                 THEN [flight EXCEPT ![RequestOf(j)] = "starting"] ELSE flight
    /\ UNCHANGED <<active_jobs, disk, unrecovered, cancelling, drawn, failures,
                   restarts, answers, published>>

(* A verify or audit ends, or an acquisition fails before its flight       *)
(* (pull-through disabled, a selection that no longer validates).          *)
Walk(j, result) ==
    /\ worker[j] = "working"
    /\ result = "completed" => RequestOf(j) \notin Acquiring
    /\ worker' = [worker EXCEPT ![j] = result]
    /\ UNCHANGED <<active_jobs, disk, unrecovered, flight, cancelling, drawn,
                   failures, restarts, answers, published>>

(* record_progress, called by the job's thread while it waits for the      *)
(* flight.  Until the flight reports more than resolving or waiting for a  *)
(* slot the job stays queued.  A job no longer in memory is left alone.    *)
Progress(j, transferring, outcome) ==
    /\ worker[j] = "waiting"
    /\ flight[RequestOf(j)] \in Registered \cup Result
    /\ j \in InMemory
    /\ Update(j, [active_jobs[j] EXCEPT
                     !.state = IF transferring THEN "running" ELSE @], outcome)
    /\ UNCHANGED <<unrecovered, worker, flight, cancelling, drawn, restarts,
                   answers, published>>

(* Mutant of RunEnd: the result is written without asking whether the job  *)
(* is still active.                                                        *)
RunEndUnchecked(j, outcome) ==
    /\ worker[j] \in Result
    /\ worker' = [worker EXCEPT ![j] = None]
    /\ Update(j, [record[j] EXCEPT
                     !.state = IF worker[j] = "failed" THEN "failed" ELSE "completed"],
              outcome)
    /\ UNCHANGED <<unrecovered, flight, cancelling, drawn, restarts, answers,
                   published>>

(* run, after the work: the result is recorded if the job is still active. *)
RunEnd(j, outcome) ==
    /\ worker[j] \in Result
    /\ worker' = [worker EXCEPT ![j] = None]
    /\ IF j \in InMemory
       THEN Update(j, [active_jobs[j] EXCEPT
                          !.state = IF worker[j] = "failed" THEN "failed"
                                    ELSE "completed"], outcome)
       ELSE outcome = "ok" /\ UNCHANGED <<active_jobs, disk, failures>>
    /\ UNCHANGED <<unrecovered, flight, cancelling, drawn, restarts, answers,
                   published>>

-----------------------------------------------------------------------------
(***************************************************************************)
(* The flight of a request.  Its thread registers the acquisition, which   *)
(* is when it can be found and cancelled; claims the right to publish,     *)
(* which a cancellation that came first refuses; and ends by dropping the  *)
(* registration and then handing its result to everyone who joined.        *)
(***************************************************************************)
(* A client request for the same work starts the same flight (a job that   *)
(* comes later joins it); clients that join later change nothing here.     *)
ClientStarts(r) ==
    /\ flight[r] = None
    /\ flight' = [flight EXCEPT ![r] = "starting"]
    /\ UNCHANGED <<active_jobs, disk, unrecovered, worker, cancelling, drawn,
                   failures, restarts, answers, published>>

FlightRegister(r) ==
    /\ flight[r] = "starting"
    /\ flight' = [flight EXCEPT ![r] = "running"]
    /\ UNCHANGED <<active_jobs, disk, unrecovered, worker, cancelling, drawn,
                   failures, restarts, answers, published>>

FlightCommit(r) ==
    /\ flight[r] = "running"
    /\ flight' = [flight EXCEPT ![r] = "committing"]
    /\ UNCHANGED <<active_jobs, disk, unrecovered, worker, cancelling, drawn,
                   failures, restarts, answers, published>>

(* "completed" is an acquisition that found everything archived already.   *)
FlightEnd(r, result) ==
    /\ flight[r] \in Registered
    /\ result \in IF flight[r] = "committing" THEN {"published", "failed"}
                  ELSE {"completed", "failed"}
    /\ flight' = [flight EXCEPT ![r] = result]
    /\ UNCHANGED <<active_jobs, disk, unrecovered, worker, cancelling, drawn,
                   failures, restarts, answers, published>>

Joined(r) == {j \in Job : worker[j] = "waiting" /\ RequestOf(j) = r}

(* Mutant of FlightRetire: a cancelled flight retires at once, and its     *)
(* waiters are handed the token's state for a result.                      *)
FlightRetireCancelled(r) ==
    /\ flight[r] \in Result \cup {"cancelled"}
    /\ worker' = [j \in Job |-> IF j \in Joined(r) THEN flight[r] ELSE worker[j]]
    /\ published' = IF flight[r] = "published" THEN published \cup Joined(r)
                    ELSE published
    /\ flight' = [flight EXCEPT ![r] = None]
    /\ UNCHANGED <<active_jobs, disk, unrecovered, cancelling, drawn, failures,
                   restarts, answers>>

FlightRetire(r) ==
    /\ flight[r] \in Result
    /\ worker' = [j \in Job |-> IF j \in Joined(r) THEN flight[r] ELSE worker[j]]
    /\ published' = IF flight[r] = "published" THEN published \cup Joined(r)
                    ELSE published
    /\ flight' = [flight EXCEPT ![r] = None]
    /\ UNCHANGED <<active_jobs, disk, unrecovered, cancelling, drawn, failures,
                   restarts, answers>>

-----------------------------------------------------------------------------
(* cancel, first lock: a started acquisition must be stopped before its    *)
(* record is marked.  A job that is not in memory is answered from disk.   *)
CancelRead(c, j) ==
    /\ Serving
    /\ cancelling[c] = None
    /\ j \in InMemory
    /\ cancelling' = [cancelling EXCEPT ![c] =
         [job |-> j,
          step |-> IF active_jobs[j].started /\ active_jobs[j].request \in Acquiring
                   THEN "stop" ELSE "mark"]]
    /\ UNCHANGED <<active_jobs, disk, unrecovered, worker, flight, drawn,
                   failures, restarts, answers, published>>

(* cancel, without the lock: cancel_matching_acquisition.  None found, or  *)
(* one past its publication claim, is answered already_finishing.          *)
CancelStop(c) ==
    /\ cancelling[c] # None /\ cancelling[c].step = "stop"
    /\ LET r == RequestOf(cancelling[c].job)
       IN  IF flight[r] \in {"running", "cancelled"}
           THEN /\ flight' = [flight EXCEPT ![r] = "cancelled"]
                /\ cancelling' = [cancelling EXCEPT ![c].step = "mark"]
           ELSE /\ cancelling' = [cancelling EXCEPT ![c] = None]
                /\ UNCHANGED flight
    /\ UNCHANGED <<active_jobs, disk, unrecovered, worker, drawn, failures,
                   restarts, answers, published>>

(* cancel, second lock: whatever the job is now, if it is still active it  *)
(* becomes cancelled.                                                      *)
CancelMark(c, outcome) ==
    /\ cancelling[c] # None /\ cancelling[c].step = "mark"
    /\ LET j == cancelling[c].job
       IN  IF j \in InMemory
           THEN Update(j, [active_jobs[j] EXCEPT !.state = "cancelled"], outcome)
           ELSE outcome = "ok" /\ UNCHANGED <<active_jobs, disk, failures>>
    /\ cancelling' = [cancelling EXCEPT ![c] = None]
    /\ UNCHANGED <<unrecovered, worker, flight, drawn, restarts, answers,
                   published>>

-----------------------------------------------------------------------------
(* The process stops, by a crash or a redeployment, and starts again: its  *)
(* threads and memory are gone, and open lists the active markers.         *)
Restart ==
    /\ restarts < MaxRestarts
    /\ restarts' = restarts + 1
    /\ active_jobs' = [j \in Job |-> None]
    /\ worker' = [j \in Job |-> None]
    /\ flight' = [r \in Acquiring |-> None]
    /\ cancelling' = [c \in Canceller |-> None]
    /\ unrecovered' = active_marker
    /\ UNCHANGED <<disk, drawn, failures, answers, published>>

(* Mutant of Recover: a queued job is taken for one that never began; the *)
(* marker goes and the record stays as it is.                              *)
RecoverRunning(j, outcome) ==
    /\ j \in unrecovered
    /\ IF j \in OnDisk /\ record[j].state = "running"
       THEN Persist(j, [record[j] EXCEPT !.state = "failed"], outcome)
       ELSE /\ outcome = "ok"
            /\ active_marker' = active_marker \ {j}
            /\ UNCHANGED <<record, by_created, idempotency, failures>>
    /\ unrecovered' = IF Succeeded(outcome) THEN unrecovered \ {j} ELSE unrecovered
    /\ UNCHANGED <<active_jobs, worker, flight, cancelling, drawn, restarts,
                   answers, published>>

(* open, for one marker: a marker without a record is dropped; an active   *)
(* record becomes failed, "interrupted"; any other only loses its marker.  *)
(* A failed write ends the startup: nothing is served until a Restart.     *)
Recover(j, outcome) ==
    /\ j \in unrecovered
    /\ IF j \in OnDisk /\ record[j].state \in Active
       THEN Persist(j, [record[j] EXCEPT !.state = "failed"], outcome)
       ELSE /\ outcome = "ok"
            /\ active_marker' = active_marker \ {j}
            /\ UNCHANGED <<record, by_created, idempotency, failures>>
    /\ unrecovered' = IF Succeeded(outcome) THEN unrecovered \ {j} ELSE unrecovered
    /\ UNCHANGED <<active_jobs, worker, flight, cancelling, drawn, restarts,
                   answers, published>>

-----------------------------------------------------------------------------
(***************************************************************************)
(* What a client reads.  The number of a job stands for its place in the   *)
(* history, which is ordered by creation time and then by identifier.      *)
(***************************************************************************)
(* get: the active job of the memory, else the record.                     *)
Got(j) == IF j \in InMemory THEN active_jobs[j] ELSE record[j]

(* What a client may be shown of a job: get's answer, or the record on     *)
(* disk, which list_page and a repeated submit read even while the job is  *)
(* in memory.                                                              *)
Shown(j) == {Got(j), record[j]} \ {None}

(* list_page: the jobs of the history index with a record, older than the  *)
(* cursor; a cursor without record ends the history.                       *)
Older(cursor) ==
    {j \in by_created \cap OnDisk : cursor # None => cursor \in OnDisk /\ j < cursor}
Page(cursor) ==
    {j \in Older(cursor) : Cardinality({i \in Older(cursor) : i > j}) < PageLimit}
NextCursor(cursor) ==
    IF Page(cursor) = Older(cursor)
    THEN {} ELSE {j \in Page(cursor) : \A i \in Page(cursor) : j <= i}

(* list_jobs, followed from page to page: a client reads without cursor,   *)
(* then with the next one of every page it reads.                          *)
Cursors ==
    LET Followed == {S \in SUBSET OnDisk :
                        \A c \in S \cup {None} : NextCursor(c) \subseteq S}
    IN  {None} \cup {c \in OnDisk : \A S \in Followed : c \in S}

-----------------------------------------------------------------------------
Submit ==
    \E r \in Request, p \in Principal, k \in Key \cup {NoKey} :
        \/ SubmitReplay(r, p, k)
        \/ SubmitDuplicate(r, p, k)
        \/ \E done \in 0 .. 4 : SubmitNew(r, p, k, done)

Run(j) ==
    \/ \E outcome \in Outcome : RunStart(j, outcome)
    \/ Join(j)
    \/ \E result \in {"completed", "failed"} : Walk(j, result)
    \/ \E outcome \in Outcome : RunEnd(j, outcome)

Fly(r) ==
    \/ FlightRegister(r)
    \/ FlightCommit(r)
    \/ \E result \in Result : FlightEnd(r, result)
    \/ FlightRetire(r)

CancelJob(c) ==
    \/ \E j \in Job : CancelRead(c, j)
    \/ CancelStop(c)
    \/ \E outcome \in Outcome : CancelMark(c, outcome)

Next ==
    \/ Submit
    \/ \E j \in Job : Run(j)
    \/ \E j \in Job, t \in BOOLEAN, outcome \in Outcome : Progress(j, t, outcome)
    \/ \E r \in Acquiring : Fly(r) \/ ClientStarts(r)
    \/ \E c \in Canceller : CancelJob(c)
    \/ \E j \in Job, outcome \in Outcome : Recover(j, outcome)
    \/ Restart

Spec == Init /\ [][Next]_vars

(* Threads run; an upstream transfer ends, because its helper exits or is  *)
(* killed; a startup goes on.  Progress, clients and restarts owe nothing. *)
Fairness ==
    /\ \A j \in Job : WF_vars(Run(j))
    /\ \A r \in Acquiring : WF_vars(Fly(r))
    /\ \A j \in Job : WF_vars(\E outcome \in Outcome : Recover(j, outcome))

FairSpec == Spec /\ Fairness

-----------------------------------------------------------------------------
TypeOK ==
    /\ active_jobs \in [Job -> Record \cup {None}]
    /\ record \in [Job -> Record \cup {None}]
    /\ by_created \subseteq Job
    /\ active_marker \subseteq Job
    /\ idempotency \in [Key -> Entry \cup {None}]
    /\ unrecovered \subseteq Job
    /\ worker \in [Job -> {"spawned", "working", "waiting", None} \cup Result]
    /\ flight \in [Acquiring -> {"starting", None} \cup Registered \cup Result]
    /\ cancelling \in [Canceller -> [job : Job, step : {"stop", "mark"}] \cup {None}]
    /\ drawn \in 0 .. MaxJobs
    /\ failures \in 0 .. MaxFailures
    /\ restarts \in 0 .. MaxRestarts
    /\ answers \subseteq [request : Request, principal : Principal,
                          key : Key, job : Job, how : {"recorded", "deduplicated"}]
    /\ published \subseteq Job

(* A record that made it to disk can be found again after any crash: on    *)
(* exactly one page of the history, by the key it was submitted with, and, *)
(* while it is active, by the next startup.                                *)
RecordsIndexed ==
    LET reached == Cursors
    IN  \A j \in OnDisk :
        /\ Cardinality({c \in reached : j \in Page(c)}) = 1
        /\ record[j].key # NoKey =>
             idempotency[record[j].key] = EntryOf(j, record[j])
        /\ record[j].state \in Active => j \in active_marker

(* At no time are two jobs of the same request active, so no submission    *)
(* starts the same work twice.                                             *)
OneActivePerRequest ==
    \A i, j \in InMemory : active_jobs[i].request = active_jobs[j].request => i = j

(* A job told to a client under a key is there from then on, for its       *)
(* request; and but for answers that name an equivalent active job, a key  *)
(* names one job of one principal, for ever, whatever writes fail.         *)
AnswersHold ==
    \A a \in answers :
        /\ a.job \in OnDisk
        /\ record[a.job].request = a.request
        /\ a.how = "recorded" =>
            /\ record[a.job].principal = a.principal
            /\ \A b \in answers :
                b.how = "recorded" /\ b.key = a.key => b.job = a.job

(* The record on disk is ahead of the memory: an unsynced write, which its *)
(* caller took for one that failed.                                        *)
Ahead(j) == j \in InMemory /\ record[j] # active_jobs[j]

(* "A terminal record is never overwritten": a client that was shown a job *)
(* as ended, by get, by the history or by repeating its submission, is     *)
(* shown the same by each of them for ever, whatever its acquisition or a  *)
(* late cancellation still reports, across restarts.  The exception is a   *)
(* record that is ahead of the memory: it may be overwritten, but get      *)
(* never showed it, and only a failing write brings one about.             *)
TerminalIsFinal ==
    [][\A j \in Job :
         /\ \A rec \in Shown(j) : rec.state \in Terminal =>
                Shown(j)' = {rec} \/ (Ahead(j) /\ rec # Got(j))
         /\ Ahead(j)' => Ahead(j) \/ failures' > failures]_vars

(* When a startup has looked at the last marker, every record on disk is   *)
(* terminal: no interrupted job is still shown as queued or running, even  *)
(* if earlier writes failed or earlier startups died half-way.             *)
StartupEndsEveryJob ==
    [][unrecovered # {} /\ unrecovered' = {} =>
         \A j \in OnDisk' : record'[j].state \in Terminal]_vars

(* Every job that was accepted reaches a terminal record, by its own       *)
(* thread, a cancellation or the next startup, unless a write fails.       *)
EveryJobEnds ==
    \A j \in Job : (j \in OnDisk /\ record[j].state \in Active)
                     ~> (failures > 0 \/ (j \in OnDisk /\ record[j].state \in Terminal))

(* The comment on cancel: an acquisition is either published or its record *)
(* is cancelled, never both.  (It can be both: see the README.)            *)
CancelledPublishedNothing ==
    \A j \in published : record[j].state # "cancelled"
=============================================================================
