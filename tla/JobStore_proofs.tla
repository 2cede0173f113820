--------------------------- MODULE JobStore_proofs ---------------------------
(***************************************************************************)
(* Proofs about the durable management jobs, for any number of jobs, keys, *)
(* principals, failing writes and restarts.  The invariant relates the     *)
(* memory, the records and the indexes; the threads, the flights and the   *)
(* cancellations reach these only through Update, and only for a job that  *)
(* is still in memory, which is what most of the argument rests on.        *)
(***************************************************************************)
EXTENDS JobStore, FiniteSetTheorems, WellFoundedInduction, TLAPS

(* A later write of a job keeps its identity: only its state changes.      *)
SameJob(a, b) == a.request = b.request /\ a.principal = b.principal /\ a.key = b.key

StoreTypes ==
    /\ active_jobs \in [Job -> Record \cup {None}]
    /\ record \in [Job -> Record \cup {None}]
    /\ active_marker \subseteq Job
    /\ idempotency \in [Key -> Entry \cup {None}]
    /\ drawn \in 0 .. MaxJobs

(* Nothing names a job whose identifier has not been drawn.                *)
Undrawn ==
    /\ \A j \in Job : j > drawn => record[j] = None /\ active_jobs[j] = None
    /\ \A k \in Key : idempotency[k] # None => idempotency[k].job <= drawn

(* A job in memory is active, and a restart would find it.                 *)
MemoryOnDisk ==
    \A j \in Job : active_jobs[j] # None =>
        /\ active_jobs[j].state \in Active
        /\ record[j] # None /\ SameJob(active_jobs[j], record[j])
        /\ j \in active_marker

(* A record is in the history, and a restart finds it while it is active.  *)
RecordsMarked ==
    \A j \in OnDisk :
        /\ j \in by_created
        /\ record[j].state \in Active => j \in active_marker

(* A record and the entry of its key name each other.                      *)
KeysIndexed ==
    /\ \A j \in OnDisk : record[j].key # NoKey =>
          idempotency[record[j].key] = EntryOf(j, record[j])
    /\ \A k \in Key : idempotency[k] # None /\ idempotency[k].job \in OnDisk =>
          record[idempotency[k].job].key = k

(* While a startup looks at the markers nothing is in memory, and whatever *)
(* is still active on disk is ahead of it.                                 *)
StartupAhead ==
    unrecovered # {} =>
        /\ \A j \in Job : active_jobs[j] = None
        /\ \A j \in OnDisk : record[j].state \in Active => j \in unrecovered

StoreInv ==
    /\ StoreTypes /\ Undrawn /\ MemoryOnDisk /\ RecordsMarked /\ KeysIndexed
    /\ StartupAhead /\ OneActivePerRequest

(* What a client was answered is on disk, under its key.                   *)
AnswersKept ==
    \A a \in answers :
        /\ a.job \in OnDisk /\ record[a.job].request = a.request
        /\ a.how = "recorded" =>
            record[a.job].principal = a.principal /\ record[a.job].key = a.key

JobInv == TypeOK /\ StoreInv /\ AnswersKept

(* What TerminalIsFinal and StartupEndsEveryJob say of one step.           *)
Final ==
    \A j \in Job :
        /\ \A rec \in Shown(j) : rec.state \in Terminal =>
               Shown(j)' = {rec} \/ (Ahead(j) /\ rec # Got(j))
        /\ Ahead(j)' => Ahead(j) \/ failures' > failures
StartupEnds ==
    unrecovered # {} /\ unrecovered' = {} => \A j \in OnDisk' : record'[j].state \in Terminal

LEMMA NoneIsNoRecord == \A r \in Record \cup {None} : r # None <=> r \in Record
BY NoneAssumption

LEMMA NoneIsNoEntry == \A e \in Entry \cup {None} : e # None <=> e \in Entry
BY NoneAssumption

LEMMA InitJobInv == Init => JobInv
BY BoundsAssumption
   DEF Init, JobInv, TypeOK, StoreInv, StoreTypes, Undrawn, MemoryOnDisk, RecordsMarked, KeysIndexed,
       StartupAhead, OneActivePerRequest, AnswersKept, InMemory, OnDisk

(* A job that is active in memory is not shown as ended by get, so what    *)
(* every read shows can only change by a write of a record that is not in  *)
(* memory.                                                                 *)
EndedStays(j) ==
    active_jobs[j] = None /\ record[j] # None /\ record[j].state \in Terminal =>
        active_jobs'[j] = None /\ record'[j] = record[j]
AheadByFailure(j) == Ahead(j)' => Ahead(j) \/ failures' > failures

LEMMA ShownAsEnded ==
  ASSUME MemoryOnDisk, \A j \in Job : EndedStays(j) /\ AheadByFailure(j)
  PROVE  Final
<1>1. ASSUME NEW j \in Job, NEW rec \in Shown(j), rec.state \in Terminal
      PROVE  Shown(j)' = {rec} \/ (Ahead(j) /\ rec # Got(j))
  <2>1. CASE active_jobs[j] = None
    <3>1. rec = record[j] /\ record[j] # None
      BY <1>1, <2>1 DEF Shown, Got, InMemory
    <3>2. active_jobs'[j] = None /\ record'[j] = record[j]
      BY <1>1, <2>1, <3>1 DEF EndedStays
    <3> QED
      BY <3>1, <3>2 DEF Shown, Got, InMemory
  <2>2. CASE active_jobs[j] # None
    <3>1. Got(j) = active_jobs[j] /\ rec # active_jobs[j]
      BY <1>1, <2>2 DEF MemoryOnDisk, Got, InMemory, Active, Terminal
    <3> QED
      BY <1>1, <2>2, <3>1 DEF Shown, Ahead, InMemory
  <2> QED
    BY <2>1, <2>2
<1> QED
  BY <1>1 DEF Final, AheadByFailure

(* The manager's store is left alone.                                      *)
LEMMA StoreStill ==
  ASSUME JobInv, UNCHANGED <<active_jobs, disk, unrecovered, drawn>>
  PROVE  StoreInv' /\ Final /\ StartupEnds
<1> USE DEF disk
<1>1. StoreTypes' /\ Undrawn' /\ MemoryOnDisk' /\ RecordsMarked'
  BY DEF JobInv, StoreInv, StoreTypes, Undrawn, MemoryOnDisk, RecordsMarked, OnDisk
<1>2. KeysIndexed' /\ StartupAhead' /\ OneActivePerRequest'
  BY DEF JobInv, StoreInv, KeysIndexed, StartupAhead, OneActivePerRequest, OnDisk, InMemory
<1>3. \A j \in Job : EndedStays(j) /\ AheadByFailure(j)
  BY DEF EndedStays, AheadByFailure, Ahead, InMemory
<1>4. Final /\ StartupEnds
  BY <1>3, ShownAsEnded DEF JobInv, StoreInv, StartupEnds
<1> QED
  BY <1>1, <1>2, <1>4 DEF StoreInv

LEMMA StoreFrame ==
  ASSUME JobInv, UNCHANGED <<active_jobs, disk, unrecovered, drawn, answers>>
  PROVE  StoreInv' /\ AnswersKept' /\ Final /\ StartupEnds
<1>1. AnswersKept'
  BY DEF JobInv, AnswersKept, OnDisk, disk
<1> QED
  BY <1>1, StoreStill

(* Every later write of a job that is in memory, whatever becomes of it.   *)
LEMMA UpdateKeeps ==
  ASSUME JobInv, NEW j \in Job, active_jobs[j] # None,
         NEW rec \in Record, SameJob(rec, active_jobs[j]),
         NEW outcome \in Outcome, Update(j, rec, outcome),
         UNCHANGED <<unrecovered, drawn, answers>>
  PROVE  /\ StoreInv' /\ AnswersKept' /\ Final /\ StartupEnds
         /\ by_created' = by_created /\ failures' \in 0 .. MaxFailures
<1>1. /\ StoreTypes /\ Undrawn /\ MemoryOnDisk /\ RecordsMarked /\ KeysIndexed
      /\ StartupAhead /\ OneActivePerRequest /\ AnswersKept
      /\ failures \in 0 .. MaxFailures
  BY DEF JobInv, StoreInv, TypeOK
<1>2. /\ by_created' = by_created /\ idempotency' = idempotency
      /\ failures' \in 0 .. MaxFailures
  BY <1>1, BoundsAssumption DEF Update, Persist
<1>3. /\ record[j] \in Record /\ j \in active_marker /\ j \in OnDisk
      /\ SameJob(rec, record[j]) /\ unrecovered = {} /\ rec # None
      /\ active_jobs[j].state \in Active
  BY <1>1, NoneIsNoRecord DEF MemoryOnDisk, StartupAhead, StoreTypes, SameJob, OnDisk
<1>4. record' \in [Job -> Record \cup {None}] /\ active_jobs' \in [Job -> Record \cup {None}]
  BY <1>1 DEF StoreTypes, Update, Persist
<1>5. /\ \A i \in Job : record'[i] = record[i] \/ (i = j /\ record'[i] = rec)
      /\ \A i \in Job : \/ active_jobs'[i] = active_jobs[i]
                        \/ i = j /\ active_jobs'[i] = None
                        \/ i = j /\ active_jobs'[i] = rec /\ rec.state \in Active
  BY <1>1 DEF StoreTypes, Update, Persist
<1>6. /\ \A i \in Job \ {j} : i \in active_marker' <=> i \in active_marker
      /\ rec.state \in Active => j \in active_marker'
      /\ active_jobs'[j] # None => j \in active_marker'
      /\ record'[j] # rec => j \in active_marker'
      /\ active_marker' \subseteq Job
  <2>1. CASE outcome = "ok"
    BY <1>1, <1>3, <2>1 DEF StoreTypes, Update, Persist, Marked, Succeeded
  <2>2. CASE outcome # "ok"
    BY <1>1, <1>3, <2>2 DEF StoreTypes, Update, Persist
  <2> QED
    BY <2>1, <2>2
<1>7. /\ \A i \in Job : i \in OnDisk' <=> i \in OnDisk
      /\ \A i \in OnDisk : SameJob(record'[i], record[i])
  BY <1>3, <1>5 DEF OnDisk, SameJob
<1>8. StoreTypes' /\ Undrawn'
  BY <1>1, <1>2, <1>3, <1>4, <1>5, <1>6 DEF StoreTypes, Undrawn, OnDisk
<1>9. MemoryOnDisk' /\ RecordsMarked'
  <2>1. ASSUME NEW i \in Job, active_jobs'[i] # None
        PROVE  /\ active_jobs'[i].state \in Active
               /\ record'[i] # None /\ SameJob(active_jobs'[i], record'[i])
               /\ i \in active_marker'
    BY <1>1, <1>3, <1>5, <1>6, <2>1 DEF MemoryOnDisk, SameJob
  <2>2. ASSUME NEW i \in OnDisk'
        PROVE  /\ i \in by_created'
               /\ record'[i].state \in Active => i \in active_marker'
    BY <1>1, <1>2, <1>3, <1>5, <1>6, <1>7 DEF RecordsMarked, OnDisk
  <2> QED
    BY <2>1, <2>2 DEF MemoryOnDisk, RecordsMarked
<1>10. KeysIndexed'
  <2>1. ASSUME NEW i \in OnDisk', record'[i].key # NoKey
        PROVE  idempotency'[record'[i].key] = EntryOf(i, record'[i])
    BY <1>1, <1>2, <1>7, <2>1 DEF KeysIndexed, EntryOf, SameJob, OnDisk
  <2>2. ASSUME NEW k \in Key, idempotency'[k] # None, idempotency'[k].job \in OnDisk'
        PROVE  record'[idempotency'[k].job].key = k
    BY <1>1, <1>2, <1>7, <2>2 DEF KeysIndexed, SameJob, OnDisk
  <2> QED
    BY <2>1, <2>2 DEF KeysIndexed, EntryOf
<1>11. StartupAhead' /\ OneActivePerRequest'
  <2>1. \A i \in InMemory' : i \in InMemory /\ active_jobs'[i].request = active_jobs[i].request
    BY <1>5 DEF InMemory, SameJob
  <2>2. unrecovered' = {}
    BY <1>3
  <2> QED
    BY <1>1, <2>1, <2>2 DEF StartupAhead, OneActivePerRequest
<1>12. AnswersKept'
  BY <1>1, <1>7 DEF AnswersKept, SameJob, OnDisk
<1>13. Final /\ StartupEnds
  <2>1. ASSUME NEW i \in Job
        PROVE  EndedStays(i)
    BY <1>5 DEF EndedStays
  <2>2. ASSUME NEW i \in Job
        PROVE  AheadByFailure(i)
    <3>1. CASE i # j
      BY <1>5, <3>1 DEF AheadByFailure, Ahead, InMemory
    <3>2. CASE i = j /\ outcome = "ok"
      <4>1. record'[j] = rec /\ active_jobs'[j] \in {rec, None}
        BY <1>1, <3>2 DEF StoreTypes, Update, Persist, Succeeded
      <4> QED
        BY <3>2, <4>1 DEF AheadByFailure, Ahead, InMemory
    <3>3. CASE outcome # "ok"
      <4>1. failures' > failures
        BY <1>1, <3>3, BoundsAssumption DEF Update, Persist
      <4> QED
        BY <4>1 DEF AheadByFailure
    <3> QED
      BY <3>1, <3>2, <3>3
  <2>3. Final
    BY <1>1, <2>1, <2>2, ShownAsEnded
  <2> QED
    BY <1>3, <2>3 DEF StartupEnds
<1> QED
  BY <1>2, <1>8, <1>9, <1>10, <1>11, <1>12, <1>13 DEF StoreInv

-----------------------------------------------------------------------------
(* The submissions.                                                        *)
LEMMA SubmitReplayKeeps ==
  ASSUME JobInv, NEW r \in Request, NEW p \in Principal, NEW k \in Key \cup {NoKey},
         SubmitReplay(r, p, k)
  PROVE  JobInv' /\ Final /\ StartupEnds
<1> DEFINE j == idempotency[k].job
<1>1. /\ k \in Key /\ idempotency[k] \in Entry /\ j \in OnDisk
      /\ idempotency[k].request = r /\ idempotency[k].principal = p
  BY NoneIsNoEntry DEF SubmitReplay, Known, Stale, JobInv, TypeOK
<1>2. record[j].key = k /\ record[j].request = r /\ record[j].principal = p
  <2>1. record[j].key = k
    BY <1>1, NoneIsNoEntry DEF JobInv, StoreInv, KeysIndexed
  <2>2. idempotency[k] = EntryOf(j, record[j])
    BY <1>1, <2>1, KeyAssumption DEF JobInv, StoreInv, KeysIndexed
  <2> QED
    BY <1>1, <2>1, <2>2 DEF EntryOf
<1>3. j \in Job
  BY <1>1 DEF OnDisk
<1>4. answers' = answers \cup {[request |-> r, principal |-> p, key |-> k, job |-> j,
                                how |-> "recorded"]}
  BY <1>1, KeyAssumption DEF SubmitReplay, Answered
<1>5. UNCHANGED <<active_jobs, disk, unrecovered, drawn>>
  BY DEF SubmitReplay
<1> HIDE DEF j
<1>6. TypeOK'
  BY <1>1, <1>3, <1>4 DEF SubmitReplay, JobInv, TypeOK, disk
<1>7. StoreInv' /\ Final /\ StartupEnds
  BY <1>5, StoreStill
<1>8. AnswersKept'
  BY <1>1, <1>2, <1>4, <1>5 DEF JobInv, AnswersKept, OnDisk, disk
<1> QED
  BY <1>6, <1>7, <1>8 DEF JobInv

LEMMA SubmitDuplicateKeeps ==
  ASSUME JobInv, NEW r \in Request, NEW p \in Principal, NEW k \in Key \cup {NoKey},
         SubmitDuplicate(r, p, k)
  PROVE  JobInv' /\ Final /\ StartupEnds
<1> USE DEF SubmitDuplicate
<1>1. PICK j \in Job : Equivalent(j, r) /\ Answered(r, p, k, j, "deduplicated")
  OBVIOUS
<1>2. j \in OnDisk /\ record[j].request = r
  BY <1>1 DEF Equivalent, InMemory, OnDisk, JobInv, StoreInv, MemoryOnDisk, SameJob
<1>3. \A a \in answers' : a \in answers \/
         (k \in Key /\ a = [request |-> r, principal |-> p, key |-> k, job |-> j,
                            how |-> "deduplicated"])
  BY <1>1 DEF Answered
<1>4. answers' \subseteq [request : Request, principal : Principal,
                          key : Key, job : Job, how : {"recorded", "deduplicated"}]
  BY <1>3 DEF JobInv, TypeOK
<1>5. \A l \in Key : idempotency'[l] = idempotency[l]
                     \/ (idempotency'[l] = None /\ idempotency[l].job \notin OnDisk)
  BY DEF Repaired, Stale, JobInv, TypeOK
<1>6. idempotency' \in [Key -> Entry \cup {None}]
  BY DEF Repaired, JobInv, TypeOK
<1>7. TypeOK'
  BY <1>4, <1>6 DEF JobInv, TypeOK
<1>8. AnswersKept'
  BY <1>2, <1>3 DEF JobInv, AnswersKept, OnDisk
<1>9. KeysIndexed'
  <2>1. ASSUME NEW i \in OnDisk, record[i].key # NoKey
        PROVE  idempotency'[record[i].key] = EntryOf(i, record[i])
    <3>1. record[i].key \in Key
      BY <2>1, NoneIsNoRecord DEF JobInv, TypeOK, OnDisk, Record
    <3>2. idempotency[record[i].key] = EntryOf(i, record[i])
      BY <2>1 DEF JobInv, StoreInv, KeysIndexed
    <3>3. idempotency[record[i].key].job \in OnDisk
      BY <3>2 DEF EntryOf
    <3> QED
      BY <3>1, <3>2, <3>3, <1>5
  <2>2. ASSUME NEW l \in Key, idempotency'[l] # None, idempotency'[l].job \in OnDisk
        PROVE  record[idempotency'[l].job].key = l
    BY <2>2, <1>5 DEF JobInv, StoreInv, KeysIndexed
  <2> QED
    BY <2>1, <2>2 DEF KeysIndexed, OnDisk, EntryOf
<1>10. Undrawn'
  BY <1>5 DEF JobInv, StoreInv, Undrawn
<1>11. StoreTypes' /\ MemoryOnDisk' /\ RecordsMarked'
  BY <1>6 DEF JobInv, StoreInv, StoreTypes, MemoryOnDisk, RecordsMarked, OnDisk
<1>12. StartupAhead' /\ OneActivePerRequest'
  BY DEF JobInv, StoreInv, StartupAhead, OneActivePerRequest, OnDisk, InMemory
<1>13. Final /\ StartupEnds
  <2>1. \A i \in Job : EndedStays(i) /\ AheadByFailure(i)
    BY DEF EndedStays, AheadByFailure, Ahead, InMemory
  <2> QED
    BY <2>1, ShownAsEnded DEF JobInv, StoreInv, StartupEnds
<1> QED
  BY <1>7, <1>8, <1>9, <1>10, <1>11, <1>12, <1>13 DEF JobInv, StoreInv

(* A new job, of which any number of the four writes may have been made.   *)
LEMMA SubmitNewKeeps ==
  ASSUME JobInv, NEW r \in Request, NEW p \in Principal, NEW k \in Key \cup {NoKey},
         NEW done \in 0 .. 4, SubmitNew(r, p, k, done)
  PROVE  JobInv' /\ Final /\ StartupEnds
<1> DEFINE j == drawn + 1
           rec == [request |-> r, principal |-> p, key |-> k,
                   state |-> "queued", started |-> FALSE]
<1>1. /\ j \in Job /\ drawn \in Nat /\ drawn' = j /\ unrecovered = {} /\ unrecovered' = {}
      /\ record[j] = None /\ active_jobs[j] = None
      /\ rec \in Record /\ rec # None
  <2>1. rec \in Record
    BY DEF Record, Active
  <2>2. j \in Job /\ drawn' = j /\ unrecovered = {} /\ unrecovered' = {}
    BY DEF SubmitNew, Serving
  <2>3. drawn \in Nat
    BY DEF JobInv, StoreInv, StoreTypes
  <2>4. record[j] = None /\ active_jobs[j] = None
    BY <2>2, <2>3 DEF JobInv, StoreInv, Undrawn
  <2> QED
    BY <2>1, <2>2, <2>3, <2>4, NoneAssumption
<1>2. /\ k \in Key => idempotency[k] = None \/ idempotency[k].job \notin OnDisk
      /\ \A i \in Job : active_jobs[i] # None => active_jobs[i].request # r
  BY KeyAssumption DEF SubmitNew, Known, Stale, Equivalent, JobInv, StoreInv, MemoryOnDisk,
     InMemory
<1>3. PersistNew(j, rec, done)
  BY DEF SubmitNew
<1>4. \/ /\ done = 4 /\ active_jobs' = [active_jobs EXCEPT ![j] = rec]
         /\ worker' = [worker EXCEPT ![j] = "spawned"]
         /\ Answered(r, p, k, j, "recorded") /\ failures' = failures
      \/ /\ failures < MaxFailures /\ failures' = failures + 1
         /\ UNCHANGED <<active_jobs, worker, answers>>
  BY DEF SubmitNew
<1>5. UNCHANGED <<flight, cancelling, restarts, published>>
  BY DEF SubmitNew
<1> HIDE DEF rec, j
<1>r. /\ rec.request = r /\ rec.principal = p /\ rec.key = k /\ rec.state = "queued"
  BY DEF rec
<1>6. /\ by_created' \subseteq Job
      /\ active_marker' \in {active_marker, active_marker \cup {j}}
      /\ record' = IF done = 4 THEN [record EXCEPT ![j] = rec] ELSE record
      /\ done = 4 => j \in active_marker'
      /\ by_created \subseteq by_created' /\ (done = 4 => j \in by_created')
  BY <1>1, <1>3 DEF PersistNew, JobInv, TypeOK
<1>7. /\ idempotency' \in [Key -> Entry \cup {None}]
      /\ \A l \in Key : l # k => idempotency'[l] = idempotency[l]
      /\ k \in Key => idempotency'[k] \in {None, EntryOf(j, rec)}
      /\ done = 4 /\ k \in Key => idempotency'[k] = EntryOf(j, rec)
  <2>1. EntryOf(j, rec) \in Entry
    BY <1>1, <1>r DEF EntryOf, Entry
  <2>2. Repaired(k) \in [Key -> Entry \cup {None}]
        /\ (\A l \in Key : l # k => Repaired(k)[l] = idempotency[l])
        /\ (k \in Key => Repaired(k)[k] = None)
    BY <1>2, KeyAssumption DEF Repaired, Stale, JobInv, TypeOK
  <2> QED
    BY <2>1, <2>2, <1>3, <1>r, KeyAssumption DEF PersistNew, JobInv, TypeOK
<1>8. /\ answers' \subseteq [request : Request, principal : Principal,
                             key : Key, job : Job, how : {"recorded", "deduplicated"}]
      /\ \A a \in answers' : a \in answers \/
            (done = 4 /\ a = [request |-> r, principal |-> p, key |-> k, job |-> j,
                              how |-> "recorded"])
  BY <1>1, <1>4 DEF Answered, JobInv, TypeOK
<1>9. /\ active_jobs' \in [Job -> Record \cup {None}] /\ record' \in [Job -> Record \cup {None}]
      /\ worker' \in [Job -> {"spawned", "working", "waiting", None} \cup Result]
      /\ failures' \in 0 .. MaxFailures /\ active_marker' \subseteq Job
      /\ drawn' \in 0 .. MaxJobs
  <2>1. active_jobs' \in [Job -> Record \cup {None}] /\ record' \in [Job -> Record \cup {None}]
    BY <1>1, <1>4, <1>6 DEF JobInv, TypeOK
  <2>2. /\ worker' \in [Job -> {"spawned", "working", "waiting", None} \cup Result]
        /\ failures' \in 0 .. MaxFailures
    BY <1>4, BoundsAssumption DEF JobInv, TypeOK
  <2>3. active_marker' \subseteq Job
    BY <1>1, <1>6 DEF JobInv, TypeOK
  <2>4. drawn' \in 0 .. MaxJobs
    BY <1>1, BoundsAssumption DEF Job
  <2> QED
    BY <2>1, <2>2, <2>3, <2>4
<1>10. /\ \A i \in Job : i # j => record'[i] = record[i] /\ active_jobs'[i] = active_jobs[i]
       /\ record'[j] = IF done = 4 THEN rec ELSE None
       /\ active_jobs'[j] \in {None, rec}
       /\ active_jobs'[j] = rec => done = 4
  BY <1>1, <1>4, <1>6 DEF JobInv, TypeOK
<1>11. TypeOK'
  BY <1>1, <1>5, <1>6, <1>7, <1>8, <1>9 DEF JobInv, TypeOK
<1>12. StoreTypes'
  BY <1>7, <1>9 DEF StoreTypes
<1>13. Undrawn'
  <2>1. ASSUME NEW i \in Job, i > drawn'
        PROVE  record'[i] = None /\ active_jobs'[i] = None
    BY <2>1, <1>1, <1>10 DEF JobInv, StoreInv, Undrawn, Job, j
  <2>2. ASSUME NEW l \in Key, idempotency'[l] # None
        PROVE  idempotency'[l].job <= drawn'
    <3>1. CASE l = k
      BY <2>2, <3>1, <1>1, <1>7 DEF EntryOf, Job
    <3>2. CASE l # k
      <4>1. idempotency[l] \in Entry /\ idempotency[l].job <= drawn
        BY <2>2, <3>2, <1>7, NoneIsNoEntry DEF JobInv, StoreInv, StoreTypes, Undrawn
      <4> QED
        BY <3>2, <4>1, <1>1, <1>7 DEF Entry, Job, j
    <3> QED
      BY <3>1, <3>2
  <2> QED
    BY <2>1, <2>2 DEF Undrawn
<1>14. MemoryOnDisk' /\ RecordsMarked'
  <2>1. ASSUME NEW i \in Job, active_jobs'[i] # None
        PROVE  /\ active_jobs'[i].state \in Active
               /\ record'[i] # None /\ SameJob(active_jobs'[i], record'[i])
               /\ i \in active_marker'
    BY <2>1, <1>1, <1>r, <1>6, <1>10 DEF JobInv, StoreInv, MemoryOnDisk, SameJob, Active
  <2>2. ASSUME NEW i \in OnDisk'
        PROVE  /\ i \in by_created'
               /\ record'[i].state \in Active => i \in active_marker'
    BY <2>2, <1>6, <1>10 DEF JobInv, StoreInv, RecordsMarked, OnDisk
  <2> QED
    BY <2>1, <2>2 DEF MemoryOnDisk, RecordsMarked
<1>15. KeysIndexed'
  <2>1. ASSUME NEW i \in OnDisk', record'[i].key # NoKey
        PROVE  idempotency'[record'[i].key] = EntryOf(i, record'[i])
    <3>1. CASE i = j
      BY <2>1, <3>1, <1>r, <1>7, <1>10 DEF OnDisk, EntryOf
    <3>2. CASE i # j
      <4>1. /\ i \in OnDisk /\ record'[i] = record[i] /\ record[i].key \in Key
            /\ idempotency[record[i].key] = EntryOf(i, record[i])
        BY <2>1, <3>2, <1>10, NoneIsNoRecord
           DEF JobInv, StoreInv, StoreTypes, KeysIndexed, OnDisk, Record
      <4>2. idempotency[record[i].key] # None /\ idempotency[record[i].key].job = i
        <5>1. record[i] \in Record /\ i \in Job
          BY <4>1, NoneIsNoRecord DEF OnDisk, JobInv, StoreInv, StoreTypes
        <5>2. EntryOf(i, record[i]) \in Entry
          BY <5>1 DEF EntryOf, Entry, Record
        <5> QED
          BY <4>1, <5>2, NoneAssumption DEF EntryOf
      <4> QED
        BY <4>1, <4>2, <1>2, <1>7
    <3> QED
      BY <3>1, <3>2
  <2>2. ASSUME NEW l \in Key, idempotency'[l] # None, idempotency'[l].job \in OnDisk'
        PROVE  record'[idempotency'[l].job].key = l
    <3>1. CASE l = k
      BY <2>2, <3>1, <1>r, <1>7, <1>10 DEF OnDisk, EntryOf
    <3>2. CASE l # k
      <4>1. /\ idempotency'[l] = idempotency[l] /\ idempotency[l].job \in Job
            /\ idempotency[l].job <= drawn
        BY <2>2, <3>2, <1>7, NoneIsNoEntry DEF JobInv, StoreInv, StoreTypes, Undrawn, Entry
      <4>2. idempotency[l].job # j
        BY <4>1, <1>1 DEF j, Job
      <4> QED
        BY <2>2, <4>1, <4>2, <1>10 DEF JobInv, StoreInv, KeysIndexed, OnDisk
    <3> QED
      BY <3>1, <3>2
  <2> QED
    BY <2>1, <2>2 DEF KeysIndexed, EntryOf
<1>16. StartupAhead' /\ OneActivePerRequest'
  <2>1. ASSUME NEW i \in InMemory', NEW h \in InMemory',
               active_jobs'[i].request = active_jobs'[h].request
        PROVE  i = h
    BY <2>1, <1>2, <1>r, <1>10 DEF JobInv, StoreInv, OneActivePerRequest, InMemory
  <2> QED
    BY <2>1, <1>1 DEF StartupAhead, OneActivePerRequest
<1>17. AnswersKept'
  BY <1>1, <1>r, <1>8, <1>10 DEF JobInv, AnswersKept, OnDisk
<1>18. Final /\ StartupEnds
  <2>1. ASSUME NEW i \in Job
        PROVE  EndedStays(i) /\ AheadByFailure(i)
    BY <1>1, <1>10 DEF EndedStays, AheadByFailure, Ahead, InMemory
  <2>2. Final
    BY <2>1, ShownAsEnded DEF JobInv, StoreInv
  <2> QED
    BY <2>2, <1>1 DEF StartupEnds
<1> QED
  BY <1>11, <1>12, <1>13, <1>14, <1>15, <1>16, <1>17, <1>18 DEF JobInv, StoreInv

-----------------------------------------------------------------------------
(* The threads, through Update.                                            *)
LEMMA MemoryTyped ==
  ASSUME JobInv, NEW j \in InMemory
  PROVE  j \in Job /\ active_jobs[j] # None /\ active_jobs[j] \in Record
BY NoneIsNoRecord DEF JobInv, TypeOK, InMemory

LEMMA RunStartKeeps ==
  ASSUME JobInv, NEW j \in Job, NEW outcome \in Outcome, RunStart(j, outcome)
  PROVE  JobInv' /\ Final /\ StartupEnds
<1> USE DEF RunStart
<1>1. CASE j \in InMemory
  <2> DEFINE rec == [active_jobs[j] EXCEPT !.started = TRUE,
                        !.state = IF active_jobs[j].request \in Acquiring
                                  THEN "queued" ELSE "running"]
  <2>1. rec \in Record /\ SameJob(rec, active_jobs[j]) /\ active_jobs[j] # None
    BY <1>1, MemoryTyped DEF Record, SameJob, Active
  <2>2. Update(j, rec, outcome) /\ UNCHANGED <<unrecovered, drawn, answers>>
    BY <1>1
  <2> HIDE DEF rec
  <2>3. /\ StoreInv' /\ AnswersKept' /\ Final /\ StartupEnds
        /\ by_created' = by_created /\ failures' \in 0 .. MaxFailures
    BY <2>1, <2>2, UpdateKeeps
  <2>4. TypeOK'
    BY <1>1, <2>3 DEF JobInv, TypeOK, StoreInv, StoreTypes
  <2> QED
    BY <2>3, <2>4 DEF JobInv
<1>2. CASE j \notin InMemory
  <2>1. StoreInv' /\ AnswersKept' /\ Final /\ StartupEnds
    BY <1>2, StoreFrame
  <2>2. TypeOK'
    BY <1>2 DEF JobInv, TypeOK, disk
  <2> QED
    BY <2>1, <2>2 DEF JobInv
<1> QED
  BY <1>1, <1>2

LEMMA ProgressKeeps ==
  ASSUME JobInv, NEW j \in Job, NEW t \in BOOLEAN, NEW outcome \in Outcome,
         Progress(j, t, outcome)
  PROVE  JobInv' /\ Final /\ StartupEnds
<1> USE DEF Progress
<1> DEFINE rec == [active_jobs[j] EXCEPT !.state = IF t THEN "running" ELSE @]
<1>1. rec \in Record /\ SameJob(rec, active_jobs[j]) /\ active_jobs[j] # None
  BY MemoryTyped DEF Record, SameJob, Active
<1>2. Update(j, rec, outcome) /\ UNCHANGED <<unrecovered, drawn, answers>>
  OBVIOUS
<1> HIDE DEF rec
<1>3. /\ StoreInv' /\ AnswersKept' /\ Final /\ StartupEnds
      /\ by_created' = by_created /\ failures' \in 0 .. MaxFailures
  BY <1>1, <1>2, UpdateKeeps
<1>4. TypeOK'
  BY <1>3 DEF JobInv, TypeOK, StoreInv, StoreTypes
<1> QED
  BY <1>3, <1>4 DEF JobInv

LEMMA RunEndKeeps ==
  ASSUME JobInv, NEW j \in Job, NEW outcome \in Outcome, RunEnd(j, outcome)
  PROVE  JobInv' /\ Final /\ StartupEnds
<1> USE DEF RunEnd
<1>1. CASE j \in InMemory
  <2> DEFINE rec == [active_jobs[j] EXCEPT
                        !.state = IF worker[j] = "failed" THEN "failed" ELSE "completed"]
  <2>1. rec \in Record /\ SameJob(rec, active_jobs[j]) /\ active_jobs[j] # None
    BY <1>1, MemoryTyped DEF Record, SameJob, Terminal
  <2>2. Update(j, rec, outcome) /\ UNCHANGED <<unrecovered, drawn, answers>>
    BY <1>1
  <2> HIDE DEF rec
  <2>3. /\ StoreInv' /\ AnswersKept' /\ Final /\ StartupEnds
        /\ by_created' = by_created /\ failures' \in 0 .. MaxFailures
    BY <2>1, <2>2, UpdateKeeps
  <2>4. TypeOK'
    BY <1>1, <2>3 DEF JobInv, TypeOK, StoreInv, StoreTypes
  <2> QED
    BY <2>3, <2>4 DEF JobInv
<1>2. CASE j \notin InMemory
  <2>1. StoreInv' /\ AnswersKept' /\ Final /\ StartupEnds
    BY <1>2, StoreFrame
  <2>2. TypeOK'
    BY <1>2 DEF JobInv, TypeOK, disk
  <2> QED
    BY <2>1, <2>2 DEF JobInv
<1> QED
  BY <1>1, <1>2

(* A cancellation marks whatever the job is by then.                       *)
LEMMA CancelMarkKeeps ==
  ASSUME JobInv, NEW c \in Canceller, NEW outcome \in Outcome, CancelMark(c, outcome)
  PROVE  JobInv' /\ Final /\ StartupEnds
<1> USE DEF CancelMark
<1> DEFINE j == cancelling[c].job
<1>1. CASE j \in InMemory
  <2> DEFINE rec == [active_jobs[j] EXCEPT !.state = "cancelled"]
  <2>1. /\ rec \in Record /\ SameJob(rec, active_jobs[j])
        /\ active_jobs[j] # None /\ j \in Job
    BY <1>1, MemoryTyped DEF Record, SameJob, Terminal
  <2>2. Update(j, rec, outcome) /\ UNCHANGED <<unrecovered, drawn, answers>>
    BY <1>1
  <2> HIDE DEF rec, j
  <2>3. /\ StoreInv' /\ AnswersKept' /\ Final /\ StartupEnds
        /\ by_created' = by_created /\ failures' \in 0 .. MaxFailures
    BY <2>1, <2>2, UpdateKeeps
  <2>4. TypeOK'
    BY <2>3 DEF JobInv, TypeOK, StoreInv, StoreTypes
  <2> QED
    BY <2>3, <2>4 DEF JobInv
<1>2. CASE j \notin InMemory
  <2>1. StoreInv' /\ AnswersKept' /\ Final /\ StartupEnds
    BY <1>2, StoreFrame
  <2>2. TypeOK'
    BY <1>2 DEF JobInv, TypeOK, disk
  <2> QED
    BY <2>1, <2>2 DEF JobInv
<1> QED
  BY <1>1, <1>2

-----------------------------------------------------------------------------
(* The steps that leave the store alone: threads, flights, the first two   *)
(* steps of a cancellation.                                                *)
LEMMA ThreadKeeps ==
  ASSUME JobInv, NEW j \in Job,
         Join(j) \/ \E result \in {"completed", "failed"} : Walk(j, result)
  PROVE  JobInv' /\ Final /\ StartupEnds
<1>1. StoreInv' /\ AnswersKept' /\ Final /\ StartupEnds
  BY StoreFrame DEF Join, Walk
<1>2. TypeOK'
  BY DEF Join, Walk, JobInv, TypeOK, disk, Result
<1> QED
  BY <1>1, <1>2 DEF JobInv

LEMMA FlightKeeps ==
  ASSUME JobInv, NEW r \in Acquiring, Fly(r) \/ ClientStarts(r)
  PROVE  JobInv' /\ Final /\ StartupEnds
<1> USE DEF Fly, ClientStarts, FlightRegister, FlightCommit, FlightEnd, FlightRetire
<1>1. StoreInv' /\ AnswersKept' /\ Final /\ StartupEnds
  BY StoreFrame
<1>2. flight' \in [Acquiring -> {"starting", None} \cup Registered \cup Result]
  BY DEF JobInv, TypeOK, Registered, Result
<1>3. worker' \in [Job -> {"spawned", "working", "waiting", None} \cup Result]
  BY DEF JobInv, TypeOK
<1>4. published' \subseteq Job
  BY DEF JobInv, TypeOK, Joined
<1>5. UNCHANGED <<active_jobs, disk, unrecovered, cancelling, drawn, failures, restarts, answers>>
  OBVIOUS
<1>6. TypeOK'
  BY <1>2, <1>3, <1>4, <1>5 DEF JobInv, TypeOK, disk
<1> QED
  BY <1>1, <1>6 DEF JobInv

LEMMA CancelReadKeeps ==
  ASSUME JobInv, NEW c \in Canceller, NEW j \in Job, CancelRead(c, j)
  PROVE  JobInv' /\ Final /\ StartupEnds
<1>1. StoreInv' /\ AnswersKept' /\ Final /\ StartupEnds
  BY StoreFrame DEF CancelRead
<1>2. TypeOK'
  BY DEF CancelRead, JobInv, TypeOK, disk
<1> QED
  BY <1>1, <1>2 DEF JobInv

LEMMA CancelStopKeeps ==
  ASSUME JobInv, NEW c \in Canceller, CancelStop(c)
  PROVE  JobInv' /\ Final /\ StartupEnds
<1>1. StoreInv' /\ AnswersKept' /\ Final /\ StartupEnds
  BY StoreFrame DEF CancelStop
<1>2. TypeOK'
  BY DEF CancelStop, JobInv, TypeOK, disk, Registered
<1> QED
  BY <1>1, <1>2 DEF JobInv

-----------------------------------------------------------------------------
(* The process stops and starts again.                                     *)
LEMMA RestartKeeps ==
  ASSUME JobInv, Restart
  PROVE  JobInv' /\ Final /\ StartupEnds
<1> USE DEF Restart, disk
<1>1. TypeOK'
  BY BoundsAssumption DEF JobInv, TypeOK
<1>2. StoreTypes' /\ Undrawn' /\ MemoryOnDisk' /\ RecordsMarked'
  BY DEF JobInv, StoreInv, StoreTypes, Undrawn, MemoryOnDisk, RecordsMarked, OnDisk
<1>3. KeysIndexed' /\ StartupAhead' /\ OneActivePerRequest' /\ AnswersKept'
  BY DEF JobInv, StoreInv, KeysIndexed, StartupAhead, RecordsMarked, OneActivePerRequest,
         AnswersKept, OnDisk, InMemory
<1>4. Final
  <2>1. \A i \in Job : EndedStays(i) /\ AheadByFailure(i)
    BY DEF EndedStays, AheadByFailure, Ahead, InMemory
  <2> QED
    BY <2>1, ShownAsEnded DEF JobInv, StoreInv
<1>5. StartupEnds
  <2>1. ASSUME unrecovered' = {}, NEW i \in OnDisk
        PROVE  record[i].state \in Terminal
    <3>1. record[i].state \notin Active
      BY <2>1 DEF JobInv, StoreInv, RecordsMarked
    <3>2. record[i] \in Record
      BY NoneIsNoRecord DEF JobInv, TypeOK, OnDisk
    <3> QED
      BY <3>1, <3>2 DEF Record
  <2> QED
    BY <2>1 DEF StartupEnds, OnDisk
<1> QED
  BY <1>1, <1>2, <1>3, <1>4, <1>5 DEF JobInv, StoreInv

(* One marker of a startup, whatever becomes of the write.                 *)
LEMMA RecoverKeeps ==
  ASSUME JobInv, NEW j \in Job, NEW outcome \in Outcome, Recover(j, outcome)
  PROVE  JobInv' /\ Final /\ StartupEnds
<1> DEFINE rec == [record[j] EXCEPT !.state = "failed"]
<1>1. /\ j \in unrecovered /\ unrecovered' \in {unrecovered, unrecovered \ {j}}
      /\ UNCHANGED <<active_jobs, worker, flight, cancelling, drawn, restarts,
                     answers, published, by_created, idempotency>>
  BY DEF Recover, Persist
<1>2. /\ failures' \in 0 .. MaxFailures
      /\ active_marker' \subseteq Job
      /\ \A i \in Job \ {j} : i \in active_marker' <=> i \in active_marker
  BY BoundsAssumption DEF Recover, Persist, Marked, JobInv, TypeOK, Terminal, Active
<1>3. j \in OnDisk /\ record[j].state \in Active => record[j] \in Record
  BY NoneIsNoRecord DEF JobInv, TypeOK, OnDisk
<1>4. /\ record' \in [Job -> Record \cup {None}]
      /\ \A i \in Job \ {j} : record'[i] = record[i]
      /\ \/ record'[j] = record[j]
         \/ /\ record[j] \in Record /\ record[j].state \in Active
            /\ record'[j] = rec
  BY <1>3 DEF Recover, Persist, JobInv, TypeOK, Record, Terminal
<1>5. /\ j \in unrecovered' \/ record'[j] = None \/ record'[j].state \notin Active
      /\ j \in active_marker' \/ record'[j] = None \/ record'[j].state \notin Active
  <2>1. CASE j \in OnDisk /\ record[j].state \in Active
    <3>1. record[j] \in Record /\ j \in active_marker
      BY <2>1, <1>3 DEF JobInv, StoreInv, RecordsMarked
    <3> QED
      BY <2>1, <3>1 DEF Recover, Persist, Marked, Succeeded, Outcome, Active, Record, JobInv,
         TypeOK
  <2>2. CASE ~ (j \in OnDisk /\ record[j].state \in Active)
    BY <2>2 DEF Recover, OnDisk
  <2> QED
    BY <2>1, <2>2
<1>6. /\ \A i \in Job : i \in OnDisk' <=> i \in OnDisk
      /\ \A i \in OnDisk : SameJob(record'[i], record[i])
  <2>1. record[j] \in Record => rec \in Record /\ rec # None /\ SameJob(rec, record[j])
    BY NoneAssumption DEF Record, SameJob, Terminal
  <2>2. record[j] \in Record => record[j] # None
    BY NoneAssumption
  <2> HIDE DEF rec
  <2> QED
    BY <1>4, <2>1, <2>2 DEF OnDisk, SameJob
<1>7. \A i \in Job : active_jobs[i] = None
  BY <1>1 DEF JobInv, StoreInv, StartupAhead
<1> HIDE DEF rec
<1>8. TypeOK'
  BY <1>1, <1>2, <1>4 DEF JobInv, TypeOK
<1>9. StoreTypes' /\ Undrawn' /\ MemoryOnDisk' /\ OneActivePerRequest'
  BY <1>1, <1>2, <1>4, <1>6, <1>7
     DEF JobInv, StoreInv, StoreTypes, Undrawn, MemoryOnDisk, OneActivePerRequest, OnDisk, InMemory
<1>10. RecordsMarked' /\ StartupAhead'
  <2>1. ASSUME NEW i \in OnDisk'
        PROVE  /\ i \in by_created'
               /\ record'[i].state \in Active => i \in active_marker'
    BY <1>1, <1>2, <1>4, <1>5, <1>6 DEF JobInv, StoreInv, RecordsMarked, OnDisk
  <2>2. ASSUME NEW i \in OnDisk', record'[i].state \in Active
        PROVE  i \in unrecovered'
    BY <2>2, <1>1, <1>4, <1>5 DEF JobInv, StoreInv, StartupAhead, OnDisk
  <2> QED
    BY <2>1, <2>2, <1>1, <1>7 DEF RecordsMarked, StartupAhead
<1>11. KeysIndexed'
  <2>1. ASSUME NEW i \in OnDisk', record'[i].key # NoKey
        PROVE  idempotency'[record'[i].key] = EntryOf(i, record'[i])
    BY <1>1, <1>6, <2>1 DEF JobInv, StoreInv, KeysIndexed, EntryOf, SameJob, OnDisk
  <2>2. ASSUME NEW k \in Key, idempotency'[k] # None, idempotency'[k].job \in OnDisk'
        PROVE  record'[idempotency'[k].job].key = k
    BY <1>1, <1>6, <2>2 DEF JobInv, StoreInv, KeysIndexed, SameJob, OnDisk
  <2> QED
    BY <2>1, <2>2 DEF KeysIndexed, EntryOf
<1>12. AnswersKept'
  BY <1>1, <1>6 DEF JobInv, AnswersKept, SameJob, OnDisk
<1>13. Final
  <2>1. ASSUME NEW i \in Job
        PROVE  EndedStays(i) /\ AheadByFailure(i)
    BY <1>1, <1>4, <1>7 DEF EndedStays, AheadByFailure, Ahead, InMemory, Active, Terminal
  <2> QED
    BY <2>1, ShownAsEnded DEF JobInv, StoreInv
<1>14. StartupEnds
  <2>1. ASSUME unrecovered' = {}, NEW i \in OnDisk'
        PROVE  record'[i].state \in Terminal
    <3>1. record'[i].state \notin Active
      BY <2>1, <1>10, <1>1, <1>4, <1>5 DEF JobInv, StoreInv, StartupAhead, OnDisk
    <3>2. record'[i] \in Record
      BY <1>4, NoneIsNoRecord DEF OnDisk
    <3> QED
      BY <3>1, <3>2 DEF Record
  <2> QED
    BY <2>1 DEF StartupEnds
<1> QED
  BY <1>8, <1>9, <1>10, <1>11, <1>12, <1>13, <1>14 DEF JobInv, StoreInv

-----------------------------------------------------------------------------
LEMMA NextKeeps ==
  ASSUME JobInv, [Next]_vars
  PROVE  JobInv' /\ (UNCHANGED vars \/ (Final /\ StartupEnds))
<1>1. ASSUME Submit PROVE JobInv' /\ Final /\ StartupEnds
  BY <1>1, SubmitReplayKeeps, SubmitDuplicateKeeps, SubmitNewKeeps DEF Submit
<1>2. ASSUME NEW j \in Job, Run(j) PROVE JobInv' /\ Final /\ StartupEnds
  BY <1>2, RunStartKeeps, ThreadKeeps, RunEndKeeps DEF Run
<1>3. ASSUME NEW j \in Job, NEW t \in BOOLEAN, NEW outcome \in Outcome, Progress(j, t, outcome)
      PROVE  JobInv' /\ Final /\ StartupEnds
  BY <1>3, ProgressKeeps
<1>4. ASSUME NEW r \in Acquiring, Fly(r) \/ ClientStarts(r)
      PROVE  JobInv' /\ Final /\ StartupEnds
  BY <1>4, FlightKeeps
<1>5. ASSUME NEW c \in Canceller, CancelJob(c) PROVE JobInv' /\ Final /\ StartupEnds
  BY <1>5, CancelReadKeeps, CancelStopKeeps, CancelMarkKeeps DEF CancelJob
<1>6. ASSUME NEW j \in Job, NEW outcome \in Outcome, Recover(j, outcome)
      PROVE  JobInv' /\ Final /\ StartupEnds
  BY <1>6, RecoverKeeps
<1>7. CASE UNCHANGED vars
  <2>1. StoreInv' /\ AnswersKept'
    BY <1>7, StoreFrame DEF vars, disk
  <2>2. TypeOK'
    BY <1>7 DEF vars, JobInv, TypeOK
  <2> QED
    BY <1>7, <2>1, <2>2 DEF JobInv
<1> QED
  BY <1>1, <1>2, <1>3, <1>4, <1>5, <1>6, <1>7, RestartKeeps DEF Next

(* The strengthened invariant of the manager: memory, records and indexes  *)
(* agree after any step, any failing write and any restart.                *)
THEOREM JobInvariant == Spec => []JobInv
BY InitJobInv, NextKeeps, PTL DEF Spec

(* What the manager keeps in memory and on disk is always of its type.     *)
THEOREM TypeCorrect == Spec => []TypeOK
<1>1. JobInv => TypeOK
  BY DEF JobInv
<1> QED
  BY <1>1, JobInvariant, PTL

(* No interleaving of submissions, threads, cancellations and restarts has *)
(* two jobs of one request active.                                         *)
THEOREM OneActiveJob == Spec => []OneActivePerRequest
<1>1. JobInv => OneActivePerRequest
  BY DEF JobInv, StoreInv
<1> QED
  BY <1>1, JobInvariant, PTL

(* A key that was answered with a job is answered with that job for ever,  *)
(* and the job is on disk, whatever writes fail.                           *)
THEOREM AnswersAreKept == Spec => []AnswersHold
<1>1. ASSUME JobInv, NEW a \in answers, NEW b \in answers,
             a.how = "recorded", b.how = "recorded", a.key = b.key
      PROVE  a.job = b.job
  <2>1. a.key \in Key /\ a.job \in OnDisk /\ b.job \in OnDisk
    BY <1>1 DEF JobInv, TypeOK, AnswersKept
  <2>2. record[a.job].key = a.key /\ record[b.job].key = a.key /\ a.key # NoKey
    BY <1>1, <2>1, KeyAssumption DEF JobInv, AnswersKept
  <2>3. EntryOf(a.job, record[a.job]) = EntryOf(b.job, record[b.job])
    BY <1>1, <2>1, <2>2 DEF JobInv, StoreInv, KeysIndexed
  <2> QED
    BY <2>3 DEF EntryOf
<1>2. JobInv => AnswersHold
  BY <1>1 DEF JobInv, AnswersKept, AnswersHold
<1> QED
  BY <1>2, JobInvariant, PTL

-----------------------------------------------------------------------------
(* The pages of the history.                                               *)
LEMMA LeastJob ==
  ASSUME NEW S \in SUBSET Job, S # {}
  PROVE  \E j \in S : \A i \in S : j <= i
<1>1. S \subseteq Nat
  BY DEF Job
<1>2. \E j \in S : \A i \in S : ~ (<<i, j>> \in OpToRel(<, Nat))
  BY <1>1, NatLessThanWellFounded, WFMin
<1>3. PICK j \in S : \A i \in S : ~ (<<i, j>> \in OpToRel(<, Nat))
  BY <1>2
<1>4. \A i \in S : ~ (i < j)
  BY <1>1, <1>3 DEF OpToRel
<1> QED
  BY <1>1, <1>4

(* Whatever is newer than a job of a page, and older than the page's       *)
(* cursor, is on that page.                                                *)
LEMMA PageIsNewest ==
  ASSUME NEW c, NEW j \in Page(c), NEW i \in Older(c), i > j
  PROVE  i \in Page(c)
<1> DEFINE Above(n) == {k \in Older(c) : k > n}
<1>1. Older(c) \subseteq Job /\ j \in Job /\ i \in Job /\ Job \subseteq Nat
  BY DEF Page, Older, OnDisk, Job
<1>2. IsFiniteSet(Job)
  BY FS_Interval, BoundsAssumption DEF Job
<1>3. Above(i) \subseteq Above(j)
  <2>1. ASSUME NEW k \in Older(c), k > i PROVE k > j
    BY <1>1, <2>1
  <2> QED
    BY <2>1
<1>4. IsFiniteSet(Above(j))
  BY <1>1, <1>2, FS_Subset
<1>5. Cardinality(Above(i)) <= Cardinality(Above(j)) /\ Cardinality(Above(j)) < PageLimit
  BY <1>3, <1>4, FS_Subset DEF Page
<1>6. Cardinality(Above(i)) \in Nat /\ Cardinality(Above(j)) \in Nat
  BY <1>3, <1>4, FS_Subset, FS_CardinalityType
<1> QED
  BY <1>5, <1>6, BoundsAssumption DEF Page

(* A history that is not empty has a page that is not.                     *)
LEMMA PageNotEmpty ==
  ASSUME NEW c, Older(c) # {}
  PROVE  Page(c) # {}
<1> DEFINE Mirror == {n \in Job : MaxJobs + 1 - n \in Older(c)}
<1>1. Older(c) \subseteq Job
  BY DEF Older, OnDisk
<1>2. PICK j \in Older(c) : TRUE
  OBVIOUS
<1>3. MaxJobs + 1 - j \in Mirror
  BY <1>1, BoundsAssumption DEF Job
<1>4. PICK n \in Mirror : \A m \in Mirror : n <= m
  BY <1>3, LeastJob
<1>5. MaxJobs + 1 - n \in Older(c) /\ n \in Job
  BY <1>4
<1>6. \A i \in Older(c) : ~ (i > MaxJobs + 1 - n)
  <2>1. ASSUME NEW i \in Older(c) PROVE MaxJobs + 1 - i \in Mirror
    BY <1>1, BoundsAssumption DEF Job
  <2> QED
    BY <1>1, <1>4, <2>1, BoundsAssumption DEF Job
<1>7. {i \in Older(c) : i > MaxJobs + 1 - n} = {}
  BY <1>6
<1> QED
  BY <1>5, <1>7, FS_EmptySet, BoundsAssumption DEF Page

(* A page and what is older than its next cursor are what was older than   *)
(* the page's own cursor, without overlap; there is no next cursor exactly *)
(* when nothing is left.                                                   *)
Tiles(c) ==
    /\ NextCursor(c) = {} <=> Page(c) = Older(c)
    /\ \A n \in NextCursor(c) :
         Page(c) \cap Older(n) = {} /\ Page(c) \cup Older(n) = Older(c)

(* No job of the history is left out between two pages of list_page, or    *)
(* listed on both, whatever jobs come and go on disk and in the index.     *)
THEOREM PagesTile == ASSUME NEW c PROVE Tiles(c)
<1>1. Older(c) \subseteq Job /\ Page(c) \subseteq Older(c) /\ Job \subseteq Nat
  BY DEF Older, OnDisk, Page, Job
<1>2. ASSUME Page(c) # Older(c) PROVE NextCursor(c) # {}
  <2>1. Page(c) # {}
    BY <1>1, <1>2, PageNotEmpty
  <2>2. \E j \in Page(c) : \A i \in Page(c) : j <= i
    BY <1>1, <2>1, LeastJob
  <2> QED
    BY <1>2, <2>2 DEF NextCursor
<1>3. Page(c) = Older(c) => NextCursor(c) = {}
  BY DEF NextCursor
<1>4. ASSUME NEW n \in NextCursor(c)
      PROVE  Page(c) \cap Older(n) = {} /\ Page(c) \cup Older(n) = Older(c)
  <2>1. n \in Page(c) /\ (\A i \in Page(c) : n <= i) /\ n \in Nat
    BY <1>1, <1>4 DEF NextCursor
  <2>2. n # None /\ n \in OnDisk
    BY <1>1, <2>1, NoneAssumption DEF Older
  <2>3. Older(n) = {j \in by_created \cap OnDisk : j < n}
    BY <2>2 DEF Older
  <2>4. \A j \in Older(n) : j \in Older(c)
    <3>1. c # None => c \in OnDisk /\ n < c
      BY <1>1, <2>1 DEF Older
    <3> QED
      BY <2>1, <2>3, <3>1 DEF Older, OnDisk, Job
  <2>5. \A j \in Page(c) : j \notin Older(n)
    BY <1>1, <2>1, <2>3
  <2>6. ASSUME NEW j \in Older(c), j \notin Page(c) PROVE j \in Older(n)
    <3>1. ~ (j > n) /\ j # n
      BY <2>1, <2>6, PageIsNewest
    <3>2. j \in by_created \cap OnDisk /\ j \in Nat
      BY <1>1 DEF Older
    <3> QED
      BY <2>1, <2>3, <3>1, <3>2
  <2> QED
    BY <1>1, <2>4, <2>5, <2>6
<1> QED
  BY <1>2, <1>3, <1>4 DEF Tiles

(* The cursors a client reaches, in the order it reaches them: first none  *)
(* at all, which stands above every job.                                   *)
Rank(c) == IF c = None THEN MaxJobs + 1 ELSE c

(* A client starts without cursor and reaches the next cursor of any page  *)
(* it reads; there is at most one, and it is older.                        *)
LEMMA CursorsFollow ==
  /\ Cursors \subseteq OnDisk \cup {None} /\ None \in Cursors
  /\ \A c \in Cursors : Rank(c) \in Nat /\ Rank(c) <= Rank(None)
  /\ \A c, d \in Cursors : Rank(c) = Rank(d) => c = d
  /\ \A c \in Cursors : \A n \in NextCursor(c) :
       n \in Cursors /\ n \in OnDisk /\ n \in Page(c) /\ Rank(n) < Rank(c)
  /\ \A c \in Cursors : \A n, m \in NextCursor(c) : n = m
<1> DEFINE All == OnDisk \cup {None}
<1> DEFINE Followed == {S \in SUBSET OnDisk :
                          \A c \in S \cup {None} : NextCursor(c) \subseteq S}
<1>1. Cursors = {None} \cup {c \in OnDisk : \A S \in Followed : c \in S}
  BY DEF Cursors
<1>2. OnDisk \subseteq 1 .. MaxJobs /\ MaxJobs \in Nat /\ None \notin Nat
  BY BoundsAssumption, NoneAssumption DEF OnDisk, Job
<1>3. Cursors \subseteq All /\ None \in Cursors
  BY <1>1
<1>4. \A c \in All : Rank(c) \in Nat /\ Rank(c) <= Rank(None)
  BY <1>2 DEF Rank
<1>5. \A c, d \in All : Rank(c) = Rank(d) => c = d
  BY <1>2 DEF Rank
<1>6. ASSUME NEW c \in Cursors, NEW n \in NextCursor(c)
      PROVE  n \in Cursors /\ n \in OnDisk /\ n \in Page(c) /\ Rank(n) < Rank(c)
  <2>1. n \in Page(c) /\ n \in OnDisk /\ (c # None => n < c)
    BY <1>6 DEF NextCursor, Page, Older
  <2>2. Rank(n) < Rank(c)
    <3>1. n # None /\ n \in 1 .. MaxJobs /\ (c # None => c \in 1 .. MaxJobs)
      BY <1>2, <1>3, <2>1
    <3>2. Rank(n) = n /\ Rank(c) = IF c = None THEN MaxJobs + 1 ELSE c
      BY <3>1 DEF Rank
    <3> QED
      BY <1>2, <2>1, <3>1, <3>2
  <2>3. ASSUME NEW S \in Followed PROVE n \in S
    <3>1. c \in S \cup {None}
      BY <1>1, <1>6
    <3> QED
      BY <1>6, <3>1
  <2> QED
    BY <1>1, <2>1, <2>2, <2>3
<1>7. ASSUME NEW c \in Cursors, NEW n \in NextCursor(c), NEW m \in NextCursor(c)
      PROVE  n = m
  <2>1. n <= m /\ m <= n /\ n \in OnDisk /\ m \in OnDisk
    BY DEF NextCursor, Page, Older
  <2> QED
    BY <1>2, <2>1
<1> QED
  BY <1>3, <1>4, <1>5, <1>6, <1>7

(* What holds without cursor and is handed on to every next one holds of   *)
(* all the cursors a client reaches.                                       *)
LEMMA CursorsLeast ==
  ASSUME NEW S \in SUBSET Cursors, None \in S,
         \A c \in S : NextCursor(c) \subseteq S
  PROVE  S = Cursors
<1> DEFINE T == {c \in S : c \in OnDisk}
<1>1. S \subseteq OnDisk \cup {None} /\ T \cup {None} = S
  BY CursorsFollow
<1>2. ASSUME NEW c \in S, NEW n \in NextCursor(c) PROVE n \in T
  BY <1>2, CursorsFollow
<1>3. Cursors \subseteq {None} \cup T
  BY <1>1, <1>2 DEF Cursors
<1> QED
  BY <1>1, <1>3

(* No next cursor skips d.                                                 *)
Met(d) == \A c \in Cursors : Rank(c) > Rank(d) =>
            \A n \in NextCursor(c) : Rank(n) >= Rank(d)

(* No cursor lies between d and its next one.                              *)
Split(d) == \A c \in Cursors :
              \/ Rank(c) >= Rank(d)
              \/ \E n \in NextCursor(d) : Rank(c) <= Rank(n)

LEMMA MetSplits ==
  ASSUME NEW d \in Cursors, Met(d)
  PROVE  Split(d)
<1> DEFINE S == {c \in Cursors : \/ Rank(c) >= Rank(d)
                                 \/ \E n \in NextCursor(d) : Rank(c) <= Rank(n)}
<1>1. None \in S
  <2>1. None \in Cursors /\ Rank(None) \in Nat /\ Rank(d) \in Nat /\ Rank(d) <= Rank(None)
    BY CursorsFollow
  <2> QED
    BY <2>1
<1>2. ASSUME NEW c \in S, NEW n \in NextCursor(c) PROVE n \in S
  <2>1. n \in Cursors /\ Rank(n) < Rank(c) /\ Rank(n) \in Nat /\ Rank(c) \in Nat
    BY CursorsFollow
  <2>2. Rank(d) \in Nat
    BY CursorsFollow
  <2>3. CASE Rank(c) > Rank(d)
    BY <2>1, <2>3 DEF Met
  <2>4. CASE Rank(c) = Rank(d)
    <3>1. c = d
      BY <2>4, CursorsFollow
    <3> QED
      BY <2>1, <3>1
  <2>5. CASE Rank(c) < Rank(d)
    <3>1. PICK m \in NextCursor(d) : Rank(c) <= Rank(m)
      BY <2>1, <2>2, <2>5
    <3>2. Rank(m) \in Nat
      BY CursorsFollow
    <3>3. Rank(n) <= Rank(m)
      BY <2>1, <3>1, <3>2
    <3> QED
      BY <2>1, <3>3
  <2> QED
    BY <2>1, <2>2, <2>3, <2>4, <2>5
<1>3. S = Cursors
  BY <1>1, <1>2, CursorsLeast
<1> QED
  BY <1>3 DEF Split

LEMMA AllMet == \A d \in Cursors : Met(d)
<1> DEFINE S == {d \in Cursors : Met(d)}
<1>1. None \in S
  <2>1. \A c \in Cursors : Rank(c) \in Nat /\ Rank(c) <= Rank(None)
    BY CursorsFollow
  <2>2. \A c \in Cursors : ~ (Rank(c) > Rank(None))
    BY <2>1, CursorsFollow
  <2> QED
    BY <2>2, CursorsFollow DEF Met
<1>2. ASSUME NEW d \in S, NEW e \in NextCursor(d) PROVE e \in S
  <2>1. e \in Cursors /\ Rank(e) < Rank(d) /\ Rank(e) \in Nat /\ Rank(d) \in Nat
    BY CursorsFollow
  <2>2. ASSUME NEW c \in Cursors, Rank(c) > Rank(e), NEW n \in NextCursor(c)
        PROVE  Rank(n) >= Rank(e)
    <3>1. Rank(c) \in Nat /\ Rank(n) \in Nat
      BY CursorsFollow
    <3>2. Rank(c) >= Rank(d)
      <4>1. \/ Rank(c) >= Rank(d)
            \/ \E m \in NextCursor(d) : Rank(c) <= Rank(m)
        BY MetSplits DEF Split
      <4>2. \A m \in NextCursor(d) : m = e
        BY CursorsFollow
      <4> QED
        BY <2>1, <2>2, <3>1, <4>1, <4>2
    <3>3. CASE c = d
      <4>1. n = e
        BY <3>3, CursorsFollow
      <4> QED
        BY <2>1, <4>1
    <3>4. CASE c # d
      <4>1. Rank(c) > Rank(d)
        BY <2>1, <3>1, <3>2, <3>4, CursorsFollow
      <4>2. Rank(n) >= Rank(d)
        BY <4>1 DEF Met
      <4> QED
        BY <2>1, <3>1, <4>2
    <3> QED
      BY <3>3, <3>4
  <2> QED
    BY <2>1, <2>2 DEF Met
<1>3. S = Cursors
  BY <1>1, <1>2, CursorsLeast
<1> QED
  BY <1>3

(* What an older cursor has ahead of it is ahead of any newer one.         *)
LEMMA OlderShrinks ==
  ASSUME NEW c \in Cursors, NEW d \in Cursors, d # None, Rank(d) <= Rank(c)
  PROVE  Older(d) \subseteq Older(c)
<1>1. d \in OnDisk /\ c \in OnDisk \cup {None} /\ OnDisk \subseteq Nat /\ None \notin Nat
  BY CursorsFollow, NoneAssumption DEF OnDisk, Job
<1>2. c # None => d <= c
  BY <1>1 DEF Rank
<1>3. ASSUME NEW j \in Older(d) PROVE j \in Older(c)
  <2>1. j \in by_created \cap OnDisk /\ j < d /\ j \in Nat /\ d \in Nat
    BY <1>1 DEF Older
  <2>2. c # None => c \in OnDisk /\ c \in Nat /\ j < c
    BY <1>1, <1>2, <2>1
  <2> QED
    BY <2>1, <2>2 DEF Older
<1> QED
  BY <1>3

(* A job is on the page of at most one cursor.                             *)
LEMMA OnePage ==
  ASSUME NEW c \in Cursors, NEW d \in Cursors, NEW j \in Page(c), j \in Page(d)
  PROVE  c = d
<1>1. ASSUME NEW a \in Cursors, NEW b \in Cursors, Rank(b) < Rank(a),
             j \in Page(a), j \in Page(b)
      PROVE  FALSE
  <2>1. Rank(a) \in Nat /\ Rank(b) \in Nat
    BY CursorsFollow
  <2>2. PICK n \in NextCursor(a) : Rank(b) <= Rank(n)
    BY <1>1, <2>1, AllMet, MetSplits DEF Split
  <2>3. n \in Cursors /\ n \in OnDisk /\ n \in 1 .. MaxJobs /\ n # None
    BY CursorsFollow, NoneAssumption DEF OnDisk, Job
  <2>4. b # None
    BY <2>2, <2>3, BoundsAssumption DEF Rank
  <2>5. Older(b) \subseteq Older(n)
    BY <2>2, <2>3, <2>4, OlderShrinks
  <2>6. j \in Older(n)
    BY <1>1, <2>5 DEF Page
  <2>7. Page(a) \cap Older(n) = {}
    BY PagesTile DEF Tiles
  <2> QED
    BY <1>1, <2>6, <2>7
<1>2. Rank(c) \in Nat /\ Rank(d) \in Nat /\ (Rank(c) = Rank(d) => c = d)
  BY CursorsFollow
<1> QED
  BY <1>1, <1>2

(* A job of the history is on the page of some cursor.                     *)
LEMMA SomePage ==
  ASSUME NEW j \in by_created \cap OnDisk
  PROVE  \E c \in Cursors : j \in Page(c)
<1> SUFFICES ASSUME \A c \in Cursors : j \notin Page(c) PROVE FALSE
  OBVIOUS
<1> DEFINE S == {c \in Cursors : j \in Older(c)}
<1>1. None \in S
  BY CursorsFollow DEF Older
<1>2. ASSUME NEW c \in S PROVE NextCursor(c) # {} /\ NextCursor(c) \subseteq S
  <2>1. j \in Older(c) /\ j \notin Page(c) /\ Tiles(c)
    BY PagesTile
  <2>2. NextCursor(c) # {}
    BY <2>1 DEF Tiles
  <2>3. \A n \in NextCursor(c) : j \in Older(n)
    BY <2>1 DEF Tiles
  <2> QED
    BY <2>2, <2>3, CursorsFollow
<1> DEFINE J == {c \in S : c \in OnDisk}
<1>3. J \in SUBSET Job /\ J # {}
  BY <1>1, <1>2, CursorsFollow DEF OnDisk
<1>4. PICK c \in J : \A i \in J : c <= i
  BY <1>3, LeastJob
<1>5. PICK n \in NextCursor(c) : TRUE
  BY <1>2, <1>4
<1>6. n \in J /\ Rank(n) < Rank(c)
  BY <1>2, <1>4, <1>5, CursorsFollow
<1>7. Job \subseteq Nat /\ None \notin Nat /\ c \in Nat /\ n \in Nat
  BY <1>3, <1>4, <1>6, NoneAssumption DEF Job
<1>8. c <= n
  BY <1>4, <1>6
<1>9. n < c
  <2>1. c # None /\ n # None
    BY <1>7
  <2> QED
    BY <1>6, <2>1 DEF Rank
<1> QED
  BY <1>7, <1>8, <1>9

(* A record that made it to disk can be found again after any crash: on    *)
(* exactly one page of the history that a client follows, by the key it    *)
(* was submitted with and, while it is active, by the next startup.        *)
THEOREM RecordsAreFound == Spec => []RecordsIndexed
<1>1. ASSUME JobInv, NEW j \in OnDisk
      PROVE  Cardinality({c \in Cursors : j \in Page(c)}) = 1
  <2>1. j \in by_created \cap OnDisk
    BY <1>1 DEF JobInv, StoreInv, RecordsMarked
  <2>2. PICK c \in Cursors : j \in Page(c)
    BY <2>1, SomePage
  <2>3. {d \in Cursors : j \in Page(d)} = {c}
    BY <2>2, OnePage
  <2> QED
    BY <2>3, FS_Singleton
<1>2. JobInv => RecordsIndexed
  BY <1>1 DEF JobInv, StoreInv, RecordsMarked, KeysIndexed, RecordsIndexed
<1> QED
  BY <1>2, JobInvariant, PTL

(* A job that was shown as ended, by whichever read, is shown the same by  *)
(* all of them for ever, unless its record was ahead of the memory, which  *)
(* takes a failing write.                                                  *)
THEOREM EndedIsFinal == Spec => TerminalIsFinal
<1>1. JobInv /\ [Next]_vars =>
        [\A j \in Job :
           /\ \A rec \in Shown(j) : rec.state \in Terminal =>
                  Shown(j)' = {rec} \/ (Ahead(j) /\ rec # Got(j))
           /\ Ahead(j)' => Ahead(j) \/ failures' > failures]_vars
  BY NextKeeps DEF Final
<1> QED
  BY <1>1, JobInvariant, PTL DEF Spec, TerminalIsFinal

(* A startup that has looked at the last marker leaves no active record.   *)
THEOREM StartupEndsThemAll == Spec => StartupEndsEveryJob
<1>1. JobInv /\ [Next]_vars =>
        [unrecovered # {} /\ unrecovered' = {} =>
           \A j \in OnDisk' : record'[j].state \in Terminal]_vars
  BY NextKeeps DEF StartupEnds
<1> QED
  BY <1>1, JobInvariant, PTL DEF Spec, StartupEndsEveryJob
=============================================================================
