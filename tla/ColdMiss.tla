------------------------------ MODULE ColdMiss ------------------------------
(***************************************************************************)
(* One missing file: the requests that share its acquisition, the flight   *)
(* that runs it on a thread of its own, the progress it relays, the helper *)
(* process it reads from, and the token through which an operator stops    *)
(* both (src/src/singleflight.rs; Cancellation and OfficialHfFetcher of    *)
(* src/src/upstream.rs; the wait of src/src/http.rs).                      *)
(*                                                                         *)
(* One key of the single flight is modelled: flights of different keys     *)
(* share nothing.  A flight numbers the events it publishes.  The helper   *)
(* may write any line, stop at any point, and exit with any status.        *)
(***************************************************************************)
EXTENDS Integers, FiniteSets

CONSTANTS
    Waiter,       \* requests and jobs that need the file
    Bounded,      \* those that answer at a deadline
    MaxFlights,   \* bound: flights started
    MaxLines,     \* bound: lines that helpers write, in all
    Class,        \* failures a helper may report
    None

ASSUME WaiterAssumption == Bounded \subseteq Waiter /\ None \notin Waiter \cup Nat
ASSUME BoundsAssumption == MaxFlights \in Nat \ {0} /\ MaxLines \in Nat

Flight == 1..MaxFlights
(* A line is progress, a result, a line that breaks the protocol, or a     *)
(* failure.  (Module FetchStaging has the resolved commit; an object       *)
(* without type is skipped.)                                               *)
Line == {"progress", "result", "bad"} \cup Class
(* An exit status: success, or what another one says without failure event. *)
Status == {"success", "exit_failure"}
(* What a flight may tell: it published, or an UpstreamError.              *)
Outcome == {"published", "failed", "cancelled", "invalid_output", "exit_failure"} \cup Class

ASSUME ClassAssumption ==
    Class \cap ({None, "progress", "result", "bad", "fetched", "running", "dropped"} \cup Status) = {}

VARIABLES
    registered,   \* the flight of the key, or None
    completion,   \* per flight: "running", or what everyone is told
    count,        \* per flight: events published
    worker,       \* per flight: the step of its thread
    result, failure, broken,    \* per flight: what its thread has read
    outcome,      \* per flight: what its thread will publish
    token,        \* per flight: "running", "cancelled", "committing"
    handle,       \* per flight: who holds the helper: "none", "thread", "token"
    helper,       \* per flight: "none", "running", "closed", "exited", "reaped"
    pipe,         \* per flight: the line nobody has read, or None
    lines,        \* lines written
    first,        \* per flight: the first failure written, or None
    status,       \* per flight: the exit status
    at, joined,   \* per waiter: its step and its flight
    cursor,       \* per waiter: events it has taken
    late,         \* per waiter: its deadline has passed
    got,          \* per waiter: the completion it has taken, or "running"
    answer        \* per waiter

process == <<token, handle, helper>>
output == <<pipe, lines, first, status>>
reading == <<result, failure, broken, outcome>>
flight == <<completion, count>>
waits == <<at, joined, cursor, late, got, answer>>
vars == <<registered, flight, worker, reading, process, output, waits>>

Init ==
    /\ registered = None
    /\ completion = [f \in Flight |-> "running"]
    /\ count = [f \in Flight |-> 0]
    /\ worker = [f \in Flight |-> "none"]
    /\ result = [f \in Flight |-> FALSE] /\ failure = [f \in Flight |-> None]
    /\ broken = [f \in Flight |-> FALSE]
    /\ outcome = [f \in Flight |-> "running"]
    /\ token = [f \in Flight |-> "running"]
    /\ handle = [f \in Flight |-> "none"]
    /\ helper = [f \in Flight |-> "none"]
    /\ pipe = [f \in Flight |-> None]
    /\ lines = 0
    /\ first = [f \in Flight |-> None]
    /\ status = [f \in Flight |-> "success"]
    /\ at = [w \in Waiter |-> "idle"]
    /\ joined = [w \in Waiter |-> None]
    /\ cursor = [w \in Waiter |-> 0]
    /\ late = [w \in Waiter |-> FALSE]
    /\ got = [w \in Waiter |-> "running"]
    /\ answer = [w \in Waiter |-> "none"]

-----------------------------------------------------------------------------
(* SingleFlight::join and Flight::wait.                                    *)

Goes(w, to) == at' = [at EXCEPT ![w] = to]
(* The request is over, and with it what its thread kept of the wait; the  *)
(* last one to hold a flight that has ended drops it.                      *)
Answered(w, a) ==
    LET f == joined[w]
        last == worker[f] = "gone" /\ \A v \in Waiter \ {w} : joined[v] # f
    IN /\ Goes(w, "answered")
       /\ answer' = [answer EXCEPT ![w] = a]
       /\ joined' = [joined EXCEPT ![w] = None]
       /\ cursor' = [cursor EXCEPT ![w] = 0]
       /\ got' = [got EXCEPT ![w] = "running"]
       /\ late' = [late EXCEPT ![w] = FALSE]
       /\ completion' = [completion EXCEPT ![f] = IF last THEN "dropped" ELSE @]
       /\ count' = [count EXCEPT ![f] = IF last THEN 0 ELSE @]
BesideWaits == UNCHANGED <<registered, worker, reading, process, output>>
WaiterOnly == UNCHANGED flight /\ BesideWaits
Fresh == {f \in Flight : worker[f] = "none"}

(* Under the lock of the registry: share the flight, or start the next.    *)
Join(w) ==
    /\ at[w] = "idle"
    /\ \/ registered # None /\ UNCHANGED <<registered, worker>>
       \/ /\ registered = None /\ Fresh # {}
          /\ LET f == CHOOSE f \in Fresh : \A g \in Fresh : f <= g
             IN registered' = f /\ worker' = [worker EXCEPT ![f] = "starting"]
    /\ joined' = [joined EXCEPT ![w] = registered']
    /\ Goes(w, "joined")
    /\ UNCHANGED <<cursor, late, got, answer>>
    /\ UNCHANGED <<flight, reading, process, output>>

(* Mutant of Behind: the subtraction does not saturate.                    *)
BehindZero(n) == n - 1

Behind(n) == IF n = 0 THEN 0 ELSE n - 1

(* Under the lock of the flight: one event behind.                         *)
Attach(w) ==
    /\ at[w] = "joined"
    /\ cursor' = [cursor EXCEPT ![w] = Behind(count[joined[w]])]
    /\ Goes(w, "scanning")
    /\ UNCHANGED <<joined, late, got, answer>> /\ WaiterOnly

(* Its wait has timed out, or its deadline is found to have passed.        *)
GivesUp(w) ==
    /\ late[w]
    /\ completion[joined[w]] = "running" /\ cursor[w] = count[joined[w]]

(* Mutant of Taken: one event a turn, the result with it.                  *)
TakenOne(w) == IF cursor[w] < count[joined[w]] THEN cursor[w] + 1 ELSE cursor[w]

Taken(w) == count[joined[w]]

(* One turn of the loop, under the lock: give up, sleep, or take what      *)
(* there is; the events are relayed after the lock is released.            *)
Scan(w) ==
    /\ at[w] = "scanning"
    /\ LET f == joined[w]
       IN \/ GivesUp(w) /\ Answered(w, "pending")
          \/ /\ ~GivesUp(w) /\ completion[f] = "running" /\ cursor[w] = count[f]
             /\ Goes(w, "sleeping")
             /\ UNCHANGED <<joined, cursor, late, got, answer, flight>>
          \/ /\ ~GivesUp(w) /\ (completion[f] # "running" \/ cursor[w] # count[f])
             /\ Goes(w, "observing")
             /\ cursor' = [cursor EXCEPT ![w] = Taken(w)]
             /\ got' = [got EXCEPT ![w] = completion[f]]
             /\ UNCHANGED <<joined, late, answer, flight>>
    /\ BesideWaits

Observe(w) ==
    /\ at[w] = "observing"
    /\ IF got[w] = "running"
       THEN Goes(w, "scanning") /\ UNCHANGED <<joined, cursor, late, got, answer, flight>>
       ELSE Answered(w, "told")
    /\ BesideWaits

(* ColdMissPolicy: a file has a deadline by default, metadata has not, and  *)
(* either setting can be removed; a job has none.                          *)
HasDeadline(w) == w \in Bounded

(* The deadline passes, wherever the waiter is; wait_timeout returns.      *)
Deadline(w) ==
    /\ HasDeadline(w) /\ ~late[w] /\ at[w] \in {"joined", "scanning", "observing", "sleeping"}
    /\ late' = [late EXCEPT ![w] = TRUE]
    /\ IF at[w] = "sleeping" THEN Goes(w, "scanning") ELSE UNCHANGED at
    /\ UNCHANGED <<joined, cursor, got, answer>> /\ WaiterOnly

(* A client repeats its request after 503.                                 *)
AskAgain(w) ==
    /\ at[w] = "answered" /\ answer[w] = "pending"
    /\ Goes(w, "idle")
    /\ answer' = [answer EXCEPT ![w] = "none"]
    /\ UNCHANGED <<joined, cursor, late, got>> /\ WaiterOnly

(* Mutant of Notified: one sleeper is woken.                               *)
NotifiedOne(f) ==
    IF \E w \in Waiter : at[w] = "sleeping" /\ joined[w] = f
    THEN [at EXCEPT ![CHOOSE w \in Waiter : at[w] = "sleeping" /\ joined[w] = f] = "scanning"]
    ELSE at

(* notify_all.                                                             *)
Notified(f) ==
    [w \in Waiter |-> IF at[w] = "sleeping" /\ joined[w] = f THEN "scanning" ELSE at[w]]
Notify(f) ==
    /\ at' = Notified(f)
    /\ UNCHANGED <<joined, cursor, late, got, answer>>

-----------------------------------------------------------------------------
(* The thread of the flight: OfficialHfFetcher::run_fetch, the claim and   *)
(* the publication, and the end of the flight.                             *)

Moves(f, to) == worker' = [worker EXCEPT ![f] = to]
Sets(f, o) == outcome' = [outcome EXCEPT ![f] = o]
EndsWith(f, o) == Moves(f, "finishing") /\ Sets(f, o)
Has(f, who, state) ==
    handle' = [handle EXCEPT ![f] = who] /\ helper' = [helper EXCEPT ![f] = state]
Read == UNCHANGED <<result, failure, broken>>
Silent == UNCHANGED <<registered, flight, waits>>

Spawn(f) ==
    /\ worker[f] = "starting"
    /\ \/ token[f] = "cancelled" /\ EndsWith(f, "cancelled") /\ UNCHANGED <<handle, helper>>
       \/ token[f] # "cancelled" /\ EndsWith(f, "failed") /\ UNCHANGED <<handle, helper>>
       \/ /\ token[f] # "cancelled"
          /\ Has(f, "thread", "running") /\ Moves(f, "attaching") /\ UNCHANGED outcome
    /\ UNCHANGED <<token, output>> /\ Read /\ Silent

(* Mutant of GiveToken: the helper is given whatever the token says.       *)
GiveTokenAlways(f) ==
    Has(f, "token", helper[f]) /\ Moves(f, "reading") /\ UNCHANGED outcome

(* Cancellation::attach.                                                   *)
GiveToken(f) ==
    IF token[f] = "cancelled"
    THEN Has(f, "none", "reaped") /\ EndsWith(f, "cancelled")
    ELSE Has(f, "token", helper[f]) /\ Moves(f, "reading") /\ UNCHANGED outcome

AttachHelper(f) ==
    /\ worker[f] = "attaching"
    /\ GiveToken(f)
    /\ UNCHANGED <<token, output>> /\ Read /\ Silent

(* The loop over the lines: it ends at the end of the pipe or at a line    *)
(* that breaks the protocol, not at a failure.                             *)
ReadLine(f) ==
    /\ worker[f] = "reading" /\ pipe[f] # None
    /\ LET l == pipe[f]
       IN /\ broken' = [broken EXCEPT ![f] = l = "bad"]
          /\ failure' = [failure EXCEPT ![f] = IF l \in Class /\ @ = None THEN l ELSE @]
          /\ result' = [result EXCEPT ![f] = @ \/ l = "result"]
          /\ IF l = "bad" THEN Moves(f, "reclaiming") ELSE UNCHANGED worker
          /\ IF l = "progress"
             THEN count' = [count EXCEPT ![f] = @ + 1] /\ Notify(f)
             ELSE UNCHANGED <<count, waits>>
    /\ pipe' = [pipe EXCEPT ![f] = None]
    /\ UNCHANGED <<registered, completion, outcome, process, lines, first, status>>

ReadEnd(f) ==
    /\ worker[f] = "reading" /\ pipe[f] = None
    /\ helper[f] \in {"closed", "exited", "reaped"}
    /\ Moves(f, "reclaiming")
    /\ UNCHANGED <<outcome, process, output>> /\ Read /\ Silent

(* Cancellation::reclaim.                                                  *)
Reclaim(f) ==
    /\ worker[f] = "reclaiming"
    /\ IF handle[f] = "token"
       THEN Has(f, "thread", helper[f]) /\ Moves(f, "judging") /\ UNCHANGED outcome
       ELSE EndsWith(f, "cancelled") /\ UNCHANGED <<handle, helper>>
    /\ UNCHANGED <<token, output>> /\ Read /\ Silent

Stopped(f) == Has(f, "none", "reaped")

Judge(f) ==
    /\ worker[f] = "judging"
    /\ \/ token[f] = "cancelled" /\ Stopped(f) /\ EndsWith(f, "cancelled")
       \/ /\ token[f] # "cancelled" /\ broken[f]
          /\ Stopped(f) /\ EndsWith(f, "invalid_output")
       \/ /\ token[f] # "cancelled" /\ ~broken[f]
          /\ Moves(f, "waiting") /\ UNCHANGED <<outcome, handle, helper>>
    /\ UNCHANGED <<token, output>> /\ Read /\ Silent

(* Mutant of Judgement: the exit status is looked at before the failure.   *)
JudgementByStatus(f) ==
    CASE status[f] # "success" -> status[f]
      [] failure[f] # None -> failure[f]
      [] OTHER -> IF result[f] THEN "fetched" ELSE "invalid_output"

(* A failure the helper reported counts whatever it exited with; without   *)
(* one the status does; success needs a result.                            *)
Judgement(f) ==
    CASE failure[f] # None -> failure[f]
      [] failure[f] = None /\ status[f] # "success" -> status[f]
      [] OTHER -> IF result[f] THEN "fetched" ELSE "invalid_output"

(* A result may still be one that names no file, or another commit than    *)
(* the one resumed.                                                        *)
Wait(f) ==
    /\ worker[f] = "waiting" /\ helper[f] = "exited"
    /\ Has(f, "none", "reaped")
    /\ LET j == Judgement(f)
       IN \/ j = "fetched" /\ Moves(f, "claiming") /\ UNCHANGED outcome
          \/ EndsWith(f, IF j = "fetched" THEN "invalid_output" ELSE j)
    /\ UNCHANGED <<token, output>> /\ Read /\ Silent

(* Cancellation::commit.                                                   *)
Commit(f) ==
    /\ worker[f] = "claiming"
    /\ IF token[f] = "running"
       THEN /\ token' = [token EXCEPT ![f] = "committing"]
            /\ Moves(f, "publishing") /\ UNCHANGED outcome
       ELSE UNCHANGED token /\ EndsWith(f, "cancelled")
    /\ UNCHANGED <<handle, helper, output>> /\ Read /\ Silent

(* Publication fails, or the thread panics and nobody gets a result.       *)
Publish(f) ==
    /\ worker[f] = "publishing"
    /\ \E o \in {"published", "failed"} : EndsWith(f, o)
    /\ UNCHANGED <<process, output>> /\ Read /\ Silent

(* Mutant of Unregistered: the key stays.                                  *)
UnregisteredNever == registered

Unregistered == None

(* Under the lock of the registry the key goes and the result is there;    *)
(* what the thread read ends with it.                                      *)
Retire(f) ==
    /\ worker[f] = "finishing"
    /\ registered' = Unregistered
    /\ LET held == \E w \in Waiter : joined[w] = f
       IN /\ completion' = [completion EXCEPT ![f] = IF held THEN outcome[f] ELSE "dropped"]
          /\ count' = [count EXCEPT ![f] = IF held THEN @ ELSE 0]
    /\ Notify(f)
    /\ Moves(f, "gone")
    /\ result' = [result EXCEPT ![f] = FALSE] /\ failure' = [failure EXCEPT ![f] = None]
    /\ broken' = [broken EXCEPT ![f] = FALSE] /\ outcome' = [outcome EXCEPT ![f] = "running"]
    /\ token' = [token EXCEPT ![f] = "running"]
    /\ pipe' = [pipe EXCEPT ![f] = None] /\ first' = [first EXCEPT ![f] = None]
    /\ status' = [status EXCEPT ![f] = "success"]
    /\ UNCHANGED <<handle, helper, lines>>

(* Cancellation::cancel: whoever cancels kills and reaps.                  *)
Cancelled(f) ==
    IF handle[f] = "token" THEN Has(f, "none", "reaped") ELSE UNCHANGED <<handle, helper>>

Cancel(f) ==
    /\ worker[f] \notin {"none", "finishing", "gone"} /\ token[f] = "running"
    /\ token' = [token EXCEPT ![f] = "cancelled"]
    /\ Cancelled(f)
    /\ UNCHANGED <<worker, outcome, output>> /\ Read /\ Silent

-----------------------------------------------------------------------------
(* The helper.                                                             *)

HelperOnly == UNCHANGED <<worker, reading, token, handle>> /\ Silent

Write(f, l) ==
    /\ helper[f] = "running" /\ pipe[f] = None /\ lines < MaxLines
    /\ pipe' = [pipe EXCEPT ![f] = l]
    /\ lines' = lines + 1
    /\ first' = [first EXCEPT ![f] = IF l \in Class /\ @ = None THEN l ELSE @]
    /\ UNCHANGED <<status, helper>> /\ HelperOnly

(* It exits, or is killed: its end of the pipe is closed first.            *)
Close(f) ==
    /\ helper[f] = "running"
    /\ helper' = [helper EXCEPT ![f] = "closed"]
    /\ UNCHANGED output /\ HelperOnly

Exit(f) ==
    /\ helper[f] = "closed"
    /\ helper' = [helper EXCEPT ![f] = "exited"]
    /\ \E s \in Status : status' = [status EXCEPT ![f] = s]
    /\ UNCHANGED <<pipe, lines, first>> /\ HelperOnly

Waits(w) == Attach(w) \/ Scan(w) \/ Observe(w) \/ Deadline(w)
Works(f) == \/ Spawn(f) \/ AttachHelper(f) \/ ReadLine(f) \/ ReadEnd(f) \/ Reclaim(f)
            \/ Judge(f) \/ Wait(f) \/ Commit(f) \/ Publish(f) \/ Retire(f)

Next ==
    \/ \E w \in Waiter : Join(w) \/ Waits(w) \/ AskAgain(w)
    \/ \E f \in Flight : Works(f) \/ Cancel(f) \/ Close(f) \/ Exit(f)
    \/ \E f \in Flight, l \in Line : Write(f, l)

Spec == Init /\ [][Next]_vars

(* Threads run, deadlines pass, a process that closes its pipe is exiting. *)
(* A helper need not write, nor end.  One flight runs at a time (OneFlight) *)
(* and takes finitely many steps: one condition is enough for all.         *)
Fairness ==
    /\ \A w \in Waiter : WF_vars(Waits(w))
    /\ WF_vars(\E f \in Flight : Works(f) \/ Exit(f))

FairSpec == Spec /\ Fairness

-----------------------------------------------------------------------------
TypeOK ==
    /\ registered \in Flight \cup {None}
    /\ completion \in [Flight -> Outcome \cup {"running", "dropped"}]
    /\ outcome \in [Flight -> Outcome \cup {"running"}]
    /\ count \in [Flight -> 0..MaxLines] /\ lines \in 0..MaxLines
    /\ worker \in [Flight -> {"none", "starting", "attaching", "reading", "reclaiming", "judging",
                              "waiting", "claiming", "publishing", "finishing", "gone"}]
    /\ result \in [Flight -> BOOLEAN]
    /\ failure \in [Flight -> Class \cup {None}] /\ first \in [Flight -> Class \cup {None}]
    /\ broken \in [Flight -> BOOLEAN]
    /\ token \in [Flight -> {"running", "cancelled", "committing"}]
    /\ handle \in [Flight -> {"none", "thread", "token"}]
    /\ helper \in [Flight -> {"none", "running", "closed", "exited", "reaped"}]
    /\ pipe \in [Flight -> Line \cup {None}] /\ status \in [Flight -> Status]
    /\ at \in [Waiter -> {"idle", "joined", "scanning", "observing", "sleeping", "answered"}]
    /\ joined \in [Waiter -> Flight \cup {None}]
    /\ cursor \in [Waiter -> 0..MaxLines]
    /\ late \in [Waiter -> BOOLEAN]
    /\ got \in [Waiter -> Outcome \cup {"running"}]
    /\ answer \in [Waiter -> {"none", "pending", "told"}]

(* Single flight: the flight of the key is one that runs, so nobody joins  *)
(* a result that is out, and every thread that acquires is the one of the  *)
(* key, so nothing is acquired twice at once, nor is a flight lost that a  *)
(* retry could join.                                                       *)
OneFlight ==
    /\ registered # None => completion[registered] = "running"
    /\ \A f \in Flight : worker[f] \notin {"none", "gone"} => registered = f

(* Whoever waits to the end has been relayed the last event before the     *)
(* result, and is told the result of the flight it joined, although the    *)
(* key may have started another one by then.                               *)
ToldTheEnd ==
    \A w \in Waiter : got[w] # "running" =>
        got[w] = completion[joined[w]] /\ cursor[w] = count[joined[w]]

(* A helper that exists is held by someone who will reap it, and by the    *)
(* time the flight ends it is gone: no orphan, no zombie; and once a       *)
(* cancellation is answered no helper transfers for the thread that reads: *)
(* it was stopped, or is stopped when the token is given it.               *)
NoOrphan ==
    \A f \in Flight :
        /\ helper[f] \in {"running", "closed", "exited"} => handle[f] # "none"
        /\ worker[f] \in {"claiming", "finishing", "gone"} => helper[f] \in {"none", "reaped"}
        /\ token[f] = "cancelled" /\ worker[f] = "reading" => helper[f] = "reaped"

(* The reason a helper gave is the reason told, whatever it wrote later    *)
(* and exited with, unless it was cancelled or broke the protocol; and     *)
(* nothing is published of a helper that reported a failure.               *)
ReasonIsTold ==
    \A f \in Flight : worker[f] = "finishing" /\ first[f] # None =>
        outcome[f] \in {first[f], "cancelled", "invalid_output"}

(* A wait ends at its deadline even if the helper hangs; without one it    *)
(* ends with the flight, and a cancelled flight ends without its helper.   *)
Waiting(w) == at[w] \notin {"idle", "answered"}
EveryWaitEnds ==
    \A w \in Waiter :
        Waiting(w) /\ \/ HasDeadline(w)
                      \/ joined[w] # None /\ token[joined[w]] = "cancelled"
                      \/ joined[w] # None /\ completion[joined[w]] # "running"
            ~> at[w] = "answered"
=============================================================================
