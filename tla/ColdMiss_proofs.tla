--------------------------- MODULE ColdMiss_proofs ---------------------------
(***************************************************************************)
(* Proofs about one missing file, for any number of waiters, flights and   *)
(* lines.  The invariant is stated per flight and per waiter: who holds    *)
(* the helper and how far it can be at each step of the flight's thread;   *)
(* what the thread has read of what the helper has written; and what a     *)
(* waiter may still take of its flight.                                    *)
(***************************************************************************)
EXTENDS ColdMiss, WellFoundedInduction, TLAPS

Living == {"running", "closed", "exited"}

(* The helper of a flight: nobody's until it is spawned; the thread's      *)
(* before it is attached and after it is reclaimed; the token's while the  *)
(* thread reads, or reaped by a cancellation.                              *)
HelperHeld(f) ==
    /\ worker[f] \in {"none", "starting"} => handle[f] = "none" /\ helper[f] = "none"
    /\ worker[f] \in {"attaching", "judging", "waiting"} =>
          handle[f] = "thread" /\ helper[f] \in Living
    /\ worker[f] \in {"reading", "reclaiming"} =>
          \/ handle[f] = "token" /\ helper[f] \in Living /\ token[f] # "cancelled"
          \/ handle[f] = "none" /\ helper[f] = "reaped" /\ token[f] = "cancelled"
    /\ worker[f] \in {"claiming", "publishing", "finishing", "gone"} =>
          handle[f] = "none" /\ helper[f] \in {"none", "reaped"}

(* The first failure the helper wrote is the one the thread has kept, or   *)
(* the next line it will read.                                             *)
FailureKept(f) ==
    \/ failure[f] = first[f] /\ (first[f] = None => pipe[f] \notin Class)
    \/ failure[f] = None /\ first[f] # None /\ pipe[f] = first[f]

ReadingInv(f) ==
    /\ worker[f] \in {"none", "starting", "gone"} =>
          first[f] = None /\ failure[f] = None /\ pipe[f] = None /\ ~ broken[f]
    /\ worker[f] = "attaching" => FailureKept(f) /\ ~ broken[f]
    /\ worker[f] = "reading" => FailureKept(f) /\ ~ broken[f]
    /\ worker[f] \in {"reclaiming", "judging"} =>
          broken[f] \/ (failure[f] = first[f] /\ helper[f] # "running")
    /\ worker[f] = "waiting" =>
          ~ broken[f] /\ failure[f] = first[f] /\ helper[f] # "running"
    /\ worker[f] \in {"claiming", "publishing"} => first[f] = None
    /\ worker[f] = "finishing" =>
          /\ outcome[f] # "running"
          /\ first[f] # None => outcome[f] \in {first[f], "cancelled", "invalid_output"}

(* The key names the flight whose thread is at work; a flight is over when *)
(* its thread is; it has published no more events than lines were written. *)
FlightInv(f) ==
    /\ registered = f <=> worker[f] \notin {"none", "gone"}
    /\ completion[f] # "running" <=> worker[f] = "gone"
    /\ count[f] + (IF pipe[f] = None THEN 0 ELSE 1) <= lines

(* A waiter belongs to a flight that was started and is not dropped; it    *)
(* has taken no more than there is, and if it has taken the result it has  *)
(* taken everything.                                                       *)
WaiterInv(w) ==
    /\ at[w] \in {"idle", "answered"} <=> joined[w] = None
    /\ joined[w] = None => cursor[w] = 0 /\ got[w] = "running"
    /\ joined[w] # None =>
          /\ worker[joined[w]] # "none"
          /\ completion[joined[w]] # "dropped"
          /\ cursor[w] <= count[joined[w]]
    /\ got[w] # "running" =>
          /\ at[w] = "observing"
          /\ got[w] = completion[joined[w]]
          /\ cursor[w] = count[joined[w]]

ColdMissInv ==
    /\ TypeOK
    /\ \A f \in Flight : HelperHeld(f) /\ ReadingInv(f) /\ FlightInv(f)
    /\ \A w \in Waiter : WaiterInv(w)


(* The next flight: a nonempty set of flights has a least one.             *)
LEMMA LeastFlight ==
  ASSUME NEW S \in SUBSET Flight, S # {}
  PROVE  \E f \in S : \A g \in S : f <= g
<1>1. S \subseteq Nat
  BY DEF Flight
<1>2. \E f \in S : \A g \in S : ~ (<<g, f>> \in OpToRel(<, Nat))
  BY <1>1, NatLessThanWellFounded, WFMin
<1>3. PICK f \in S : \A g \in S : ~ (<<g, f>> \in OpToRel(<, Nat))
  BY <1>2
<1>4. \A g \in S : ~(g < f)
  BY <1>1, <1>3 DEF OpToRel
<1> QED
  BY <1>1, <1>4

LEMMA InitInv == Init => ColdMissInv
BY BoundsAssumption, WaiterAssumption
   DEF Init, ColdMissInv, TypeOK, HelperHeld, ReadingInv, FlightInv, WaiterInv, FailureKept,
       Flight, Living, Outcome, Line, Status

LEMMA AttachKeeps ==
  ASSUME ColdMissInv, NEW w \in Waiter, Attach(w)
  PROVE  ColdMissInv'
<1> USE DEF Attach, WaiterOnly, BesideWaits, Goes, Behind, process, output, reading, flight, waits
<1>a. joined[w] \in Flight /\ count[joined[w]] \in 0..MaxLines
  BY DEF ColdMissInv, TypeOK, WaiterInv
<1>1. TypeOK'
  BY <1>a, BoundsAssumption DEF ColdMissInv, TypeOK
<1>2. ASSUME NEW g \in Flight PROVE HelperHeld(g)'
  BY DEF ColdMissInv, TypeOK, HelperHeld, Living
<1>3. ASSUME NEW g \in Flight PROVE ReadingInv(g)'
  BY ClassAssumption DEF ColdMissInv, TypeOK, ReadingInv, FailureKept
<1>4. ASSUME NEW g \in Flight PROVE FlightInv(g)'
  BY DEF ColdMissInv, TypeOK, FlightInv
<1>5. ASSUME NEW v \in Waiter PROVE WaiterInv(v)'
  BY <1>a DEF ColdMissInv, TypeOK, WaiterInv
<1> QED
  BY <1>1, <1>2, <1>3, <1>4, <1>5 DEF ColdMissInv

LEMMA DeadlineKeeps ==
  ASSUME ColdMissInv, NEW w \in Waiter, Deadline(w)
  PROVE  ColdMissInv'
<1> USE DEF Deadline, HasDeadline, WaiterOnly, BesideWaits, Goes, process, output, reading,
   flight, waits
<1>1. TypeOK'
  BY DEF ColdMissInv, TypeOK
<1>2. ASSUME NEW g \in Flight PROVE HelperHeld(g)'
  BY DEF ColdMissInv, TypeOK, HelperHeld, Living
<1>3. ASSUME NEW g \in Flight PROVE ReadingInv(g)'
  BY ClassAssumption DEF ColdMissInv, TypeOK, ReadingInv, FailureKept
<1>4. ASSUME NEW g \in Flight PROVE FlightInv(g)'
  BY DEF ColdMissInv, TypeOK, FlightInv
<1>5. ASSUME NEW v \in Waiter PROVE WaiterInv(v)'
  BY DEF ColdMissInv, TypeOK, WaiterInv
<1> QED
  BY <1>1, <1>2, <1>3, <1>4, <1>5 DEF ColdMissInv

LEMMA AskAgainKeeps ==
  ASSUME ColdMissInv, NEW w \in Waiter, AskAgain(w)
  PROVE  ColdMissInv'
<1> USE DEF AskAgain, WaiterOnly, BesideWaits, Goes, process, output, reading, flight, waits
<1>1. TypeOK'
  BY DEF ColdMissInv, TypeOK
<1>2. ASSUME NEW g \in Flight PROVE HelperHeld(g)'
  BY DEF ColdMissInv, TypeOK, HelperHeld, Living
<1>3. ASSUME NEW g \in Flight PROVE ReadingInv(g)'
  BY ClassAssumption DEF ColdMissInv, TypeOK, ReadingInv, FailureKept
<1>4. ASSUME NEW g \in Flight PROVE FlightInv(g)'
  BY DEF ColdMissInv, TypeOK, FlightInv
<1>5. ASSUME NEW v \in Waiter PROVE WaiterInv(v)'
  BY DEF ColdMissInv, TypeOK, WaiterInv
<1> QED
  BY <1>1, <1>2, <1>3, <1>4, <1>5 DEF ColdMissInv

LEMMA JoinKeeps ==
  ASSUME ColdMissInv, NEW w \in Waiter, Join(w)
  PROVE  ColdMissInv'
<1> DEFINE r == registered'
<1>a. /\ r \in Flight /\ r # None
      /\ IF registered = None
         THEN worker[r] = "none" /\ worker' = [worker EXCEPT ![r] = "starting"]
         ELSE r = registered /\ worker' = worker
  <2>1. CASE registered # None
    BY <2>1 DEF Join, ColdMissInv, TypeOK
  <2>2. CASE registered = None /\ Fresh # {}
    <3>1. \E f \in Fresh : \A g \in Fresh : f <= g
      BY <2>2, LeastFlight DEF Fresh
    <3>2. r \in Fresh /\ worker' = [worker EXCEPT ![r] = "starting"]
      BY <2>2, <3>1 DEF Join
    <3> QED
      BY <2>2, <3>2, WaiterAssumption DEF Fresh, Flight
  <2> QED
    BY <2>1, <2>2 DEF Join
<1>b. /\ at[w] = "idle" /\ at' = [at EXCEPT ![w] = "joined"]
      /\ joined' = [joined EXCEPT ![w] = r]
      /\ UNCHANGED <<cursor, late, got, answer, completion, count, result, failure, broken,
                     outcome, token, handle, helper, pipe, lines, first, status>>
  BY DEF Join, Goes, flight, reading, process, output
<1> HIDE DEF r
<1>0. r = registered'
  BY DEF r
<1>1. TypeOK'
  BY <1>0, <1>a, <1>b DEF ColdMissInv, TypeOK
<1>2. ASSUME NEW g \in Flight PROVE HelperHeld(g)'
  BY <1>a, <1>b DEF ColdMissInv, TypeOK, HelperHeld, Living
<1>3. ASSUME NEW g \in Flight PROVE ReadingInv(g)'
  BY <1>a, <1>b DEF ColdMissInv, TypeOK, ReadingInv, FailureKept
<1>4. ASSUME NEW g \in Flight PROVE FlightInv(g)'
  <2>1. registered = g => registered # None
    BY WaiterAssumption DEF Flight
  <2>2. registered' = g <=> worker'[g] \notin {"none", "gone"}
    BY <2>1, <1>0, <1>a DEF ColdMissInv, TypeOK, FlightInv
  <2>3. worker'[g] = "gone" <=> worker[g] = "gone"
    BY <1>a DEF ColdMissInv, TypeOK
  <2> QED
    BY <2>2, <2>3, <1>b DEF ColdMissInv, FlightInv
<1>5. ASSUME NEW v \in Waiter PROVE WaiterInv(v)'
  <2>1. completion[r] = "running" /\ count[r] \in 0..MaxLines /\ worker'[r] # "none"
    BY <1>0, <1>a DEF ColdMissInv, TypeOK, FlightInv
  <2>2. cursor[w] = 0 /\ got[w] = "running"
    BY <1>b DEF ColdMissInv, WaiterInv
  <2>3. CASE v = w
    BY <2>1, <2>2, <2>3, <1>a, <1>b, BoundsAssumption DEF ColdMissInv, TypeOK, WaiterInv
  <2>4. CASE v # w
    BY <2>4, <1>a, <1>b DEF ColdMissInv, TypeOK, WaiterInv
  <2> QED
    BY <2>3, <2>4
<1> QED
  BY <1>1, <1>2, <1>3, <1>4, <1>5 DEF ColdMissInv

(* The end of a request: the waiter leaves its flight, and the last one to  *)
(* leave a flight that has ended takes what it told with it.               *)
LEMMA AnsweredKeeps ==
  ASSUME ColdMissInv, NEW w \in Waiter, NEW a \in {"pending", "told"},
         joined[w] \in Flight, Answered(w, a), BesideWaits
  PROVE  ColdMissInv'
<1> USE DEF Answered, Goes, BesideWaits, process, output, reading
<1>1. TypeOK'
  <2>1. completion' \in [Flight -> Outcome \cup {"running", "dropped"}]
    BY DEF ColdMissInv, TypeOK
  <2>2. count' \in [Flight -> 0..MaxLines]
    BY BoundsAssumption DEF ColdMissInv, TypeOK
  <2>3. at' \in [Waiter -> {"idle", "joined", "scanning", "observing", "sleeping", "answered"}]
    BY DEF ColdMissInv, TypeOK
  <2>4. joined' \in [Waiter -> Flight \cup {None}] /\ cursor' \in [Waiter -> 0..MaxLines]
    BY BoundsAssumption DEF ColdMissInv, TypeOK
  <2>5. /\ late' \in [Waiter -> BOOLEAN] /\ got' \in [Waiter -> Outcome \cup {"running"}]
        /\ answer' \in [Waiter -> {"none", "pending", "told"}]
    BY DEF ColdMissInv, TypeOK
  <2>6. UNCHANGED <<registered, outcome, lines, worker, result, failure, first, broken, token,
                    handle, helper, pipe, status>>
    OBVIOUS
  <2> QED
    BY <2>1, <2>2, <2>3, <2>4, <2>5, <2>6 DEF ColdMissInv, TypeOK
<1>2. ASSUME NEW g \in Flight PROVE HelperHeld(g)'
  BY DEF ColdMissInv, HelperHeld
<1>3. ASSUME NEW g \in Flight PROVE ReadingInv(g)'
  BY DEF ColdMissInv, ReadingInv, FailureKept
<1>4. ASSUME NEW g \in Flight PROVE FlightInv(g)'
  BY DEF ColdMissInv, TypeOK, FlightInv
<1>5. ASSUME NEW v \in Waiter PROVE WaiterInv(v)'
  BY DEF ColdMissInv, TypeOK, WaiterInv
<1> QED
  BY <1>1, <1>2, <1>3, <1>4, <1>5 DEF ColdMissInv

LEMMA ScanKeeps ==
  ASSUME ColdMissInv, NEW w \in Waiter, Scan(w)
  PROVE  ColdMissInv'
<1>a. joined[w] \in Flight /\ at[w] = "scanning"
  BY DEF Scan, ColdMissInv, TypeOK, WaiterInv
<1>b. BesideWaits
  BY DEF Scan
<1>1. CASE Answered(w, "pending")
  BY <1>a, <1>b, <1>1, AnsweredKeeps
<1>2. CASE /\ Goes(w, "sleeping")
           /\ UNCHANGED <<joined, cursor, late, got, answer, flight>>
  <2> USE <1>2 DEF Goes, BesideWaits, process, output, reading, flight
  <2>1. TypeOK'
    BY <1>b DEF ColdMissInv, TypeOK
  <2>2. ASSUME NEW g \in Flight PROVE HelperHeld(g)' /\ ReadingInv(g)' /\ FlightInv(g)'
    BY <1>b DEF ColdMissInv, HelperHeld, ReadingInv, FailureKept, FlightInv
  <2>3. ASSUME NEW v \in Waiter PROVE WaiterInv(v)'
    BY <1>a, <1>b DEF ColdMissInv, TypeOK, WaiterInv
  <2> QED
    BY <2>1, <2>2, <2>3 DEF ColdMissInv
<1>3. CASE /\ Goes(w, "observing")
           /\ cursor' = [cursor EXCEPT ![w] = Taken(w)]
           /\ got' = [got EXCEPT ![w] = completion[joined[w]]]
           /\ UNCHANGED <<joined, late, answer, flight>>
  <2> USE <1>3 DEF Goes, BesideWaits, process, output, reading, flight
  <2>0. completion[joined[w]] \in Outcome \cup {"running"}
    BY <1>a, WaiterAssumption DEF ColdMissInv, TypeOK, WaiterInv, Flight
  <2>1. TypeOK'
    BY <2>0, <1>a, <1>b DEF ColdMissInv, TypeOK, Taken
  <2>2. ASSUME NEW g \in Flight PROVE HelperHeld(g)' /\ ReadingInv(g)' /\ FlightInv(g)'
    BY <1>b DEF ColdMissInv, HelperHeld, ReadingInv, FailureKept, FlightInv
  <2>3. ASSUME NEW v \in Waiter PROVE WaiterInv(v)'
    BY <1>a, <1>b, WaiterAssumption DEF ColdMissInv, TypeOK, WaiterInv, Taken, Flight
  <2> QED
    BY <2>1, <2>2, <2>3 DEF ColdMissInv
<1> QED
  BY <1>1, <1>2, <1>3 DEF Scan

LEMMA ObserveKeeps ==
  ASSUME ColdMissInv, NEW w \in Waiter, Observe(w)
  PROVE  ColdMissInv'
<1>a. joined[w] \in Flight /\ at[w] = "observing"
  BY DEF Observe, ColdMissInv, TypeOK, WaiterInv
<1>b. BesideWaits
  BY DEF Observe
<1>1. CASE got[w] # "running"
  BY <1>a, <1>b, <1>1, AnsweredKeeps DEF Observe
<1>2. CASE got[w] = "running"
  <2> USE <1>2 DEF Observe, Goes, BesideWaits, process, output, reading, flight
  <2>1. TypeOK'
    BY <1>b DEF ColdMissInv, TypeOK
  <2>2. ASSUME NEW g \in Flight PROVE HelperHeld(g)' /\ ReadingInv(g)' /\ FlightInv(g)'
    BY <1>b DEF ColdMissInv, HelperHeld, ReadingInv, FailureKept, FlightInv
  <2>3. ASSUME NEW v \in Waiter PROVE WaiterInv(v)'
    BY <1>a, <1>b DEF ColdMissInv, TypeOK, WaiterInv
  <2> QED
    BY <2>1, <2>2, <2>3 DEF ColdMissInv
<1> QED
  BY <1>1, <1>2

(* A step of a flight's thread moves the thread, its outcome, its token and *)
(* who holds the helper; when those stay in their types, everything does.  *)
ThreadTyped ==
    /\ worker \in [Flight -> {"none", "starting", "attaching", "reading", "reclaiming", "judging",
                              "waiting", "claiming", "publishing", "finishing", "gone"}]
    /\ outcome \in [Flight -> Outcome \cup {"running"}]
    /\ token \in [Flight -> {"running", "cancelled", "committing"}]
    /\ handle \in [Flight -> {"none", "thread", "token"}]
    /\ helper \in [Flight -> {"none", "running", "closed", "exited", "reaped"}]

LEMMA ThreadStepTyped ==
  ASSUME TypeOK, Read, Silent, UNCHANGED output, ThreadTyped'
  PROVE  TypeOK'
BY DEF TypeOK, ThreadTyped, Read, Silent, output, flight, waits

LEMMA SpawnKeeps ==
  ASSUME ColdMissInv, NEW f \in Flight, Spawn(f)
  PROVE  ColdMissInv'
<1> USE DEF Spawn, EndsWith, Moves, Sets, Has, Read, Silent, process, output, reading, flight,
   waits
<1>a. TypeOK /\ ThreadTyped
  BY DEF ColdMissInv, TypeOK, ThreadTyped
<1>b. ThreadTyped'
  BY <1>a DEF ThreadTyped, Outcome
<1>1. TypeOK'
  BY <1>a, <1>b, ThreadStepTyped
<1>2. ASSUME NEW g \in Flight PROVE HelperHeld(g)'
  BY DEF ColdMissInv, TypeOK, HelperHeld, Living
<1>3. ASSUME NEW g \in Flight PROVE ReadingInv(g)'
  BY ClassAssumption DEF ColdMissInv, TypeOK, ReadingInv, FailureKept
<1>4. ASSUME NEW g \in Flight PROVE FlightInv(g)'
  BY DEF ColdMissInv, TypeOK, FlightInv
<1>5. ASSUME NEW v \in Waiter PROVE WaiterInv(v)'
  BY DEF ColdMissInv, TypeOK, WaiterInv
<1> QED
  BY <1>1, <1>2, <1>3, <1>4, <1>5 DEF ColdMissInv

LEMMA AttachHelperKeeps ==
  ASSUME ColdMissInv, NEW f \in Flight, AttachHelper(f)
  PROVE  ColdMissInv'
<1> USE DEF AttachHelper, GiveToken, EndsWith, Moves, Sets, Has, Read, Silent, process, output,
   reading, flight, waits
<1>a. TypeOK /\ ThreadTyped
  BY DEF ColdMissInv, TypeOK, ThreadTyped
<1>b. ThreadTyped'
  BY <1>a DEF ThreadTyped, Outcome
<1>1. TypeOK'
  BY <1>a, <1>b, ThreadStepTyped
<1>2. ASSUME NEW g \in Flight PROVE HelperHeld(g)'
  BY DEF ColdMissInv, TypeOK, HelperHeld, Living
<1>3. ASSUME NEW g \in Flight PROVE ReadingInv(g)'
  BY ClassAssumption DEF ColdMissInv, TypeOK, ReadingInv, FailureKept
<1>4. ASSUME NEW g \in Flight PROVE FlightInv(g)'
  BY DEF ColdMissInv, TypeOK, FlightInv
<1>5. ASSUME NEW v \in Waiter PROVE WaiterInv(v)'
  BY DEF ColdMissInv, TypeOK, WaiterInv
<1> QED
  BY <1>1, <1>2, <1>3, <1>4, <1>5 DEF ColdMissInv

LEMMA ReadLineKeeps ==
  ASSUME ColdMissInv, NEW f \in Flight, ReadLine(f)
  PROVE  ColdMissInv'
<1> USE DEF ReadLine, Moves, Notify, Notified, process, output, reading, flight, waits
<1>a. count[f] + 1 <= lines /\ lines <= MaxLines
  BY DEF ColdMissInv, TypeOK, FlightInv
<1>1. TypeOK'
  BY SMTT(60), <1>a, BoundsAssumption DEF ColdMissInv, TypeOK
<1>2. ASSUME NEW g \in Flight PROVE HelperHeld(g)'
  BY DEF ColdMissInv, TypeOK, HelperHeld, Living
<1>3. ASSUME NEW g \in Flight PROVE ReadingInv(g)'
  <2>1. CASE g # f
    BY <2>1 DEF ColdMissInv, TypeOK, ReadingInv, FailureKept
  <2>2. CASE g = f
    <3>1. FailureKept(f) /\ ~ broken[f] /\ first[f] \in Class \cup {None}
      BY DEF ColdMissInv, TypeOK, ReadingInv
    <3>0. broken'[f] <=> pipe[f] = "bad"
      BY ZenonT(60) DEF ColdMissInv, TypeOK
    <3>2. CASE pipe[f] = "bad"
      BY <2>2, <3>0, <3>2 DEF ColdMissInv, TypeOK, ReadingInv
    <3>3. CASE pipe[f] # "bad"
      <4>1. worker'[f] = "reading" /\ ~ broken'[f] /\ pipe'[f] = None /\ first'[f] = first[f]
        BY <3>0, <3>3 DEF ColdMissInv, TypeOK
      <4>2. failure'[f] = first[f]
        BY <3>1, ClassAssumption DEF ColdMissInv, TypeOK, FailureKept
      <4> QED
        BY <2>2, <4>1, <4>2, ClassAssumption DEF ReadingInv, FailureKept
    <3> QED
      BY <3>2, <3>3
  <2> QED
    BY <2>1, <2>2
<1>4. ASSUME NEW g \in Flight PROVE FlightInv(g)'
  BY DEF ColdMissInv, TypeOK, FlightInv
<1>5. ASSUME NEW v \in Waiter PROVE WaiterInv(v)'
  <2>1. completion[f] = "running" /\ count[f] \in Nat
    BY <1>a DEF ColdMissInv, TypeOK, FlightInv
  <2> QED
    BY <2>1, <1>a DEF ColdMissInv, TypeOK, WaiterInv
<1> QED
  BY <1>1, <1>2, <1>3, <1>4, <1>5 DEF ColdMissInv

LEMMA ReadEndKeeps ==
  ASSUME ColdMissInv, NEW f \in Flight, ReadEnd(f)
  PROVE  ColdMissInv'
<1> USE DEF ReadEnd, Moves, Read, Silent, process, output, reading, flight, waits
<1>1. TypeOK'
  BY DEF ColdMissInv, TypeOK
<1>2. ASSUME NEW g \in Flight PROVE HelperHeld(g)'
  BY DEF ColdMissInv, TypeOK, HelperHeld, Living
<1>3. ASSUME NEW g \in Flight PROVE ReadingInv(g)'
  BY ClassAssumption DEF ColdMissInv, TypeOK, ReadingInv, FailureKept
<1>4. ASSUME NEW g \in Flight PROVE FlightInv(g)'
  BY DEF ColdMissInv, TypeOK, FlightInv
<1>5. ASSUME NEW v \in Waiter PROVE WaiterInv(v)'
  BY DEF ColdMissInv, TypeOK, WaiterInv
<1> QED
  BY <1>1, <1>2, <1>3, <1>4, <1>5 DEF ColdMissInv

LEMMA ReclaimKeeps ==
  ASSUME ColdMissInv, NEW f \in Flight, Reclaim(f)
  PROVE  ColdMissInv'
<1> USE DEF Reclaim, EndsWith, Moves, Sets, Has, Read, Silent, process, output, reading, flight,
   waits
<1>a. TypeOK /\ ThreadTyped
  BY DEF ColdMissInv, TypeOK, ThreadTyped
<1>b. ThreadTyped'
  BY <1>a DEF ThreadTyped, Outcome
<1>1. TypeOK'
  BY <1>a, <1>b, ThreadStepTyped
<1>2. ASSUME NEW g \in Flight PROVE HelperHeld(g)'
  BY DEF ColdMissInv, TypeOK, HelperHeld, Living
<1>3. ASSUME NEW g \in Flight PROVE ReadingInv(g)'
  BY ClassAssumption DEF ColdMissInv, TypeOK, ReadingInv, FailureKept
<1>4. ASSUME NEW g \in Flight PROVE FlightInv(g)'
  BY DEF ColdMissInv, TypeOK, FlightInv
<1>5. ASSUME NEW v \in Waiter PROVE WaiterInv(v)'
  BY DEF ColdMissInv, TypeOK, WaiterInv
<1> QED
  BY <1>1, <1>2, <1>3, <1>4, <1>5 DEF ColdMissInv

LEMMA JudgeKeeps ==
  ASSUME ColdMissInv, NEW f \in Flight, Judge(f)
  PROVE  ColdMissInv'
<1> USE DEF Judge, Stopped, EndsWith, Moves, Sets, Has, Read, Silent, process, output, reading,
   flight, waits
<1>a. TypeOK /\ ThreadTyped
  BY DEF ColdMissInv, TypeOK, ThreadTyped
<1>b. ThreadTyped'
  BY <1>a DEF ThreadTyped, Outcome
<1>1. TypeOK'
  BY <1>a, <1>b, ThreadStepTyped
<1>2. ASSUME NEW g \in Flight PROVE HelperHeld(g)'
  BY DEF ColdMissInv, TypeOK, HelperHeld, Living
<1>3. ASSUME NEW g \in Flight PROVE ReadingInv(g)'
  BY ClassAssumption DEF ColdMissInv, TypeOK, ReadingInv, FailureKept
<1>4. ASSUME NEW g \in Flight PROVE FlightInv(g)'
  BY DEF ColdMissInv, TypeOK, FlightInv
<1>5. ASSUME NEW v \in Waiter PROVE WaiterInv(v)'
  BY DEF ColdMissInv, TypeOK, WaiterInv
<1> QED
  BY <1>1, <1>2, <1>3, <1>4, <1>5 DEF ColdMissInv

LEMMA WaitKeeps ==
  ASSUME ColdMissInv, NEW f \in Flight, Wait(f)
  PROVE  ColdMissInv'
<1> USE DEF Wait, Judgement, EndsWith, Moves, Sets, Has, Read, Silent, process, output, reading,
   flight, waits
<1>a. TypeOK /\ ThreadTyped
  BY DEF ColdMissInv, TypeOK, ThreadTyped
<1>b. ThreadTyped'
  BY <1>a DEF ThreadTyped, Outcome, TypeOK, Status
<1>1. TypeOK'
  BY <1>a, <1>b, ThreadStepTyped
<1>2. ASSUME NEW g \in Flight PROVE HelperHeld(g)'
  BY DEF ColdMissInv, TypeOK, HelperHeld, Living
<1>3. ASSUME NEW g \in Flight PROVE ReadingInv(g)'
  <2>1. CASE g # f
    BY <2>1 DEF ColdMissInv, TypeOK, ReadingInv, FailureKept
  <2>2. CASE g = f
    <3>1. failure[f] = first[f] /\ first[f] \in Class \cup {None} /\ status[f] \in Status
      BY DEF ColdMissInv, TypeOK, ReadingInv
    <3>2. first[f] = None => Judgement(f) \in {"exit_failure", "fetched", "invalid_output"}
      BY <3>1 DEF Status
    <3>3. first[f] # None => Judgement(f) = first[f] /\ first[f] \notin {"fetched", "running"}
      BY <3>1, ClassAssumption
    <3>4. first' = first
      OBVIOUS
    <3> HIDE DEF Judgement
    <3>5. CASE worker' = [worker EXCEPT ![f] = "claiming"] /\ Judgement(f) = "fetched"
      BY <2>2, <3>3, <3>4, <3>5 DEF ColdMissInv, TypeOK, ReadingInv
    <3>6. CASE /\ worker' = [worker EXCEPT ![f] = "finishing"]
               /\ outcome' = [outcome EXCEPT ![f] = IF Judgement(f) = "fetched"
                                                    THEN "invalid_output" ELSE Judgement(f)]
      BY <2>2, <3>2, <3>3, <3>4, <3>6 DEF ColdMissInv, TypeOK, ReadingInv
    <3> QED
      BY <3>5, <3>6
  <2> QED
    BY <2>1, <2>2
<1>4. ASSUME NEW g \in Flight PROVE FlightInv(g)'
  BY DEF ColdMissInv, TypeOK, FlightInv
<1>5. ASSUME NEW v \in Waiter PROVE WaiterInv(v)'
  BY DEF ColdMissInv, TypeOK, WaiterInv
<1> QED
  BY <1>1, <1>2, <1>3, <1>4, <1>5 DEF ColdMissInv

LEMMA CommitKeeps ==
  ASSUME ColdMissInv, NEW f \in Flight, Commit(f)
  PROVE  ColdMissInv'
<1> USE DEF Commit, EndsWith, Moves, Sets, Has, Read, Silent, process, output, reading, flight,
   waits
<1>a. TypeOK /\ ThreadTyped
  BY DEF ColdMissInv, TypeOK, ThreadTyped
<1>b. ThreadTyped'
  BY <1>a DEF ThreadTyped, Outcome
<1>1. TypeOK'
  BY <1>a, <1>b, ThreadStepTyped
<1>2. ASSUME NEW g \in Flight PROVE HelperHeld(g)'
  BY DEF ColdMissInv, TypeOK, HelperHeld, Living
<1>3. ASSUME NEW g \in Flight PROVE ReadingInv(g)'
  BY ClassAssumption DEF ColdMissInv, TypeOK, ReadingInv, FailureKept
<1>4. ASSUME NEW g \in Flight PROVE FlightInv(g)'
  BY DEF ColdMissInv, TypeOK, FlightInv
<1>5. ASSUME NEW v \in Waiter PROVE WaiterInv(v)'
  BY DEF ColdMissInv, TypeOK, WaiterInv
<1> QED
  BY <1>1, <1>2, <1>3, <1>4, <1>5 DEF ColdMissInv

LEMMA PublishKeeps ==
  ASSUME ColdMissInv, NEW f \in Flight, Publish(f)
  PROVE  ColdMissInv'
<1> USE DEF Publish, EndsWith, Moves, Sets, Has, Read, Silent, process, output, reading, flight,
   waits
<1>1. TypeOK'
  BY DEF ColdMissInv, TypeOK, Outcome
<1>2. ASSUME NEW g \in Flight PROVE HelperHeld(g)'
  BY DEF ColdMissInv, TypeOK, HelperHeld, Living
<1>3. ASSUME NEW g \in Flight PROVE ReadingInv(g)'
  BY ClassAssumption DEF ColdMissInv, TypeOK, ReadingInv, FailureKept
<1>4. ASSUME NEW g \in Flight PROVE FlightInv(g)'
  BY DEF ColdMissInv, TypeOK, FlightInv
<1>5. ASSUME NEW v \in Waiter PROVE WaiterInv(v)'
  BY DEF ColdMissInv, TypeOK, WaiterInv
<1> QED
  BY <1>1, <1>2, <1>3, <1>4, <1>5 DEF ColdMissInv

LEMMA RetireKeeps ==
  ASSUME ColdMissInv, NEW f \in Flight, Retire(f)
  PROVE  ColdMissInv'
<1> USE DEF Retire, Unregistered, Notify, Notified, Moves, process, output, reading, flight, waits
<1>b. outcome[f] \in Outcome /\ outcome[f] \notin {"running", "dropped"}
  BY ClassAssumption DEF ColdMissInv, TypeOK, ReadingInv, Outcome
<1>c. count[f] \in 0..MaxLines /\ worker[f] = "finishing" /\ registered = f
  BY SMTT(60) DEF ColdMissInv, TypeOK, FlightInv
<1>1. TypeOK'
  BY <1>b, BoundsAssumption DEF ColdMissInv, TypeOK, Status
<1>2. ASSUME NEW g \in Flight PROVE HelperHeld(g)'
  BY DEF ColdMissInv, TypeOK, HelperHeld, Living
<1>3. ASSUME NEW g \in Flight PROVE ReadingInv(g)'
  BY ClassAssumption DEF ColdMissInv, TypeOK, ReadingInv, FailureKept
<1>4. ASSUME NEW g \in Flight PROVE FlightInv(g)'
  BY <1>b, <1>c, WaiterAssumption DEF ColdMissInv, TypeOK, FlightInv, Flight
<1>5. ASSUME NEW v \in Waiter PROVE WaiterInv(v)'
  BY <1>b, <1>c, WaiterAssumption DEF ColdMissInv, TypeOK, WaiterInv, FlightInv, Flight
<1> QED
  BY <1>1, <1>2, <1>3, <1>4, <1>5 DEF ColdMissInv

LEMMA CancelKeeps ==
  ASSUME ColdMissInv, NEW f \in Flight, Cancel(f)
  PROVE  ColdMissInv'
<1> USE DEF Cancel, Cancelled, Has, Read, Silent, process, output, reading, flight, waits
<1>1. TypeOK'
  BY DEF ColdMissInv, TypeOK
<1>2. ASSUME NEW g \in Flight PROVE HelperHeld(g)'
  BY DEF ColdMissInv, TypeOK, HelperHeld, Living
<1>3. ASSUME NEW g \in Flight PROVE ReadingInv(g)'
  BY ClassAssumption DEF ColdMissInv, TypeOK, ReadingInv, FailureKept
<1>4. ASSUME NEW g \in Flight PROVE FlightInv(g)'
  BY DEF ColdMissInv, TypeOK, FlightInv
<1>5. ASSUME NEW v \in Waiter PROVE WaiterInv(v)'
  BY DEF ColdMissInv, TypeOK, WaiterInv
<1> QED
  BY <1>1, <1>2, <1>3, <1>4, <1>5 DEF ColdMissInv

LEMMA CloseKeeps ==
  ASSUME ColdMissInv, NEW f \in Flight, Close(f)
  PROVE  ColdMissInv'
<1> USE DEF Close, HelperOnly, Silent, process, output, reading, flight, waits
<1>1. TypeOK'
  BY DEF ColdMissInv, TypeOK
<1>2. ASSUME NEW g \in Flight PROVE HelperHeld(g)'
  BY DEF ColdMissInv, TypeOK, HelperHeld, Living
<1>3. ASSUME NEW g \in Flight PROVE ReadingInv(g)'
  BY ClassAssumption DEF ColdMissInv, TypeOK, ReadingInv, FailureKept
<1>4. ASSUME NEW g \in Flight PROVE FlightInv(g)'
  BY DEF ColdMissInv, TypeOK, FlightInv
<1>5. ASSUME NEW v \in Waiter PROVE WaiterInv(v)'
  BY DEF ColdMissInv, TypeOK, WaiterInv
<1> QED
  BY <1>1, <1>2, <1>3, <1>4, <1>5 DEF ColdMissInv

LEMMA ExitKeeps ==
  ASSUME ColdMissInv, NEW f \in Flight, Exit(f)
  PROVE  ColdMissInv'
<1> USE DEF Exit, HelperOnly, Silent, process, output, reading, flight, waits
<1>1. TypeOK'
  BY DEF ColdMissInv, TypeOK
<1>2. ASSUME NEW g \in Flight PROVE HelperHeld(g)'
  BY DEF ColdMissInv, TypeOK, HelperHeld, Living
<1>3. ASSUME NEW g \in Flight PROVE ReadingInv(g)'
  BY ClassAssumption DEF ColdMissInv, TypeOK, ReadingInv, FailureKept
<1>4. ASSUME NEW g \in Flight PROVE FlightInv(g)'
  BY DEF ColdMissInv, TypeOK, FlightInv
<1>5. ASSUME NEW v \in Waiter PROVE WaiterInv(v)'
  BY DEF ColdMissInv, TypeOK, WaiterInv
<1> QED
  BY <1>1, <1>2, <1>3, <1>4, <1>5 DEF ColdMissInv

LEMMA WriteKeeps ==
  ASSUME ColdMissInv, NEW f \in Flight, NEW l \in Line, Write(f, l)
  PROVE  ColdMissInv'
<1> USE DEF Write, HelperOnly, Silent, process, output, reading, flight, waits
<1>1. TypeOK'
  BY BoundsAssumption DEF ColdMissInv, TypeOK
<1>2. ASSUME NEW g \in Flight PROVE HelperHeld(g)'
  BY DEF ColdMissInv, TypeOK, HelperHeld, Living
<1>3. ASSUME NEW g \in Flight PROVE ReadingInv(g)'
  BY ClassAssumption DEF ColdMissInv, TypeOK, HelperHeld, ReadingInv, FailureKept
<1>4. ASSUME NEW g \in Flight PROVE FlightInv(g)'
  BY DEF ColdMissInv, TypeOK, FlightInv
<1>5. ASSUME NEW v \in Waiter PROVE WaiterInv(v)'
  BY DEF ColdMissInv, TypeOK, WaiterInv
<1> QED
  BY <1>1, <1>2, <1>3, <1>4, <1>5 DEF ColdMissInv

-----------------------------------------------------------------------------
(* Every step keeps the invariant, whoever takes it.                       *)
LEMMA NextKeeps ==
  ASSUME ColdMissInv, [Next]_vars
  PROVE  ColdMissInv'
<1>1. ASSUME NEW w \in Waiter, Join(w) \/ Waits(w) \/ AskAgain(w)
      PROVE  ColdMissInv'
  BY <1>1, JoinKeeps, AttachKeeps, ScanKeeps, ObserveKeeps, DeadlineKeeps, AskAgainKeeps DEF Waits
<1>2. ASSUME NEW f \in Flight, Works(f)
      PROVE  ColdMissInv'
  BY <1>2, SpawnKeeps, AttachHelperKeeps, ReadLineKeeps, ReadEndKeeps, ReclaimKeeps, JudgeKeeps,
     WaitKeeps, CommitKeeps, PublishKeeps, RetireKeeps DEF Works
<1>3. ASSUME NEW f \in Flight, Cancel(f) \/ Close(f) \/ Exit(f)
      PROVE  ColdMissInv'
  BY <1>3, CancelKeeps, CloseKeeps, ExitKeeps
<1>4. ASSUME NEW f \in Flight, NEW l \in Line, Write(f, l)
      PROVE  ColdMissInv'
  BY <1>4, WriteKeeps
<1>5. CASE UNCHANGED vars
  BY <1>5 DEF vars, process, output, reading, flight, waits, ColdMissInv, TypeOK, HelperHeld,
              ReadingInv, FailureKept, FlightInv, WaiterInv
<1> QED
  BY <1>1, <1>2, <1>3, <1>4, <1>5 DEF Next

(* The strengthened invariant holds in every behaviour of the flights,     *)
(* their threads, their helpers and their waiters.                         *)
THEOREM ColdMissInvariant == Spec => []ColdMissInv
BY InitInv, NextKeeps, PTL DEF Spec

(* What the registry, the flights, the tokens and the waits hold is always *)
(* of its type; no flight counts more events than its helpers wrote.       *)
THEOREM TypeCorrect == Spec => []TypeOK
<1>1. ColdMissInv => TypeOK
  BY DEF ColdMissInv
<1> QED
  BY <1>1, ColdMissInvariant, PTL

(* One acquisition of a key at a time, and the registry names it, however  *)
(* many requests join, time out, come back or cancel.                      *)
THEOREM OneFlightAtATime == Spec => []OneFlight
<1>1. ColdMissInv => OneFlight
  BY WaiterAssumption DEF ColdMissInv, TypeOK, FlightInv, OneFlight, Flight
<1> QED
  BY <1>1, ColdMissInvariant, PTL

(* Who takes a result has taken every event before it, and it is the       *)
(* result of the flight it joined.                                         *)
THEOREM EveryWaiterIsToldTheEnd == Spec => []ToldTheEnd
<1>1. ColdMissInv => ToldTheEnd
  BY DEF ColdMissInv, WaiterInv, ToldTheEnd
<1> QED
  BY <1>1, ColdMissInvariant, PTL

(* A cancellation that races the spawn, the attachment, the reading, the   *)
(* reclaim or the exit never leaves a helper that nobody reaps.            *)
THEOREM NoHelperIsOrphaned == Spec => []NoOrphan
<1>1. ASSUME ColdMissInv, NEW f \in Flight
      PROVE  /\ helper[f] \in {"running", "closed", "exited"} => handle[f] # "none"
             /\ worker[f] \in {"claiming", "finishing", "gone"} => helper[f] \in {"none", "reaped"}
             /\ token[f] = "cancelled" /\ worker[f] = "reading" => helper[f] = "reaped"
  BY <1>1 DEF ColdMissInv, TypeOK, HelperHeld, Living
<1>2. ColdMissInv => NoOrphan
  BY <1>1 DEF NoOrphan
<1> QED
  BY <1>2, ColdMissInvariant, PTL

(* The first failure a helper reports decides what is told, unless it was  *)
(* cancelled or broke the protocol: no exit status, later line or result   *)
(* overrides it.                                                           *)
THEOREM TheReasonIsTold == Spec => []ReasonIsTold
<1>1. ColdMissInv => ReasonIsTold
  BY DEF ColdMissInv, ReadingInv, ReasonIsTold
<1> QED
  BY <1>1, ColdMissInvariant, PTL
=============================================================================
