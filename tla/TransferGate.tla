---------------------------- MODULE TransferGate ----------------------------
(***************************************************************************)
(* The gate every transferring acquisition passes (ADR-0021): at most one  *)
(* transfer per repository, at most Limit of them in all, waiting first-   *)
(* come first-served among the tickets that could run.                     *)
(*                                                                         *)
(* The five fields of the code's GateState are variables of the same       *)
(* names; `permits` holds the TransferPermit values that live on callers'  *)
(* stacks and `cancelled` their cancellation tokens.  A ticket stands for  *)
(* the caller that drew it.  Every critical section of the gate's mutex is *)
(* one action.  The deque of waiting tickets is always increasing, because *)
(* a ticket is drawn and pushed under one lock, so it is kept as a set     *)
(* whose order is the order of its numbers.  A waiter re-checks every      *)
(* 50 ms whether it was notified or not, so notifications are not state.   *)
(***************************************************************************)
EXTENDS Integers, FiniteSets, Sequences

CONSTANTS
    Repository,     \* (repository type, repository id) pairs
    NoRepository,   \* absence of a repository in a map
    Limit,          \* transferring acquisitions across all repositories
    MaxTickets      \* bound on acquisitions, for next_ticket

ASSUME LimitAssumption == Limit \in Nat \ {0}
ASSUME TicketAssumption == MaxTickets \in Nat
ASSUME RepositoryAssumption == NoRepository \notin Repository

VARIABLES
    transferring,   \* repositories that hold a slot
    waiting,        \* tickets in the queue
    granted,        \* tickets promoted whose caller has not seen it yet
    repository_of,  \* the repository of each queued or granted ticket
    next_ticket,
    permits,        \* the repository of each live permit, by its ticket
    cancelled       \* tickets whose cancellation token is set

vars == <<transferring, waiting, granted, repository_of, next_ticket,
          permits, cancelled>>

Ticket == 0 .. MaxTickets - 1
Holding == {t \in Ticket : permits[t] # NoRepository}

Init ==
    /\ transferring = {}
    /\ waiting = {}
    /\ granted = {}
    /\ repository_of = [t \in Ticket |-> NoRepository]
    /\ next_ticket = 0
    /\ permits = [t \in Ticket |-> NoRepository]
    /\ cancelled = {}

-----------------------------------------------------------------------------
(***************************************************************************)
(* `promote` scans the queue oldest first and stops when the slots are     *)
(* used up.  When the scan reaches ticket t, the repositories that hold a  *)
(* slot are those that held one before and those of the older tickets it   *)
(* admitted; t is admitted iff fewer than Limit do and its own does not.   *)
(* This equation determines the admitted set A from the oldest ticket on.  *)
(***************************************************************************)
(* Mutant of BusyAt: the queue is scanned newest first.                    *)
BusyAtNewestFirst(busy, repo, A, t) == busy \cup {repo[u] : u \in {v \in A : v > t}}

BusyAt(busy, repo, A, t) == busy \cup {repo[u] : u \in {v \in A : v < t}}

Admits(busy, queue, repo, A) ==
    \A t \in queue :
        t \in A <=> /\ Cardinality(BusyAt(busy, repo, A, t)) < Limit
                    /\ repo[t] \notin BusyAt(busy, repo, A, t)

BusyAfter(busy, repo, A) == busy \cup {repo[u] : u \in A}

(***************************************************************************)
(* `promote` as the loop it is, which the equation above stands for in the *)
(* actions (PromoteIsTheLoop).  The deque holds the tickets of a set in    *)
(* the order of their numbers; a turn of the loop looks at the ticket at   *)
(* `index` and takes it out, passes it over or, at the end of the queue or *)
(* of the slots, leaves everything as it is.  No run has more turns than   *)
(* the deque has tickets, since each takes one out or advances the index.  *)
(***************************************************************************)
Deque(S) ==
    CHOOSE d \in [1 .. Cardinality(S) -> S] :
        \A i, j \in DOMAIN d : i < j => d[i] < d[j]

Without(d, i) == SubSeq(d, 1, i - 1) \o SubSeq(d, i + 1, Len(d))

Loop(index, deque, busy, admitted) ==
    [index |-> index, waiting |-> deque, transferring |-> busy, granted |-> admitted]

(* Mutant of Turn: the index moves on past the ticket that was taken out.  *)
TurnSkips(s, repo) ==
    IF s.index > Len(s.waiting) \/ Cardinality(s.transferring) >= Limit
    THEN s
    ELSE LET t    == s.waiting[s.index]
             rest == Without(s.waiting, s.index)
         IN  CASE repo[t] = NoRepository ->
                    Loop(s.index, rest, s.transferring, s.granted)
               [] repo[t] \in s.transferring ->
                    Loop(s.index + 1, s.waiting, s.transferring, s.granted)
               [] OTHER ->
                    Loop(s.index + 1, rest, s.transferring \cup {repo[t]}, s.granted \cup {t})

Turn(s, repo) ==
    IF s.index > Len(s.waiting) \/ Cardinality(s.transferring) >= Limit
    THEN s
    ELSE LET t    == s.waiting[s.index]
             rest == Without(s.waiting, s.index)
         IN  CASE repo[t] = NoRepository ->
                    Loop(s.index, rest, s.transferring, s.granted)
               [] repo[t] \in s.transferring ->
                    Loop(s.index + 1, s.waiting, s.transferring, s.granted)
               [] OTHER ->
                    Loop(s.index, rest, s.transferring \cup {repo[t]}, s.granted \cup {t})

Promotion(busy, queue, repo) ==
    LET turn[n \in 0 .. MaxTickets] ==
            IF n = 0 THEN Loop(1, Deque(queue), busy, {}) ELSE Turn(turn[n - 1], repo)
    IN  turn[MaxTickets]

(* acquire, up to its first wait: draw a ticket, queue it, promote.  A     *)
(* caller that is admitted at once takes its permit in the same critical   *)
(* section, even if its token is already set; otherwise it waits.          *)
Enter(r, isCancelled) ==
    LET t     == next_ticket
        queue == waiting \cup {t}
        repo  == [repository_of EXCEPT ![t] = r]
    IN  /\ t < MaxTickets
        /\ next_ticket' = t + 1
        /\ cancelled' = IF isCancelled THEN cancelled \cup {t} ELSE cancelled
        /\ \E A \in SUBSET queue :
            /\ Admits(transferring, queue, repo, A)
            /\ isCancelled => t \in A
            /\ transferring' = BusyAfter(transferring, repo, A)
            /\ waiting' = queue \ A
            /\ granted' = (granted \cup A) \ {t}
            /\ permits' = IF t \in A THEN [permits EXCEPT ![t] = r] ELSE permits
            /\ repository_of' = IF t \in A THEN repository_of ELSE repo

(* acquire by a caller whose token is already set and that is not admitted *)
(* at once: it leaves the queue and promotes again before it returns.      *)
EnterCancelled(r) ==
    LET t     == next_ticket
        queue == waiting \cup {t}
        repo  == [repository_of EXCEPT ![t] = r]
    IN  /\ t < MaxTickets
        /\ next_ticket' = t + 1
        /\ cancelled' = cancelled \cup {t}
        /\ \E A \in SUBSET queue, B \in SUBSET waiting :
            /\ Admits(transferring, queue, repo, A)
            /\ t \notin A
            /\ LET busy == BusyAfter(transferring, repo, A)
               IN  /\ Admits(busy, waiting \ A, repo, B)
                   /\ B \subseteq waiting \ A
                   /\ transferring' = BusyAfter(busy, repo, B)
            /\ waiting' = (waiting \ A) \ B
            /\ granted' = granted \cup A \cup B
        /\ UNCHANGED <<repository_of, permits>>

(* Mutant of TakePermit: a set token is looked at before the grant, and    *)
(* the caller leaves without the permit it was granted.                    *)
TakePermitUnlessCancelled(t) ==
    /\ t \in granted
    /\ granted' = granted \ {t}
    /\ permits' = IF t \in cancelled THEN permits
                  ELSE [permits EXCEPT ![t] = repository_of[t]]
    /\ repository_of' = [repository_of EXCEPT ![t] = NoRepository]
    /\ UNCHANGED <<transferring, waiting, next_ticket, cancelled>>

(* A waiter wakes and finds its ticket granted: that is looked at before   *)
(* the token, so a granted caller always leaves with a permit.             *)
TakePermit(t) ==
    /\ t \in granted
    /\ granted' = granted \ {t}
    /\ permits' = [permits EXCEPT ![t] = repository_of[t]]
    /\ repository_of' = [repository_of EXCEPT ![t] = NoRepository]
    /\ UNCHANGED <<transferring, waiting, next_ticket, cancelled>>

(* Mutant of LeaveCancelled: the ticket is forgotten but stays queued.     *)
LeaveQueued(t) ==
    /\ t \in waiting
    /\ t \in cancelled
    /\ repository_of' = [repository_of EXCEPT ![t] = NoRepository]
    /\ UNCHANGED <<transferring, waiting, granted, next_ticket, permits, cancelled>>

(* A waiter that is not granted finds its token set: it leaves the queue,  *)
(* promotes in case it was in the way, and returns Cancelled.              *)
LeaveCancelled(t) ==
    /\ t \in waiting
    /\ t \in cancelled
    /\ \E A \in SUBSET (waiting \ {t}) :
        /\ Admits(transferring, waiting \ {t}, repository_of, A)
        /\ transferring' = BusyAfter(transferring, repository_of, A)
        /\ waiting' = (waiting \ {t}) \ A
        /\ granted' = granted \cup A
    /\ repository_of' = [repository_of EXCEPT ![t] = NoRepository]
    /\ UNCHANGED <<next_ticket, permits, cancelled>>

(* Mutant of Release: the slot is freed and nobody is promoted.            *)
ReleaseOnly(t) ==
    /\ t \in Holding
    /\ transferring' = transferring \ {permits[t]}
    /\ permits' = [permits EXCEPT ![t] = NoRepository]
    /\ UNCHANGED <<waiting, granted, repository_of, next_ticket, cancelled>>

(* Dropping the permit, however the acquisition ended.                     *)
Release(t) ==
    /\ t \in Holding
    /\ LET free == transferring \ {permits[t]}
       IN  \E A \in SUBSET waiting :
            /\ Admits(free, waiting, repository_of, A)
            /\ transferring' = BusyAfter(free, repository_of, A)
            /\ waiting' = waiting \ A
            /\ granted' = granted \cup A
    /\ permits' = [permits EXCEPT ![t] = NoRepository]
    /\ UNCHANGED <<repository_of, next_ticket, cancelled>>

(* A cancellation of a live acquisition; the gate is not told.             *)
Cancel(t) ==
    /\ t \in (waiting \cup granted \cup Holding) \ cancelled
    /\ cancelled' = cancelled \cup {t}
    /\ UNCHANGED <<transferring, waiting, granted, repository_of,
                   next_ticket, permits>>

Next ==
    \/ \E r \in Repository, c \in BOOLEAN : Enter(r, c)
    \/ \E r \in Repository : EnterCancelled(r)
    \/ \E t \in Ticket :
        TakePermit(t) \/ LeaveCancelled(t) \/ Release(t) \/ Cancel(t)

Spec == Init /\ [][Next]_vars

(* A waiter polls, so it takes a grant or a cancellation it has; a         *)
(* transfer ends, because the helper process exits or is killed.           *)
Fairness ==
    \A t \in Ticket : /\ WF_vars(TakePermit(t))
                      /\ WF_vars(LeaveCancelled(t))
                      /\ WF_vars(Release(t))

FairSpec == Spec /\ Fairness

-----------------------------------------------------------------------------
TypeOK ==
    /\ transferring \subseteq Repository
    /\ waiting \subseteq Ticket
    /\ granted \subseteq Ticket
    /\ repository_of \in [Ticket -> Repository \cup {NoRepository}]
    /\ next_ticket \in 0 .. MaxTickets
    /\ permits \in [Ticket -> Repository \cup {NoRepository}]
    /\ cancelled \subseteq Ticket

(* The slot a ticket accounts for: its permit's, or its grant's.           *)
SlotOf(t) == IF t \in granted THEN repository_of[t] ELSE permits[t]
SlotHolders == granted \cup Holding

(* No slot leaks and none is held twice: the repositories marked as        *)
(* transferring are exactly those of the callers that hold or are owed a   *)
(* permit, one caller each, however grants, cancellations and drops cross. *)
SlotsAccounted ==
    /\ transferring = {SlotOf(t) : t \in SlotHolders}
    /\ \A t, u \in SlotHolders : SlotOf(t) = SlotOf(u) => t = u

(* At most Limit callers transfer at once (ADR-0021 decision 5).  The gate *)
(* bounds the size of `transferring`; this bounds the callers.             *)
LimitRespected ==
    Cardinality(SlotHolders) <= Limit

(* Nobody waits for nothing: while a ticket waits, either every slot is    *)
(* taken or its own repository is transferring.  Each path that frees a    *)
(* slot or leaves the queue must promote for this to hold.                 *)
NoStrandedWaiter ==
    \A t \in waiting : \/ Cardinality(transferring) = Limit
                       \/ repository_of[t] \in transferring

(* The equation that defines a promotion has exactly one solution, what    *)
(* the code's loop admits, and the loop leaves the slots and the queue as  *)
(* the actions do: from any slots in use, not only those of a settled      *)
(* state, and for every queue reached.  Its branch for a ticket without    *)
(* repository is never taken, or that ticket would be missing.             *)
PromoteIsTheLoop ==
    \A busy \in SUBSET Repository :
        IsFiniteSet(busy) =>
            LET end == Promotion(busy, waiting, repository_of)
            IN  /\ \A A \in SUBSET waiting :
                      Admits(busy, waiting, repository_of, A) <=> A = end.granted
                /\ end.transferring = BusyAfter(busy, repository_of, end.granted)
                /\ end.waiting = Deque(waiting \ end.granted)

(* First come, first served among the tickets that could run: a ticket is  *)
(* admitted past an older one only if that one's repository already holds  *)
(* a slot, so never past an older ticket of its own repository.            *)
NoOvertaking ==
    [][\A t \in SlotHolders' \ SlotHolders : \A u \in waiting' : u < t =>
          /\ repository_of'[u] \in transferring'
          /\ repository_of'[u] # SlotOf(t)']_vars

(* Every caller that waits stops waiting, and one that is granted a slot   *)
(* picks it up: head-of-line blocking is bounded by the transfers ahead.   *)
EveryWaitEnds ==
    \A t \in Ticket : t \in waiting \cup granted ~> t \notin waiting \cup granted
=============================================================================
