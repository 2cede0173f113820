------------------------- MODULE TransferGate_proofs -------------------------
(***************************************************************************)
(* Proofs about the transfer gate, for any repositories, limit and number  *)
(* of acquisitions.  One lemma says what a promotion does to the slots;    *)
(* every action of the gate is that lemma around a small change of who     *)
(* holds what.                                                             *)
(***************************************************************************)
EXTENDS TransferGate, FiniteSetTheorems, SequenceTheorems, WellFoundedInduction, TLAPS

(* A nonempty set of tickets has a newest one.                             *)
LEMMA NewestTicket ==
    ASSUME NEW S \in SUBSET Ticket, S # {}
    PROVE  \E m \in S : \A t \in S : t <= m
<1> DEFINE Less == OpToRel(<, Nat)
           Mirror == {n \in Nat : \E t \in S : n = MaxTickets - t}
<1>1. Mirror \subseteq Nat /\ Mirror # {}
  <2>1. PICK t \in S : TRUE
    OBVIOUS
  <2>2. MaxTickets - t \in Mirror
    BY TicketAssumption DEF Ticket
  <2> QED BY <2>2
<1>2. PICK n \in Mirror : \A k \in Mirror : <<k, n>> \notin Less
  BY <1>1, NatLessThanWellFounded, WFMin
<1>3. \A k \in Mirror : ~(k < n)
  BY <1>1, <1>2 DEF OpToRel
<1>4. PICK m \in S : n = MaxTickets - m
  BY <1>2
<1>5. ASSUME NEW t \in S PROVE t <= m
  BY <1>3, <1>4, <1>5, TicketAssumption DEF Ticket
<1> QED BY <1>4, <1>5

(* The repositories of a finite set of tickets are finitely many.          *)
LEMMA FiniteRepositories ==
    ASSUME NEW S, IsFiniteSet(S), NEW repo
    PROVE  IsFiniteSet({repo[t] : t \in S})
<1> DEFINE T == {repo[t] : t \in S}
           f == [t \in S |-> repo[t]]
<1>1. f \in Surjection(S, T)
  BY DEF Surjection
<1> QED BY <1>1, FS_Surjection

LEMMA TicketsFinite == ASSUME NEW S \in SUBSET Ticket PROVE IsFiniteSet(S)
<1>1. IsFiniteSet(Ticket)
  BY FS_Interval, TicketAssumption DEF Ticket
<1> QED BY <1>1, FS_Subset

(* One more repository is at most one more slot.                           *)
LEMMA OneMore ==
    ASSUME NEW B, IsFiniteSet(B), NEW x
    PROVE  Cardinality(B \cup {x}) <= Cardinality(B) + 1
<1>1. Cardinality(B) \in Nat
  BY FS_CardinalityType
<1>2. CASE x \in B
  <2>1. B \cup {x} = B
    BY <1>2
  <2>2. Cardinality(B \cup {x}) = Cardinality(B)
    BY <2>1, Zenon
  <2> QED BY <1>1, <2>2
<1>3. CASE x \notin B
  <2>1. Cardinality(B \cup {x}) = Cardinality(B) + 1
    BY <1>3, FS_AddElement
  <2> QED BY <1>1, <2>1
<1> QED BY <1>2, <1>3

(* The admitted tickets have repositories of their own that held no slot.  *)
LEMMA AdmittedApart ==
    ASSUME NEW busy, NEW queue \in SUBSET Ticket, NEW repo,
           NEW A \in SUBSET queue, Admits(busy, queue, repo, A)
    PROVE  /\ \A t \in A : repo[t] \notin busy
           /\ \A t, u \in A : repo[t] = repo[u] => t = u
<1>1. \A t \in A : repo[t] \notin busy
  BY DEF Admits, BusyAt
<1>2. ASSUME NEW t \in A, NEW u \in A, repo[t] = repo[u] PROVE t = u
  <2>1. ~(t < u) /\ ~(u < t)
    BY <1>2 DEF Admits, BusyAt
  <2> QED BY <2>1, TicketAssumption DEF Ticket
<1> QED BY <1>1, <1>2

(* What a promotion does, whatever the slots in use and the queue: the     *)
(* limit is kept, and a ticket left waiting could not have been admitted.  *)
LEMMA PromoteSound ==
    ASSUME NEW busy, IsFiniteSet(busy), Cardinality(busy) <= Limit,
           NEW queue \in SUBSET Ticket, NEW repo,
           NEW A \in SUBSET queue, Admits(busy, queue, repo, A)
    PROVE  /\ IsFiniteSet(BusyAfter(busy, repo, A))
           /\ Cardinality(BusyAfter(busy, repo, A)) <= Limit
           /\ \A t \in queue \ A :
                \/ Cardinality(BusyAfter(busy, repo, A)) = Limit
                \/ repo[t] \in BusyAfter(busy, repo, A)
<1>1. \A S \in SUBSET Ticket : IsFiniteSet(busy \cup {repo[u] : u \in S})
  <2> TAKE S \in SUBSET Ticket
  <2>1. IsFiniteSet(S)
    BY TicketsFinite
  <2>2. IsFiniteSet({repo[u] : u \in S})
    BY <2>1, FiniteRepositories
  <2> QED BY <2>2, FS_Union
<1>2. IsFiniteSet(BusyAfter(busy, repo, A))
  BY <1>1 DEF BusyAfter
<1>3. \A t \in Ticket : /\ IsFiniteSet(BusyAt(busy, repo, A, t))
                        /\ Cardinality(BusyAt(busy, repo, A, t)) \in Nat
  <2>1. \A t \in Ticket : {v \in A : v < t} \in SUBSET Ticket
    OBVIOUS
  <2> QED BY <1>1, <2>1, FS_CardinalityType DEF BusyAt
<1>4. Cardinality(BusyAfter(busy, repo, A)) <= Limit
  <2>1. CASE A = {}
    BY <2>1, FS_CardinalityType DEF BusyAfter
  <2>2. CASE A # {}
    <3>1. PICK m \in A : \A t \in A : t <= m
      BY <2>2, NewestTicket
    <3>2. BusyAfter(busy, repo, A) = BusyAt(busy, repo, A, m) \cup {repo[m]}
      BY <3>1, TicketAssumption DEF BusyAfter, BusyAt, Ticket
    <3>3. Cardinality(BusyAt(busy, repo, A, m)) < Limit
      BY <3>1 DEF Admits
    <3>4. m \in Ticket
      BY <3>1
    <3>5. Cardinality(BusyAfter(busy, repo, A))
            <= Cardinality(BusyAt(busy, repo, A, m)) + 1
      BY <1>3, <3>2, <3>4, OneMore
    <3> QED BY <1>2, <1>3, <3>3, <3>4, <3>5, FS_CardinalityType, LimitAssumption
  <2> QED BY <2>1, <2>2
<1>5. ASSUME NEW t \in queue \ A
      PROVE  \/ Cardinality(BusyAfter(busy, repo, A)) = Limit
             \/ repo[t] \in BusyAfter(busy, repo, A)
  <2>1. BusyAt(busy, repo, A, t) \subseteq BusyAfter(busy, repo, A)
    BY DEF BusyAt, BusyAfter
  <2>2. CASE repo[t] \in BusyAt(busy, repo, A, t)
    BY <2>1, <2>2
  <2>3. CASE Cardinality(BusyAt(busy, repo, A, t)) >= Limit
    <3>1. Cardinality(BusyAt(busy, repo, A, t))
            <= Cardinality(BusyAfter(busy, repo, A))
      BY <1>2, <2>1, FS_Subset
    <3> QED BY <1>2, <1>3, <1>4, <2>3, <3>1, FS_CardinalityType, LimitAssumption
  <2> QED BY <1>3, <2>2, <2>3, LimitAssumption DEF Admits
<1> QED BY <1>2, <1>4, <1>5

-----------------------------------------------------------------------------
(* The inductive invariant.  A ticket is in at most one of the queue, the  *)
(* granted set and the permits; whoever waits or is granted is known by    *)
(* its repository, so promote's branch for a missing one never runs; the   *)
(* slots are within the limit and accounted for.                           *)
TicketsPlaced ==
    /\ waiting \cap granted = {}
    /\ (waiting \cup granted) \cap Holding = {}
    /\ \A t \in waiting \cup granted \cup Holding : t < next_ticket
    /\ \A t \in waiting \cup granted : repository_of[t] \in Repository

SlotsBounded ==
    /\ IsFiniteSet(transferring)
    /\ Cardinality(transferring) <= Limit

GateInv ==
    /\ TypeOK
    /\ TicketsPlaced
    /\ SlotsBounded
    /\ SlotsAccounted
    /\ NoStrandedWaiter

LEMMA InitGateInv == Init => GateInv
<1> SUFFICES ASSUME Init PROVE GateInv
  OBVIOUS
<1>1. TypeOK
  BY TicketAssumption DEF Init, TypeOK
<1>2. Holding = {}
  BY DEF Init, Holding
<1>3. TicketsPlaced /\ SlotsAccounted /\ NoStrandedWaiter
  BY <1>2 DEF Init, TicketsPlaced, SlotsAccounted, SlotHolders, NoStrandedWaiter
<1>4. SlotsBounded
  BY FS_EmptySet, LimitAssumption DEF Init, SlotsBounded
<1> QED BY <1>1, <1>3, <1>4 DEF GateInv

(* How every critical section ends: the slots `busy`, held one each by H,  *)
(* are promoted over `queue`, whose admitted tickets become holders.       *)
LEMMA PromotionStep ==
    ASSUME NEW H, NEW slot, NEW busy, busy = {slot[t] : t \in H},
           \A t, u \in H : slot[t] = slot[u] => t = u,
           IsFiniteSet(busy), Cardinality(busy) <= Limit,
           NEW queue \in SUBSET Ticket, NEW repo,
           NEW A \in SUBSET queue, Admits(busy, queue, repo, A),
           transferring' = BusyAfter(busy, repo, A),
           waiting' = queue \ A,
           SlotHolders' = H \cup A,
           \A t \in H : SlotOf(t)' = slot[t],
           \A t \in A : SlotOf(t)' = repo[t],
           \A t \in queue \ A : repository_of'[t] = repo[t]
    PROVE  SlotsBounded' /\ SlotsAccounted' /\ NoStrandedWaiter'
<1>0. queue \in SUBSET Ticket /\ A \in SUBSET queue /\ Admits(busy, queue, repo, A)
  OBVIOUS
<1>1. /\ \A t \in A : repo[t] \notin busy
      /\ \A t, u \in A : repo[t] = repo[u] => t = u
  BY <1>0, AdmittedApart
<1>2. SlotsBounded'
  BY PromoteSound DEF SlotsBounded
<1>3. NoStrandedWaiter'
  <2>1. \A t \in queue \ A :
          \/ Cardinality(BusyAfter(busy, repo, A)) = Limit
          \/ repo[t] \in BusyAfter(busy, repo, A)
    BY PromoteSound
  <2> QED BY <2>1 DEF NoStrandedWaiter
<1>4. SlotsAccounted'
  <2>1. BusyAfter(busy, repo, A) = {SlotOf(t)' : t \in H \cup A}
    BY DEF BusyAfter
  <2>2. \A t, u \in H \cup A : SlotOf(t)' = SlotOf(u)' => t = u
    BY <1>1
  <2> QED BY <2>1, <2>2 DEF SlotsAccounted
<1> QED BY <1>2, <1>3, <1>4

-----------------------------------------------------------------------------
(* acquire's first critical section keeps the invariant.                   *)
LEMMA EnterKeeps ==
    ASSUME GateInv, NEW r \in Repository, NEW c \in BOOLEAN, Enter(r, c)
    PROVE  GateInv'
<1> DEFINE t == next_ticket
           queue == waiting \cup {t}
           repo == [repository_of EXCEPT ![t] = r]
           slot == [u \in Ticket |-> SlotOf(u)]
<1> USE DEF GateInv
<1>1. /\ t \in Ticket
      /\ t \notin waiting \cup granted \cup Holding
  BY TicketAssumption DEF Enter, TypeOK, TicketsPlaced, Ticket
<1>2. PICK A \in SUBSET queue :
        /\ Admits(transferring, queue, repo, A)
        /\ transferring' = BusyAfter(transferring, repo, A)
        /\ waiting' = queue \ A
        /\ granted' = (granted \cup A) \ {t}
        /\ permits' = IF t \in A THEN [permits EXCEPT ![t] = r] ELSE permits
        /\ repository_of' = IF t \in A THEN repository_of ELSE repo
  BY DEF Enter
<1>3. TypeOK'
  <2>1. transferring' \subseteq Repository
    BY <1>1, <1>2 DEF TypeOK, BusyAfter, TicketsPlaced
  <2>2. next_ticket' \in 0 .. MaxTickets
    BY TicketAssumption DEF Enter, TypeOK
  <2>3. cancelled' \subseteq Ticket
    BY <1>1 DEF Enter, TypeOK
  <2>4. waiting' \subseteq Ticket /\ granted' \subseteq Ticket
    BY <1>1, <1>2 DEF TypeOK
  <2>5. /\ permits' \in [Ticket -> Repository \cup {NoRepository}]
        /\ repository_of' \in [Ticket -> Repository \cup {NoRepository}]
    BY <1>1, <1>2 DEF TypeOK
  <2> QED BY <2>1, <2>2, <2>3, <2>4, <2>5 DEF TypeOK
<1>4. Holding' = Holding \cup (A \cap {t})
  BY <1>1, <1>2, RepositoryAssumption DEF Holding, TypeOK
<1>5. TicketsPlaced'
  <2>1. /\ waiting' \cap granted' = {}
        /\ (waiting' \cup granted') \cap Holding' = {}
    BY <1>1, <1>2, <1>4 DEF TicketsPlaced
  <2>2. \A u \in waiting \cup granted \cup Holding \cup {t} : u < next_ticket'
    BY <1>1, TicketAssumption DEF TicketsPlaced, TypeOK, Enter, Ticket, Holding
  <2>3. \A u \in waiting' \cup granted' \cup Holding' : u < next_ticket'
    BY <1>2, <1>4, <2>2
  <2>4. \A u \in waiting' \cup granted' : repository_of'[u] \in Repository
    BY <1>1, <1>2 DEF TicketsPlaced, TypeOK
  <2> QED BY <2>1, <2>3, <2>4 DEF TicketsPlaced
<1>6. SlotsBounded' /\ SlotsAccounted' /\ NoStrandedWaiter'
  <2>1. SlotHolders' = SlotHolders \cup A
    BY <1>1, <1>2, <1>4 DEF SlotHolders
  <2>2. \A u \in SlotHolders : SlotOf(u)' = slot[u]
    BY <1>1, <1>2, <1>4 DEF SlotHolders, SlotOf, TypeOK, TicketsPlaced, Holding
  <2>3. \A u \in A : SlotOf(u)' = repo[u]
    BY <1>1, <1>2, <1>4 DEF SlotOf, TypeOK, TicketsPlaced, Holding
  <2>4. \A u \in queue \ A : repository_of'[u] = repo[u]
    BY <1>1, <1>2 DEF TypeOK
  <2>5. /\ transferring = {slot[u] : u \in SlotHolders}
        /\ \A u, v \in SlotHolders : slot[u] = slot[v] => u = v
    BY DEF SlotsAccounted, SlotHolders, TypeOK, Holding
  <2>6. queue \in SUBSET Ticket
    BY <1>1 DEF TypeOK
  <2> HIDE DEF slot, repo, queue, t
  <2> QED BY SMTT(60), <1>2, <2>1, <2>2, <2>3, <2>4, <2>5, <2>6, PromotionStep DEF SlotsBounded
<1> QED BY <1>3, <1>5, <1>6

(* Taking up a grant moves the slot from the grant to the permit.          *)
LEMMA TakePermitKeeps ==
    ASSUME GateInv, NEW t \in Ticket, TakePermit(t)
    PROVE  GateInv'
<1> USE DEF GateInv
<1>1. /\ t \in granted /\ t \notin waiting /\ t \notin Holding
      /\ repository_of[t] \in Repository
  BY DEF TakePermit, TicketsPlaced
<1>2. /\ TypeOK' /\ SlotsBounded'
  BY DEF TakePermit, TypeOK, SlotsBounded
<1>3. Holding' = Holding \cup {t}
  BY <1>1, RepositoryAssumption DEF TakePermit, Holding, TypeOK
<1>4. TicketsPlaced'
  <2>1. /\ waiting' \cap granted' = {}
        /\ (waiting' \cup granted') \cap Holding' = {}
        /\ waiting' \cup granted' \cup Holding'
             = waiting \cup granted \cup Holding
    BY <1>1, <1>3 DEF TakePermit, TicketsPlaced
  <2>2. \A u \in waiting' \cup granted' : repository_of'[u] \in Repository
    BY <1>1 DEF TakePermit, TicketsPlaced, TypeOK
  <2> QED BY <2>1, <2>2 DEF TicketsPlaced, TakePermit
<1>5. SlotsAccounted'
  <2>1. SlotHolders' = SlotHolders
    BY <1>1, <1>3 DEF SlotHolders, TakePermit
  <2>2. \A u \in SlotHolders : SlotOf(u)' = SlotOf(u)
    BY <1>1 DEF SlotHolders, SlotOf, TakePermit, TypeOK, Holding
  <2> QED BY <2>1, <2>2 DEF SlotsAccounted, TakePermit
<1>6. NoStrandedWaiter'
  BY <1>1 DEF NoStrandedWaiter, TakePermit, TypeOK
<1> QED BY <1>2, <1>4, <1>5, <1>6

(* A cancelled waiter leaves and promotes the others.                      *)
LEMMA LeaveCancelledKeeps ==
    ASSUME GateInv, NEW t \in Ticket, LeaveCancelled(t)
    PROVE  GateInv'
<1> DEFINE queue == waiting \ {t}
           slot == [u \in Ticket |-> SlotOf(u)]
<1> USE DEF GateInv
<1>1. t \in waiting /\ t \notin granted /\ t \notin Holding
  BY DEF LeaveCancelled, TicketsPlaced
<1>2. PICK A \in SUBSET queue :
        /\ Admits(transferring, queue, repository_of, A)
        /\ transferring' = BusyAfter(transferring, repository_of, A)
        /\ waiting' = queue \ A
        /\ granted' = granted \cup A
  BY DEF LeaveCancelled
<1>3. /\ repository_of' = [repository_of EXCEPT ![t] = NoRepository]
      /\ next_ticket' = next_ticket /\ permits' = permits
      /\ cancelled' = cancelled /\ Holding' = Holding
  BY DEF LeaveCancelled, Holding
<1>4. TypeOK'
  <2>1. transferring' \subseteq Repository
    BY <1>2 DEF TypeOK, BusyAfter, TicketsPlaced
  <2> QED BY <1>2, <1>3, <2>1 DEF TypeOK
<1>5. TicketsPlaced'
  <2>1. /\ waiting' \cap granted' = {}
        /\ (waiting' \cup granted') \cap Holding' = {}
        /\ waiting' \cup granted' \cup Holding'
             \subseteq waiting \cup granted \cup Holding
    BY <1>2, <1>3 DEF TicketsPlaced
  <2>2. \A u \in waiting' \cup granted' : repository_of'[u] \in Repository
    BY <1>1, <1>2, <1>3 DEF TicketsPlaced, TypeOK
  <2> QED BY <1>3, <2>1, <2>2 DEF TicketsPlaced
<1>6. SlotsBounded' /\ SlotsAccounted' /\ NoStrandedWaiter'
  <2>1. SlotHolders' = SlotHolders \cup A
    BY <1>2, <1>3 DEF SlotHolders
  <2>2. \A u \in SlotHolders : SlotOf(u)' = slot[u]
    BY <1>1, <1>2, <1>3 DEF SlotHolders, SlotOf, TypeOK, TicketsPlaced, Holding
  <2>3. \A u \in A : SlotOf(u)' = repository_of[u]
    BY <1>2, <1>3 DEF SlotOf, TypeOK
  <2>4. \A u \in queue \ A : repository_of'[u] = repository_of[u]
    BY <1>3 DEF TypeOK
  <2>5. /\ transferring = {slot[u] : u \in SlotHolders}
        /\ \A u, v \in SlotHolders : slot[u] = slot[v] => u = v
    BY DEF SlotsAccounted, SlotHolders, TypeOK, Holding
  <2>6. queue \in SUBSET Ticket
    BY DEF TypeOK
  <2> HIDE DEF slot, queue
  <2> QED BY <1>2, <2>1, <2>2, <2>3, <2>4, <2>5, <2>6, PromotionStep DEF SlotsBounded
<1> QED BY <1>4, <1>5, <1>6

(* A dropped permit frees its repository's slot, then promotes.            *)
LEMMA ReleaseKeeps ==
    ASSUME GateInv, NEW t \in Ticket, Release(t)
    PROVE  GateInv'
<1> DEFINE free == transferring \ {permits[t]}
           others == SlotHolders \ {t}
           slot == [u \in Ticket |-> SlotOf(u)]
<1> USE DEF GateInv
<1>1. t \in Holding /\ t \notin waiting /\ t \notin granted
  BY DEF Release, TicketsPlaced
<1>2. PICK A \in SUBSET waiting :
        /\ Admits(free, waiting, repository_of, A)
        /\ transferring' = BusyAfter(free, repository_of, A)
        /\ waiting' = waiting \ A
        /\ granted' = granted \cup A
  BY DEF Release
<1>3. /\ permits' = [permits EXCEPT ![t] = NoRepository]
      /\ repository_of' = repository_of /\ next_ticket' = next_ticket
      /\ cancelled' = cancelled
  BY DEF Release
<1>4. Holding' = Holding \ {t}
  BY <1>3 DEF Holding, TypeOK
<1>5. TypeOK'
  <2>1. transferring' \subseteq Repository
    BY <1>2 DEF TypeOK, BusyAfter, TicketsPlaced
  <2> QED BY <1>2, <1>3, <2>1 DEF TypeOK
<1>6. TicketsPlaced'
  <2>1. /\ waiting' \cap granted' = {}
        /\ (waiting' \cup granted') \cap Holding' = {}
        /\ waiting' \cup granted' \cup Holding'
             \subseteq waiting \cup granted \cup Holding
    BY <1>2, <1>4 DEF TicketsPlaced
  <2>2. \A u \in waiting' \cup granted' : repository_of'[u] \in Repository
    BY <1>2, <1>3 DEF TicketsPlaced
  <2> QED BY <1>3, <2>1, <2>2 DEF TicketsPlaced
<1>7. SlotsBounded' /\ SlotsAccounted' /\ NoStrandedWaiter'
  <2>1. SlotHolders' = others \cup A
    BY <1>1, <1>2, <1>4 DEF SlotHolders, TicketsPlaced
  <2>2. \A u \in others : SlotOf(u)' = slot[u]
    BY <1>1, <1>2, <1>3, <1>4 DEF SlotHolders, SlotOf, TypeOK, TicketsPlaced, Holding
  <2>3. \A u \in A : SlotOf(u)' = repository_of[u]
    BY <1>2, <1>3 DEF SlotOf, TypeOK
  <2>4. \A u \in waiting \ A : repository_of'[u] = repository_of[u]
    BY <1>3
  <2>5. /\ free = {slot[u] : u \in others}
        /\ \A u, v \in others : slot[u] = slot[v] => u = v
    <3>1. /\ transferring = {slot[u] : u \in SlotHolders}
          /\ \A u, v \in SlotHolders : slot[u] = slot[v] => u = v
      BY DEF SlotsAccounted, SlotHolders, TypeOK, Holding
    <3>2. t \in SlotHolders /\ slot[t] = permits[t]
      BY <1>1 DEF SlotHolders, SlotOf, Holding
    <3> HIDE DEF slot
    <3> QED BY <3>1, <3>2
  <2>6. IsFiniteSet(free) /\ Cardinality(free) <= Limit
    <3>1. free \in SUBSET transferring
      OBVIOUS
    <3>2. IsFiniteSet(free) /\ Cardinality(free) <= Cardinality(transferring)
      BY <3>1, FS_Subset DEF SlotsBounded
    <3> QED BY <3>2, FS_CardinalityType, LimitAssumption DEF SlotsBounded
  <2>7. waiting \in SUBSET Ticket
    BY DEF TypeOK
  <2> HIDE DEF slot, free, others
  <2> QED BY SMTT(60), <1>2, <2>1, <2>2, <2>3, <2>4, <2>5, <2>6, <2>7, PromotionStep
<1> QED BY <1>5, <1>6, <1>7

(* An acquisition whose token is set before it asks: the first promotion   *)
(* admits the tickets A, its departure admits B.                           *)
LEMMA EnterCancelledKeeps ==
    ASSUME GateInv, NEW r \in Repository, EnterCancelled(r)
    PROVE  GateInv'
<1> DEFINE t == next_ticket
           queue == waiting \cup {t}
           repo == [repository_of EXCEPT ![t] = r]
           slot == [u \in Ticket |-> SlotOf(u)]
<1> USE DEF GateInv
<1>1. /\ t \in Ticket
      /\ t \notin waiting \cup granted \cup Holding
  BY TicketAssumption DEF EnterCancelled, TypeOK, TicketsPlaced, Ticket
<1>2. PICK A \in SUBSET queue, B \in SUBSET waiting :
        /\ Admits(transferring, queue, repo, A)
        /\ t \notin A
        /\ Admits(BusyAfter(transferring, repo, A), waiting \ A, repo, B)
        /\ B \in SUBSET (waiting \ A)
        /\ transferring' = BusyAfter(BusyAfter(transferring, repo, A), repo, B)
        /\ waiting' = (waiting \ A) \ B
        /\ granted' = granted \cup A \cup B
  BY DEF EnterCancelled
<1>3. /\ permits' = permits /\ repository_of' = repository_of
      /\ Holding' = Holding
  BY DEF EnterCancelled, Holding
<1>4. \A u \in waiting : repo[u] = repository_of[u]
  BY <1>1 DEF TypeOK
<1>5. TypeOK'
  <2>1. transferring' \subseteq Repository
    BY <1>2, <1>4 DEF TypeOK, BusyAfter, TicketsPlaced
  <2>2. next_ticket' \in 0 .. MaxTickets
    BY TicketAssumption DEF EnterCancelled, TypeOK
  <2>3. cancelled' \subseteq Ticket
    BY <1>1 DEF EnterCancelled, TypeOK
  <2> QED BY <1>2, <1>3, <2>1, <2>2, <2>3 DEF TypeOK
<1>6. TicketsPlaced'
  <2>1. /\ waiting' \cap granted' = {}
        /\ (waiting' \cup granted') \cap Holding' = {}
        /\ waiting' \cup granted' \cup Holding'
             \subseteq waiting \cup granted \cup Holding
    BY <1>2, <1>3 DEF TicketsPlaced
  <2>2. \A u \in waiting \cup granted \cup Holding : u < next_ticket'
    BY TicketAssumption DEF TicketsPlaced, TypeOK, EnterCancelled, Ticket, Holding
  <2>3. \A u \in waiting' \cup granted' : repository_of'[u] \in Repository
    BY <1>2, <1>3 DEF TicketsPlaced
  <2> QED BY <2>1, <2>2, <2>3 DEF TicketsPlaced
<1>7. SlotsBounded' /\ SlotsAccounted' /\ NoStrandedWaiter'
  <2> DEFINE busy == BusyAfter(transferring, repo, A)
             holders == SlotHolders \cup A
             slot1 == [u \in holders |-> IF u \in A THEN repo[u] ELSE slot[u]]
  <2>1. queue \in SUBSET Ticket /\ waiting \ A \in SUBSET Ticket
    BY <1>1 DEF TypeOK
  <2>2. /\ transferring = {slot[u] : u \in SlotHolders}
        /\ \A u, v \in SlotHolders : slot[u] = slot[v] => u = v
    BY DEF SlotsAccounted, SlotHolders, TypeOK, Holding
  <2>3. IsFiniteSet(busy) /\ Cardinality(busy) <= Limit
    <3> HIDE DEF repo, queue
    <3> QED BY <1>2, <2>1, PromoteSound DEF SlotsBounded
  <2>4. /\ \A u \in A : repo[u] \notin transferring
        /\ \A u, v \in A : repo[u] = repo[v] => u = v
    <3> HIDE DEF repo, queue
    <3> QED BY <1>2, <2>1, AdmittedApart
  <2>5. A \cap SlotHolders = {}
    BY <1>2 DEF SlotHolders, TicketsPlaced
  <2>6. /\ busy = {slot1[u] : u \in holders}
        /\ \A u, v \in holders : slot1[u] = slot1[v] => u = v
    <3> HIDE DEF slot, repo, queue
    <3>1. \A u \in A : slot1[u] = repo[u]
      OBVIOUS
    <3>2. \A u \in SlotHolders : slot1[u] = slot[u]
      BY <2>5
    <3> HIDE DEF slot1
    <3>3. busy = {slot1[u] : u \in holders}
      BY <2>2, <3>1, <3>2 DEF BusyAfter
    <3>4. ASSUME NEW u \in holders, NEW v \in holders, slot1[u] = slot1[v]
          PROVE  u = v
      <4>1. CASE u \in A /\ v \in A
        BY <2>4, <3>1, <3>4, <4>1
      <4>2. CASE u \in SlotHolders /\ v \in SlotHolders
        BY <2>2, <3>2, <3>4, <4>2
      <4>3. CASE u \in A /\ v \in SlotHolders
        BY <2>2, <2>4, <3>1, <3>2, <3>4, <4>3
      <4>4. CASE u \in SlotHolders /\ v \in A
        BY <2>2, <2>4, <3>1, <3>2, <3>4, <4>4
      <4> QED BY <4>1, <4>2, <4>3, <4>4
    <3> QED BY <3>3, <3>4
  <2>7. SlotHolders' = holders \cup B
    BY <1>2, <1>3 DEF SlotHolders
  <2>8. \A u \in holders : SlotOf(u)' = slot1[u]
    BY <1>2, <1>3, <1>4, <2>5
    DEF SlotHolders, SlotOf, TypeOK, TicketsPlaced, Holding
  <2>9. \A u \in B : SlotOf(u)' = repo[u]
    BY <1>2, <1>3, <1>4 DEF SlotOf, TypeOK
  <2>10. \A u \in (waiting \ A) \ B : repository_of'[u] = repo[u]
    BY <1>3, <1>4
  <2> DEFINE rest == waiting \ A
  <2>11. /\ Admits(busy, rest, repo, B)
         /\ B \in SUBSET rest /\ rest \in SUBSET Ticket
         /\ transferring' = BusyAfter(busy, repo, B)
         /\ waiting' = rest \ B
    BY <1>2, <2>1
  <2> HIDE DEF slot, slot1, repo, queue, busy, holders
  <2>12. \A u \in rest \ B : repository_of'[u] = repo[u]
    BY <2>10
  <2> HIDE DEF rest
  <2> QED BY <2>3, <2>6, <2>7, <2>8, <2>9, <2>11, <2>12, PromotionStep
<1> QED BY <1>5, <1>6, <1>7

-----------------------------------------------------------------------------
(* The invariant holds in every reachable state, for every set of          *)
(* repositories, every limit and every number of acquisitions.             *)
THEOREM GateInvariant == Spec => []GateInv
<1>1. GateInv /\ [Next]_vars => GateInv'
  <2> SUFFICES ASSUME GateInv, [Next]_vars PROVE GateInv'
    OBVIOUS
  <2>1. ASSUME NEW r \in Repository, NEW c \in BOOLEAN, Enter(r, c) PROVE GateInv'
    BY <2>1, EnterKeeps
  <2>2. ASSUME NEW r \in Repository, EnterCancelled(r) PROVE GateInv'
    BY <2>2, EnterCancelledKeeps
  <2>3. ASSUME NEW t \in Ticket, TakePermit(t) PROVE GateInv'
    BY <2>3, TakePermitKeeps
  <2>4. ASSUME NEW t \in Ticket, LeaveCancelled(t) PROVE GateInv'
    BY <2>4, LeaveCancelledKeeps
  <2>5. ASSUME NEW t \in Ticket, Release(t) PROVE GateInv'
    BY <2>5, ReleaseKeeps
  <2>6. ASSUME NEW t \in Ticket, Cancel(t) PROVE GateInv'
    BY <2>6 DEF Cancel, GateInv, TypeOK, TicketsPlaced, SlotsBounded,
                SlotsAccounted, NoStrandedWaiter, SlotHolders, SlotOf, Holding
  <2>7. CASE UNCHANGED vars
    BY <2>7 DEF vars, GateInv, TypeOK, TicketsPlaced, SlotsBounded,
                SlotsAccounted, NoStrandedWaiter, SlotHolders, SlotOf, Holding
  <2> QED BY <2>1, <2>2, <2>3, <2>4, <2>5, <2>6, <2>7 DEF Next
<1> QED BY InitGateInv, <1>1, PTL DEF Spec

(* The gate's fields always have the types the code declares.              *)
THEOREM TypeCorrect == Spec => []TypeOK
<1>1. GateInv => TypeOK
  BY DEF GateInv
<1> QED BY <1>1, GateInvariant, PTL

(* No interleaving of arrivals, grants, cancellations and drops leaks a    *)
(* repository's slot or lets two callers hold it.                          *)
THEOREM SlotsNeverLeak == Spec => []SlotsAccounted
<1>1. GateInv => SlotsAccounted
  BY DEF GateInv
<1> QED BY <1>1, GateInvariant, PTL

(* Every path that frees a slot or leaves the queue wakes whoever could    *)
(* run: a waiter is never left behind a free slot of its repository.       *)
THEOREM NobodyIsStranded == Spec => []NoStrandedWaiter
<1>1. GateInv => NoStrandedWaiter
  BY DEF GateInv
<1> QED BY <1>1, GateInvariant, PTL

(* At most Limit callers hold or are owed a permit: the slots are within   *)
(* the limit, and no two callers share one.                                *)
THEOREM LimitHolds == Spec => []LimitRespected
<1>1. GateInv => LimitRespected
  <2> SUFFICES ASSUME GateInv PROVE Cardinality(SlotHolders) <= Limit
    BY DEF LimitRespected
  <2> DEFINE slot == [t \in SlotHolders |-> SlotOf(t)]
  <2>1. slot \in Injection(SlotHolders, transferring)
    BY DEF GateInv, SlotsAccounted, Injection, IsInjective
  <2>2. IsFiniteSet(transferring) /\ Cardinality(transferring) <= Limit
    BY DEF GateInv, SlotsBounded
  <2> HIDE DEF slot
  <2>3. /\ IsFiniteSet(SlotHolders)
        /\ Cardinality(SlotHolders) <= Cardinality(transferring)
    BY <2>1, <2>2, FS_Injection
  <2> QED BY <2>2, <2>3, FS_CardinalityType, LimitAssumption
<1> QED BY <1>1, GateInvariant, PTL

-----------------------------------------------------------------------------
(* A promotion passes over an older ticket only if the older one's         *)
(* repository is busy, and then never for that same repository.            *)
LEMMA PromoteInOrder ==
    ASSUME NEW busy, IsFiniteSet(busy), NEW queue \in SUBSET Ticket, NEW repo,
           NEW A \in SUBSET queue, Admits(busy, queue, repo, A),
           NEW t \in A, NEW u \in queue \ A, u < t
    PROVE  /\ repo[u] \in BusyAfter(busy, repo, A)
           /\ repo[u] # repo[t]
<1>1. BusyAt(busy, repo, A, u) \in SUBSET BusyAt(busy, repo, A, t)
  BY TicketAssumption DEF BusyAt, Ticket
<1>2. /\ IsFiniteSet(BusyAt(busy, repo, A, t))
      /\ Cardinality(BusyAt(busy, repo, A, t)) < Limit
      /\ repo[t] \notin BusyAt(busy, repo, A, t)
  <2>1. {v \in A : v < t} \in SUBSET Ticket
    OBVIOUS
  <2>2. IsFiniteSet({repo[v] : v \in {v \in A : v < t}})
    BY <2>1, TicketsFinite, FiniteRepositories
  <2> QED BY <2>2, FS_Union DEF BusyAt, Admits
<1>3. Cardinality(BusyAt(busy, repo, A, u)) < Limit
  <2>1. /\ IsFiniteSet(BusyAt(busy, repo, A, u))
        /\ Cardinality(BusyAt(busy, repo, A, u))
             <= Cardinality(BusyAt(busy, repo, A, t))
    BY <1>1, <1>2, FS_Subset
  <2> QED BY <1>2, <2>1, FS_CardinalityType, LimitAssumption
<1>4. repo[u] \in BusyAt(busy, repo, A, u)
  BY <1>3 DEF Admits
<1>5. BusyAt(busy, repo, A, t) \subseteq BusyAfter(busy, repo, A)
  BY DEF BusyAt, BusyAfter
<1> QED BY <1>1, <1>2, <1>4, <1>5

(* What a step admits, it admits in order.                                 *)
InOrder ==
    \A t \in SlotHolders' \ SlotHolders : \A u \in waiting' : u < t =>
        /\ repository_of'[u] \in transferring'
        /\ repository_of'[u] # SlotOf(t)'

LEMMA EnterInOrder ==
    ASSUME GateInv, NEW r \in Repository, NEW c \in BOOLEAN, Enter(r, c)
    PROVE  InOrder
<1> DEFINE new == next_ticket
           queue == waiting \cup {new}
           repo == [repository_of EXCEPT ![new] = r]
<1> USE DEF GateInv
<1>1. new \in Ticket /\ new \notin waiting \cup granted \cup Holding
  BY TicketAssumption DEF Enter, TypeOK, TicketsPlaced, Ticket
<1>2. PICK A \in SUBSET queue :
        /\ Admits(transferring, queue, repo, A)
        /\ transferring' = BusyAfter(transferring, repo, A)
        /\ waiting' = queue \ A
        /\ granted' = (granted \cup A) \ {new}
        /\ permits' = IF new \in A THEN [permits EXCEPT ![new] = r] ELSE permits
        /\ repository_of' = IF new \in A THEN repository_of ELSE repo
  BY DEF Enter
<1>3. SlotHolders' \ SlotHolders \subseteq A
  BY <1>1, <1>2 DEF SlotHolders, Holding, TypeOK
<1>4. \A t \in A : SlotOf(t)' = repo[t]
  BY <1>1, <1>2 DEF SlotOf, TypeOK, TicketsPlaced, Holding
<1>5. \A u \in waiting' : repository_of'[u] = repo[u]
  BY <1>1, <1>2 DEF TypeOK
<1>6. queue \in SUBSET Ticket
  BY <1>1 DEF TypeOK
<1> HIDE DEF new, queue, repo
<1>7. ASSUME NEW t \in A, NEW u \in queue \ A, u < t
      PROVE  /\ repo[u] \in BusyAfter(transferring, repo, A)
             /\ repo[u] # repo[t]
  BY <1>2, <1>6, <1>7, PromoteInOrder DEF SlotsBounded
<1> QED BY <1>2, <1>3, <1>4, <1>5, <1>7 DEF InOrder

LEMMA LeaveInOrder ==
    ASSUME GateInv, NEW l \in Ticket, LeaveCancelled(l)
    PROVE  InOrder
<1> DEFINE queue == waiting \ {l}
<1> USE DEF GateInv
<1>1. PICK A \in SUBSET queue :
        /\ Admits(transferring, queue, repository_of, A)
        /\ transferring' = BusyAfter(transferring, repository_of, A)
        /\ waiting' = queue \ A
        /\ granted' = granted \cup A
  BY DEF LeaveCancelled
<1>2. /\ permits' = permits
      /\ repository_of' = [repository_of EXCEPT ![l] = NoRepository]
  BY DEF LeaveCancelled
<1>3. SlotHolders' \ SlotHolders \subseteq A
  BY <1>1, <1>2 DEF SlotHolders, Holding
<1>4. \A t \in A : SlotOf(t)' = repository_of[t]
  BY <1>1, <1>2 DEF SlotOf, TypeOK
<1>5. \A u \in waiting' : repository_of'[u] = repository_of[u]
  BY <1>1, <1>2 DEF TypeOK
<1>6. queue \in SUBSET Ticket
  BY DEF TypeOK
<1> HIDE DEF queue
<1>7. ASSUME NEW t \in A, NEW u \in queue \ A, u < t
      PROVE  /\ repository_of[u] \in BusyAfter(transferring, repository_of, A)
             /\ repository_of[u] # repository_of[t]
  BY <1>1, <1>6, <1>7, PromoteInOrder DEF SlotsBounded
<1> QED BY <1>1, <1>3, <1>4, <1>5, <1>7 DEF InOrder

LEMMA ReleaseInOrder ==
    ASSUME GateInv, NEW l \in Ticket, Release(l)
    PROVE  InOrder
<1> DEFINE free == transferring \ {permits[l]}
<1> USE DEF GateInv
<1>1. PICK A \in SUBSET waiting :
        /\ Admits(free, waiting, repository_of, A)
        /\ transferring' = BusyAfter(free, repository_of, A)
        /\ waiting' = waiting \ A
        /\ granted' = granted \cup A
  BY DEF Release
<1>2. /\ permits' = [permits EXCEPT ![l] = NoRepository]
      /\ repository_of' = repository_of
  BY DEF Release
<1>3. SlotHolders' \ SlotHolders \subseteq A
  BY <1>1, <1>2 DEF SlotHolders, Holding, TypeOK
<1>4. \A t \in A : SlotOf(t)' = repository_of[t]
  BY <1>1, <1>2 DEF SlotOf
<1>5. waiting \in SUBSET Ticket
  BY DEF TypeOK
<1>6. IsFiniteSet(free)
  <2>1. free \in SUBSET transferring
    OBVIOUS
  <2> QED BY <2>1, FS_Subset DEF SlotsBounded
<1> HIDE DEF free
<1>7. ASSUME NEW t \in A, NEW u \in waiting \ A, u < t
      PROVE  /\ repository_of[u] \in BusyAfter(free, repository_of, A)
             /\ repository_of[u] # repository_of[t]
  BY <1>1, <1>5, <1>6, <1>7, PromoteInOrder
<1> QED BY <1>1, <1>2, <1>3, <1>4, <1>7 DEF InOrder

LEMMA EnterCancelledInOrder ==
    ASSUME GateInv, NEW r \in Repository, EnterCancelled(r)
    PROVE  InOrder
<1> DEFINE new == next_ticket
           queue == waiting \cup {new}
           repo == [repository_of EXCEPT ![new] = r]
<1> USE DEF GateInv
<1>1. new \in Ticket /\ new \notin waiting \cup granted \cup Holding
  BY TicketAssumption DEF EnterCancelled, TypeOK, TicketsPlaced, Ticket
<1>2. PICK A \in SUBSET queue, B \in SUBSET waiting :
        /\ Admits(transferring, queue, repo, A)
        /\ new \notin A
        /\ Admits(BusyAfter(transferring, repo, A), waiting \ A, repo, B)
        /\ B \in SUBSET (waiting \ A)
        /\ transferring' = BusyAfter(BusyAfter(transferring, repo, A), repo, B)
        /\ waiting' = (waiting \ A) \ B
        /\ granted' = granted \cup A \cup B
  BY DEF EnterCancelled
<1>3. permits' = permits /\ repository_of' = repository_of
  BY DEF EnterCancelled
<1>4. \A u \in waiting : repo[u] = repository_of[u]
  BY <1>1 DEF TypeOK
<1>5. SlotHolders' \ SlotHolders \subseteq A \cup B
  BY <1>2, <1>3 DEF SlotHolders, Holding
<1>6. \A t \in A \cup B : SlotOf(t)' = repo[t]
  BY <1>2, <1>3, <1>4 DEF SlotOf
<1>7. queue \in SUBSET Ticket /\ waiting \ A \in SUBSET Ticket
  BY <1>1 DEF TypeOK
<1> DEFINE busy == BusyAfter(transferring, repo, A)
           rest == waiting \ A
<1>8. IsFiniteSet(busy)
  <2> HIDE DEF new, queue, repo
  <2> QED BY <1>2, <1>7, PromoteSound DEF SlotsBounded
<1>9. ASSUME NEW t \in A, NEW u \in waiting', u < t
      PROVE  repo[u] \in transferring' /\ repo[u] # repo[t]
  <2>1. u \in queue \ A
    BY <1>2
  <2> HIDE DEF new, queue, repo
  <2>2. repo[u] \in busy /\ repo[u] # repo[t]
    BY <1>2, <1>7, <1>9, <2>1, PromoteInOrder DEF SlotsBounded
  <2> QED BY <1>2, <2>2 DEF BusyAfter
<1>10. ASSUME NEW t \in B, NEW u \in waiting', u < t
       PROVE  repo[u] \in transferring' /\ repo[u] # repo[t]
  <2>1. /\ u \in rest \ B /\ rest \in SUBSET Ticket /\ B \in SUBSET rest
        /\ Admits(busy, rest, repo, B)
        /\ transferring' = BusyAfter(busy, repo, B)
    BY <1>2, <1>7
  <2> HIDE DEF new, queue, repo, busy, rest
  <2>2. repo[u] \in BusyAfter(busy, repo, B) /\ repo[u] # repo[t]
    BY <1>8, <1>10, <2>1, PromoteInOrder
  <2> QED BY <2>1, <2>2
<1>11. \A u \in waiting' : repository_of'[u] = repo[u]
  BY <1>2, <1>3, <1>4
<1> HIDE DEF new, queue, repo
<1> QED BY <1>5, <1>6, <1>9, <1>10, <1>11 DEF InOrder

(* First come, first served among the tickets that could run, at every     *)
(* step: ADR-0021's ordering, whatever the arrivals and cancellations.     *)
THEOREM NobodyOvertakes == Spec => NoOvertaking
<1>1. GateInv /\ [Next]_vars => [InOrder]_vars
  <2> SUFFICES ASSUME GateInv, Next, ~ UNCHANGED vars PROVE InOrder
    OBVIOUS
  <2>1. ASSUME NEW r \in Repository, NEW c \in BOOLEAN, Enter(r, c) PROVE InOrder
    BY <2>1, EnterInOrder
  <2>2. ASSUME NEW r \in Repository, EnterCancelled(r) PROVE InOrder
    BY <2>2, EnterCancelledInOrder
  <2>3. ASSUME NEW t \in Ticket, TakePermit(t) PROVE InOrder
    BY <2>3 DEF TakePermit, InOrder, SlotHolders, Holding, GateInv, TypeOK
  <2>4. ASSUME NEW t \in Ticket, LeaveCancelled(t) PROVE InOrder
    BY <2>4, LeaveInOrder
  <2>5. ASSUME NEW t \in Ticket, Release(t) PROVE InOrder
    BY <2>5, ReleaseInOrder
  <2>6. ASSUME NEW t \in Ticket, Cancel(t) PROVE InOrder
    BY <2>6 DEF Cancel, InOrder, SlotHolders, Holding
  <2> QED BY <2>1, <2>2, <2>3, <2>4, <2>5, <2>6 DEF Next
<1> QED BY <1>1, GateInvariant, PTL DEF Spec, NoOvertaking, InOrder

-----------------------------------------------------------------------------
(* One turn of promote's loop.  The tickets looked at so far are S, the    *)
(* admitted ones A: what the loop does with the next ticket is what the    *)
(* equation asks for.                                                      *)
LEMMA ScanOne ==
    ASSUME NEW busy, NEW repo, NEW S \in SUBSET Ticket, NEW A \in SUBSET S,
           Admits(busy, S, repo, A),
           NEW t \in Ticket, \A u \in S : u < t
    PROVE  LET taken == BusyAfter(busy, repo, A)
               free  == Cardinality(taken) < Limit /\ repo[t] \notin taken
           IN  Admits(busy, S \cup {t}, repo, IF free THEN A \cup {t} ELSE A)
<1> DEFINE taken == BusyAfter(busy, repo, A)
           free  == Cardinality(taken) < Limit /\ repo[t] \notin taken
           B     == IF free THEN A \cup {t} ELSE A
<1>1. Ticket \subseteq Nat /\ t \notin S
  BY TicketAssumption DEF Ticket
<1>2. \A u \in S : {v \in B : v < u} = {v \in A : v < u}
  BY <1>1
<1>3. {v \in B : v < t} = A
  <2>1. \A v \in A : v \in B /\ v < t
    OBVIOUS
  <2>2. \A v \in B : v < t => v \in A
    BY <1>1
  <2> QED
    BY <2>1, <2>2
<1>4. \A u \in S : BusyAt(busy, repo, B, u) = BusyAt(busy, repo, A, u)
  BY <1>2 DEF BusyAt
<1>5. BusyAt(busy, repo, B, t) = taken
  BY <1>3 DEF BusyAt, BusyAfter
<1>6. ASSUME NEW u \in S
      PROVE  u \in B <=> /\ Cardinality(BusyAt(busy, repo, B, u)) < Limit
                         /\ repo[u] \notin BusyAt(busy, repo, B, u)
  <2>1. u \in B <=> u \in A
    BY <1>1
  <2> QED
    BY <1>4, <2>1 DEF Admits
<1>7. t \in B <=> free
  BY <1>1
<1> HIDE DEF B, taken
<1>8. Admits(busy, S \cup {t}, repo, B)
  BY <1>5, <1>6, <1>7 DEF Admits
<1> QED
  BY <1>8 DEF B, taken

(* The loop stops at a full gate: whatever it has not looked at would not  *)
(* be admitted.                                                            *)
LEMMA ScanStops ==
    ASSUME NEW busy, IsFiniteSet(busy), NEW repo,
           NEW queue \in SUBSET Ticket, NEW S \in SUBSET queue, NEW A \in SUBSET S,
           Admits(busy, S, repo, A),
           \A u \in S, t \in queue \ S : u < t,
           Cardinality(BusyAfter(busy, repo, A)) >= Limit
    PROVE  Admits(busy, queue, repo, A)
<1>1. IsFiniteSet(BusyAfter(busy, repo, A))
  <2>1. IsFiniteSet({repo[u] : u \in A})
    BY TicketsFinite, FiniteRepositories
  <2> QED
    BY <2>1, FS_Union DEF BusyAfter
<1>2. Cardinality(BusyAfter(busy, repo, A)) \in Nat
  BY <1>1, FS_CardinalityType
<1>3. ASSUME NEW t \in queue \ S
      PROVE  BusyAt(busy, repo, A, t) = BusyAfter(busy, repo, A)
  <2>1. {v \in A : v < t} = A
    BY <1>3
  <2> QED
    BY <2>1 DEF BusyAt, BusyAfter
<1>4. \A t \in queue \ S : ~ (Cardinality(BusyAt(busy, repo, A, t)) < Limit)
  BY <1>2, <1>3, LimitAssumption
<1> QED
  BY <1>4 DEF Admits

(* A promotion always admits one set of tickets and no other: the equation *)
(* by which Enter, LeaveCancelled and Release define it has exactly one    *)
(* solution, for every queue and whatever slots are in use, so no step of  *)
(* the gate is blocked by it and none has a choice.                        *)
THEOREM PromotionIsDetermined ==
    ASSUME NEW busy, NEW repo, NEW queue \in SUBSET Ticket
    PROVE  \E A \in SUBSET queue :
               /\ Admits(busy, queue, repo, A)
               /\ \A B \in SUBSET queue : Admits(busy, queue, repo, B) => B = A
<1> DEFINE Below(n) == {u \in queue : u < n}
           Unsolved == {n \in Nat : \A A \in SUBSET Below(n) :
                                        ~ Admits(busy, Below(n), repo, A)}
<1>1. /\ Ticket \subseteq Nat /\ MaxTickets \in Nat
      /\ \A u \in queue : u \in Nat /\ u < MaxTickets
  BY TicketAssumption DEF Ticket
<1>2. ASSUME NEW n \in Unsolved PROVE \E m \in Unsolved : m < n
  <2>1. n # 0
    <3>1. Below(0) = {}
      <4>1. \A u \in queue : ~ (u < 0)
        BY <1>1
      <4> QED
        BY <4>1
    <3>2. Admits(busy, Below(0), repo, {})
      BY <3>1 DEF Admits
    <3> QED
      BY <3>2
  <2> DEFINE m == n - 1
  <2>2. m \in Nat /\ m < n
    BY <2>1
  <2>3. CASE m \in queue
    <3>1. Below(n) = Below(m) \cup {m}
      <4>1. \A u \in queue : u < n <=> u < m \/ u = m
        BY <1>1, <2>1
      <4> QED
        BY <2>3, <4>1
    <3>2. ASSUME NEW A \in SUBSET Below(m), Admits(busy, Below(m), repo, A) PROVE FALSE
      <4>1. PICK C : C = IF /\ Cardinality(BusyAfter(busy, repo, A)) < Limit
                            /\ repo[m] \notin BusyAfter(busy, repo, A)
                         THEN A \cup {m} ELSE A
        OBVIOUS
      <4>2. Below(m) \in SUBSET Ticket /\ m \in Ticket /\ \A u \in Below(m) : u < m
        BY <2>3
      <4>3. m \notin Below(m)
        BY <2>2
      <4> HIDE DEF Below, m
      <4>4. Admits(busy, Below(m) \cup {m}, repo, C)
        BY <3>2, <4>1, <4>2, <4>3, ScanOne
      <4>5. C \in SUBSET (Below(m) \cup {m})
        BY <4>1
      <4> QED
        BY <3>1, <4>4, <4>5
    <3> QED
      BY <2>2, <3>2
  <2>4. CASE m \notin queue
    <3>1. Below(n) = Below(m)
      <4>1. \A u \in queue : u < n <=> u < m
        BY <1>1, <2>1, <2>4
      <4> QED
        BY <4>1
    <3> QED
      BY <2>2, <3>1
  <2> QED
    BY <2>3, <2>4
<1>3. Unsolved = {}
  <2>1. SUFFICES ASSUME Unsolved # {} PROVE FALSE
    OBVIOUS
  <2> HIDE DEF Unsolved
  <2>2. Unsolved \subseteq Nat
    BY DEF Unsolved
  <2>3. PICK n \in Unsolved : \A m \in Unsolved : ~ (<<m, n>> \in OpToRel(<, Nat))
    BY <2>1, <2>2, NatLessThanWellFounded, WFMin
  <2> QED
    BY <1>2, <2>2, <2>3 DEF OpToRel
<1>4. Below(MaxTickets) = queue
  BY <1>1
<1>5. PICK A \in SUBSET queue : Admits(busy, queue, repo, A)
  BY ZenonT(60), <1>1, <1>3, <1>4
<1>6. ASSUME NEW B \in SUBSET queue, Admits(busy, queue, repo, B) PROVE B = A
  <2> DEFINE Differ == {t \in queue : ~ (t \in A <=> t \in B)}
  <2>1. ASSUME NEW t \in Differ PROVE \E u \in Differ : u < t
    <3>1. SUFFICES ASSUME \A u \in queue : u < t => (u \in A <=> u \in B) PROVE FALSE
      OBVIOUS
    <3>2. {u \in A : u < t} = {u \in B : u < t}
      BY <3>1
    <3>3. BusyAt(busy, repo, A, t) = BusyAt(busy, repo, B, t)
      BY <3>2 DEF BusyAt
    <3> QED
      BY <1>5, <1>6, <3>3 DEF Admits
  <2>2. Differ \subseteq Nat
    BY <1>1
  <2>3. Differ = {}
    <3> HIDE DEF Differ
    <3>1. SUFFICES ASSUME Differ # {} PROVE FALSE
      OBVIOUS
    <3>2. PICK t \in Differ : \A u \in Differ : ~ (<<u, t>> \in OpToRel(<, Nat))
      BY <2>2, <3>1, NatLessThanWellFounded, WFMin
    <3> QED
      BY <2>1, <2>2, <3>2 DEF OpToRel
  <2> QED
    BY <2>3
<1> QED
  BY <1>5, <1>6
-----------------------------------------------------------------------------
(* The loop of promote.  A deque without one of its elements.              *)
LEMMA WithoutOne ==
    ASSUME NEW S, NEW d \in Seq(S), NEW i \in 1 .. Len(d)
    PROVE  /\ Without(d, i) \in Seq(S)
           /\ Len(Without(d, i)) = Len(d) - 1
           /\ \A k \in 1 .. Len(d) - 1 :
                  Without(d, i)[k] = IF k < i THEN d[k] ELSE d[k + 1]
<1> DEFINE a == SubSeq(d, 1, i - 1)
           b == SubSeq(d, i + 1, Len(d))
           n == Len(d)
<1>1. n \in Nat /\ i \in Nat /\ 1 <= i /\ i <= n /\ \A k \in 1 .. n : d[k] \in S
  BY LenProperties, ElementOfSeq
<1> HIDE DEF n
<1>2. a \in Seq(S) /\ Len(a) = i - 1 /\ \A k \in 1 .. i - 1 : a[k] = d[k]
  <2>1. \A k \in 1 .. i - 1 : d[k] \in S
    BY <1>1
  <2>2. /\ SubSeq(d, 1, i - 1) \in Seq(S)
        /\ Len(SubSeq(d, 1, i - 1)) = IF 1 <= i - 1 THEN (i - 1) - 1 + 1 ELSE 0
        /\ \A k \in 1 .. (i - 1) - 1 + 1 : SubSeq(d, 1, i - 1)[k] = d[1 + k - 1]
    BY <1>1, <2>1, SubSeqProperties
  <2> QED BY <1>1, <2>2
<1>3. b \in Seq(S) /\ Len(b) = n - i /\ \A k \in 1 .. n - i : b[k] = d[i + k]
  <2>1. \A k \in i + 1 .. n : d[k] \in S
    BY <1>1
  <2>2. /\ SubSeq(d, i + 1, n) \in Seq(S)
        /\ Len(SubSeq(d, i + 1, n)) = IF i + 1 <= n THEN n - (i + 1) + 1 ELSE 0
        /\ \A k \in 1 .. n - (i + 1) + 1 : SubSeq(d, i + 1, n)[k] = d[(i + 1) + k - 1]
    BY <1>1, <2>1, SubSeqProperties
  <2> QED BY <1>1, <2>2 DEF n
<1> HIDE DEF a, b
<1>4. /\ a \o b \in Seq(S) /\ Len(a \o b) = n - 1
      /\ \A k \in 1 .. n - 1 : (a \o b)[k] = IF k <= i - 1 THEN a[k] ELSE b[k - (i - 1)]
  BY SMTT(60), <1>1, <1>2, <1>3, ConcatProperties
<1>5. ASSUME NEW k \in 1 .. n - 1
      PROVE  (a \o b)[k] = IF k < i THEN d[k] ELSE d[k + 1]
  <2>1. CASE k < i
    <3>1. (a \o b)[k] = a[k]
      BY <1>1, <1>4, <2>1
    <3>2. a[k] = d[k]
      BY <1>1, <1>2, <2>1
    <3> QED BY <2>1, <3>1, <3>2
  <2>2. CASE ~ (k < i)
    <3> DEFINE j == k - (i - 1)
    <3>1. (a \o b)[k] = b[j] /\ j \in 1 .. n - i /\ i + j = k + 1
      BY <1>1, <1>4, <2>2
    <3> HIDE DEF j
    <3>2. b[j] = d[i + j]
      BY <1>3, <3>1
    <3> QED BY <2>2, <3>1, <3>2
  <2> QED BY <2>1, <2>2
<1> QED BY <1>4, <1>5 DEF Without, a, b, n

(* Every set of tickets has a deque: its tickets in increasing order.      *)
Ordered(d, S) ==
    /\ d \in [1 .. Cardinality(S) -> S]
    /\ \A i, j \in DOMAIN d : i < j => d[i] < d[j]

LEMMA DequeExists ==
    ASSUME NEW S \in SUBSET Ticket
    PROVE  \E d : Ordered(d, S)
<1> DEFINE Below(n) == {u \in S : u < n}
           None(n) == \A d : ~ Ordered(d, Below(n))
           Missing == {n \in Nat : None(n)}
<1>1. MaxTickets \in Nat /\ \A u \in S : u \in Nat /\ u < MaxTickets
  BY TicketAssumption DEF Ticket
<1>2. ASSUME NEW n \in Missing PROVE \E m \in Missing : m < n
  <2>1. n # 0
    <3>1. Below(0) = {}
      BY <1>1
    <3>2. Ordered(<<>>, {})
      BY FS_EmptySet DEF Ordered
    <3> QED BY <3>1, <3>2
  <2> DEFINE m == n - 1
  <2>2. m \in Nat /\ m < n
    BY <2>1
  <2>3. CASE m \in S
    <3>1. Below(n) = Below(m) \cup {m} /\ m \notin Below(m)
      BY <1>1, <2>1, <2>3
    <3>2. IsFiniteSet(Below(m)) /\ \A u \in Below(m) : u < m
      BY TicketsFinite
    <3>3. ASSUME NEW d, Ordered(d, Below(m)) PROVE FALSE
      <4> DEFINE c == Cardinality(Below(m))
                 e == [k \in 1 .. c + 1 |-> IF k = c + 1 THEN m ELSE d[k]]
      <4> HIDE DEF Below, m
      <4>1. c \in Nat /\ Cardinality(Below(n)) = c + 1
        BY <3>1, <3>2, FS_CardinalityType, FS_AddElement
      <4> HIDE DEF c
      <4>2. /\ DOMAIN d = 1 .. c /\ \A k \in 1 .. c : d[k] \in Below(m)
            /\ \A i, j \in 1 .. c : i < j => d[i] < d[j]
        BY <3>3 DEF Ordered, c
      <4>3. e \in [1 .. c + 1 -> Below(n)]
        BY <3>1, <4>1, <4>2
      <4>4. ASSUME NEW i \in 1 .. c + 1, NEW j \in 1 .. c + 1, i < j PROVE e[i] < e[j]
        BY <3>2, <4>1, <4>2, <4>4
      <4>5. Ordered(e, Below(n))
        BY <4>1, <4>3, <4>4 DEF Ordered
      <4> QED BY <4>5
    <3> QED BY <2>2, <3>3
  <2>4. CASE m \notin S
    <3>1. Below(n) = Below(m)
      BY <1>1, <2>1, <2>4
    <3> QED BY <2>2, <3>1
  <2> QED BY <2>3, <2>4
<1>3. Missing = {}
  <2>1. SUFFICES ASSUME Missing # {} PROVE FALSE
    OBVIOUS
  <2>2. Missing \subseteq Nat
    OBVIOUS
  <2> HIDE DEF Missing
  <2>3. PICK n \in Missing : \A m \in Missing : ~ (<<m, n>> \in OpToRel(<, Nat))
    BY <2>1, <2>2, NatLessThanWellFounded, WFMin
  <2> QED BY <1>2, <2>2, <2>3 DEF OpToRel
<1>4. Below(MaxTickets) = S
  BY <1>1
<1> QED BY <1>1, <1>3, <1>4
(* An ordered deque has every ticket of its set, and is the only one.      *)
LEMMA OrderedIsOnto ==
    ASSUME NEW S \in SUBSET Ticket, NEW d, Ordered(d, S)
    PROVE  \A u \in S : \E k \in 1 .. Cardinality(S) : d[k] = u
<1> DEFINE n == Cardinality(S)
<1>1. IsFiniteSet(S) /\ n \in Nat /\ \A u \in S : u \in Nat
  BY TicketsFinite, FS_CardinalityType, TicketAssumption DEF Ticket
<1>2. IsFiniteSet(1 .. n) /\ Cardinality(1 .. n) = n
  BY <1>1, FS_Interval
<1>3. d \in [1 .. n -> S] /\ \A i, j \in 1 .. n : i < j => d[i] < d[j]
  BY DEF Ordered
<1> HIDE DEF n
<1>4. d \in Injection(1 .. n, S)
  <2>1. ASSUME NEW i \in 1 .. n, NEW j \in 1 .. n, d[i] = d[j] PROVE i = j
    <3>1. i \in Nat /\ j \in Nat
      BY <1>1
    <3>4. d[i] \in Nat
      BY <1>1, <1>3
    <3>2. i < j => d[i] < d[j]
      BY <1>3
    <3>3. j < i => d[j] < d[i]
      BY <1>3
    <3> QED BY <2>1, <3>1, <3>2, <3>3, <3>4
  <2>2. d \in [1 .. n -> S]
    BY <1>3
  <2> QED BY <2>1, <2>2 DEF Injection, IsInjective
<1>5. d \in Surjection(1 .. n, S)
  BY <1>1, <1>2, <1>4, FS_Injection DEF n
<1> QED BY <1>5 DEF Surjection, n

LEMMA DequeIs ==
    ASSUME NEW S \in SUBSET Ticket, NEW e, Ordered(e, S)
    PROVE  e = Deque(S)
<1> DEFINE d == Deque(S)
           n == Cardinality(S)
           Differ == {k \in 1 .. n : d[k] # e[k]}
<1>1. Ordered(d, S)
  BY DequeExists DEF Deque, Ordered
<1>2. /\ (\A u \in S : u \in Nat) /\ n \in Nat
      /\ d \in [1 .. n -> S] /\ \A i, j \in 1 .. n : i < j => d[i] < d[j]
      /\ e \in [1 .. n -> S] /\ \A i, j \in 1 .. n : i < j => e[i] < e[j]
      /\ \A u \in S : (\E k \in 1 .. n : d[k] = u) /\ (\E k \in 1 .. n : e[k] = u)
  <2>1. (\A u \in S : u \in Nat) /\ n \in Nat
    BY TicketsFinite, FS_CardinalityType, TicketAssumption DEF Ticket
  <2>2. \A u \in S : (\E k \in 1 .. n : d[k] = u) /\ (\E k \in 1 .. n : e[k] = u)
    BY <1>1, OrderedIsOnto
  <2> QED BY <1>1, <2>1, <2>2 DEF Ordered
<1> HIDE DEF d, n
<1>3. Differ = {}
  <2>1. SUFFICES ASSUME Differ # {} PROVE FALSE
    OBVIOUS
  <2>2. Differ \subseteq Nat
    BY <1>2
  <2>3. PICK k \in Differ : \A i \in Differ : ~ (<<i, k>> \in OpToRel(<, Nat))
    <3> HIDE DEF Differ
    <3> QED BY <2>1, <2>2, NatLessThanWellFounded, WFMin
  <2>4. k \in 1 .. n /\ d[k] # e[k] /\ \A i \in 1 .. n : i < k => d[i] = e[i]
    BY <1>2, <2>2, <2>3 DEF OpToRel
  <2>5. PICK j \in 1 .. n : e[j] = d[k]
    BY <1>2, <2>4
  <2>6. PICK i \in 1 .. n : d[i] = e[k]
    BY <1>2, <2>4
  <2>7. /\ i \in Nat /\ j \in Nat /\ k \in Nat
        /\ d[k] \in Nat /\ e[k] \in Nat /\ d[i] \in Nat /\ e[j] \in Nat
    <3>1. d[k] \in S /\ e[k] \in S /\ n \in Nat
      BY <1>2, <2>4
    <3>2. i \in Nat /\ j \in Nat /\ k \in Nat
      BY <2>4, <3>1
    <3>3. \A u \in S : u \in Nat
      BY <1>2
    <3> QED BY <2>5, <2>6, <3>1, <3>2, <3>3
  <2>8. ~ (j < k) /\ j # k
    <3>1. j < k => d[j] < d[k] /\ d[j] = e[j]
      BY <1>2, <2>4
    <3> QED BY <2>4, <2>5, <2>7, <3>1
  <2>9. ~ (i < k) /\ i # k
    <3>1. i < k => e[i] < e[k] /\ d[i] = e[i]
      BY <1>2, <2>4
    <3> QED BY <2>4, <2>6, <2>7, <3>1
  <2>10. (k < j => e[k] < e[j]) /\ (k < i => d[k] < d[i])
    BY <1>2, <2>4
  <2>11. e[k] < d[k] /\ d[k] < e[k]
    BY <2>5, <2>6, <2>7, <2>8, <2>9, <2>10
  <2> QED BY <2>7, <2>11
<1>4. \A k \in 1 .. n : d[k] = e[k]
  BY <1>3
<1>5. e = d
  <2>1. d = [k \in 1 .. n |-> d[k]] /\ e = [k \in 1 .. n |-> e[k]]
    BY <1>2
  <2> QED BY <1>4, <2>1
<1> QED BY <1>5 DEF d

(* The loop between two turns: what is left of the queue is in order; the  *)
(* tickets looked at, admitted or passed over, are older than those ahead; *)
(* and what was admitted of them is what the equation admits.              *)
Seen(i, d, g) == g \cup {d[k] : k \in 1 .. i - 1}

LoopAt(i, d, g, busy, queue, repo) ==
    /\ d \in Seq(queue) /\ i \in 1 .. Len(d) + 1 /\ g \subseteq queue
    /\ \A j, k \in 1 .. Len(d) : j < k => d[j] < d[k]
    /\ {d[k] : k \in 1 .. Len(d)} = queue \ g
    /\ \A u \in g, k \in i .. Len(d) : u < d[k]
    /\ Admits(busy, Seen(i, d, g), repo, g)

LEMMA NextSeen ==
    ASSUME NEW busy, NEW queue \in SUBSET Ticket, NEW repo, NEW i, NEW d, NEW g,
           LoopAt(i, d, g, busy, queue, repo), i <= Len(d)
    PROVE  /\ Len(d) \in Nat /\ i \in 1 .. Len(d) /\ d[i] \in queue \ g
           /\ Seen(i, d, g) \in SUBSET queue /\ \A u \in Seen(i, d, g) : u < d[i]
<1>1. Len(d) \in Nat /\ i \in 1 .. Len(d) + 1
  BY LenProperties DEF LoopAt
<1>2. i \in 1 .. Len(d)
  BY <1>1
<1>3. d[i] \in queue \ g
  BY <1>2 DEF LoopAt
<1>4. ASSUME NEW k \in 1 .. i - 1 PROVE d[k] \in queue /\ d[k] < d[i]
  <2>1. k \in 1 .. Len(d) /\ k < i
    BY <1>1, <1>2
  <2> QED BY <1>2, <2>1 DEF LoopAt
<1>5. ASSUME NEW u \in g PROVE u \in queue /\ u < d[i]
  BY <1>1, <1>2 DEF LoopAt
<1> QED BY <1>1, <1>2, <1>3, <1>4, <1>5 DEF Seen

LEMMA PassOver ==
    ASSUME NEW busy, NEW queue \in SUBSET Ticket, NEW repo, NEW i, NEW d, NEW g,
           LoopAt(i, d, g, busy, queue, repo), i <= Len(d),
           repo[d[i]] \in BusyAfter(busy, repo, g)
    PROVE  LoopAt(i + 1, d, g, busy, queue, repo)
<1>1. /\ Len(d) \in Nat /\ i \in 1 .. Len(d) /\ d[i] \in queue \ g
      /\ Seen(i, d, g) \in SUBSET queue /\ \A u \in Seen(i, d, g) : u < d[i]
  BY NextSeen
<1>2. Admits(busy, Seen(i, d, g) \cup {d[i]}, repo, g)
  <2>1. Seen(i, d, g) \in SUBSET Ticket /\ d[i] \in Ticket
    BY <1>1
  <2>2. g \in SUBSET Seen(i, d, g) /\ Admits(busy, Seen(i, d, g), repo, g)
    BY DEF Seen, LoopAt
  <2> QED BY <1>1, <2>1, <2>2, ScanOne
<1>3. Seen(i + 1, d, g) = Seen(i, d, g) \cup {d[i]}
  <2>1. 1 .. (i + 1) - 1 = (1 .. i - 1) \cup {i}
    BY <1>1
  <2> QED BY <2>1 DEF Seen
<1>4. i + 1 \in 1 .. Len(d) + 1 /\ (i + 1) .. Len(d) \subseteq i .. Len(d)
  BY <1>1
<1> QED BY <1>2, <1>3, <1>4 DEF LoopAt

LEMMA TakeOut ==
    ASSUME NEW busy, NEW queue \in SUBSET Ticket, NEW repo, NEW i, NEW d, NEW g,
           LoopAt(i, d, g, busy, queue, repo), i <= Len(d),
           repo[d[i]] \notin BusyAfter(busy, repo, g),
           Cardinality(BusyAfter(busy, repo, g)) < Limit
    PROVE  LoopAt(i, Without(d, i), g \cup {d[i]}, busy, queue, repo)
<1> DEFINE e == Without(d, i)
           n == Len(d)
           h == g \cup {d[i]}
<1>1. /\ n \in Nat /\ i \in 1 .. n /\ d[i] \in queue \ g
      /\ Seen(i, d, g) \in SUBSET queue /\ \A u \in Seen(i, d, g) : u < d[i]
  BY NextSeen
<1>2. /\ d \in Seq(queue) /\ g \subseteq queue
      /\ \A j, k \in 1 .. n : j < k => d[j] < d[k]
      /\ {d[k] : k \in 1 .. n} = queue \ g
      /\ \A u \in g, k \in i .. n : u < d[k]
      /\ Admits(busy, Seen(i, d, g), repo, g)
  BY DEF LoopAt
<1>3. /\ e \in Seq(queue) /\ Len(e) = n - 1
      /\ \A k \in 1 .. n - 1 : e[k] = IF k < i THEN d[k] ELSE d[k + 1]
  BY <1>1, <1>2, WithoutOne
<1> HIDE DEF e, n
<1>4. Admits(busy, Seen(i, d, g) \cup {d[i]}, repo, h)
  <2>1. Seen(i, d, g) \in SUBSET Ticket /\ d[i] \in Ticket
    BY <1>1
  <2>2. g \in SUBSET Seen(i, d, g)
    BY DEF Seen
  <2> QED BY <1>1, <1>2, <2>1, <2>2, ScanOne
<1>5. Seen(i, e, h) = Seen(i, d, g) \cup {d[i]}
  <2>1. \A k \in 1 .. i - 1 : e[k] = d[k]
    BY <1>1, <1>3
  <2> QED BY <2>1 DEF Seen
<1>6. ASSUME NEW j \in 1 .. n - 1, NEW k \in 1 .. n - 1, j < k PROVE e[j] < e[k]
  <2> DEFINE J == IF j < i THEN j ELSE j + 1
             K == IF k < i THEN k ELSE k + 1
  <2>1. J \in 1 .. n /\ K \in 1 .. n /\ J < K
    BY <1>1, <1>6
  <2>2. e[j] = d[J] /\ e[k] = d[K]
    BY <1>3
  <2> HIDE DEF J, K
  <2> QED BY <1>2, <2>1, <2>2
<1>7. {e[k] : k \in 1 .. n - 1} = queue \ h
  <2>1. ASSUME NEW k \in 1 .. n - 1 PROVE e[k] \in queue \ h
    <3> DEFINE K == IF k < i THEN k ELSE k + 1
    <3>1. K \in 1 .. n /\ K # i /\ e[k] = d[K]
      BY <1>1, <1>3
    <3> HIDE DEF K
    <3>2. d[K] \in queue \ g
      BY <1>2, <3>1
    <3>3. d[K] # d[i]
      <4>1. d[K] \in Nat /\ d[i] \in Nat
        <5>1. \A u \in queue : u \in Nat
          BY TicketAssumption DEF Ticket
        <5> QED BY <1>1, <3>2, <5>1
      <4>2. (K < i => d[K] < d[i]) /\ (i < K => d[i] < d[K])
        BY <1>1, <1>2, <3>1
      <4> QED BY <1>1, <3>1, <4>1, <4>2
    <3> QED BY <3>1, <3>2, <3>3
  <2>2. ASSUME NEW u \in queue \ h PROVE \E k \in 1 .. n - 1 : e[k] = u
    <3>1. PICK K \in 1 .. n : d[K] = u /\ K # i
      BY <1>2
    <3> DEFINE k == IF K < i THEN K ELSE K - 1
    <3>2. k \in 1 .. n - 1 /\ (IF k < i THEN k ELSE k + 1) = K
      BY <1>1, <3>1
    <3> HIDE DEF k
    <3>3. e[k] = d[K]
      BY <1>3, <3>2
    <3> QED BY <3>1, <3>2, <3>3
  <2> QED BY <2>1, <2>2
<1>8. ASSUME NEW u \in h, NEW k \in i .. n - 1 PROVE u < e[k]
  <2>1. e[k] = d[k + 1] /\ k + 1 \in i .. n /\ k + 1 \in 1 .. n /\ i < k + 1
    BY <1>1, <1>3
  <2> QED BY <1>1, <1>2, <2>1
<1>9. i \in 1 .. (n - 1) + 1 /\ h \subseteq queue
  BY <1>1, <1>2
<1> HIDE DEF h
<1>10. LoopAt(i, e, h, busy, queue, repo)
  BY <1>3, <1>4, <1>5, <1>6, <1>7, <1>8, <1>9 DEF LoopAt
<1> QED BY <1>10 DEF e, h
(* A turn that is not the last, and what the loop is at when it stops.     *)
LoopInv(s, busy, queue, repo) ==
    /\ LoopAt(s.index, s.waiting, s.granted, busy, queue, repo)
    /\ s.transferring = BusyAfter(busy, repo, s.granted)

Stopped(s) == s.index > Len(s.waiting) \/ Cardinality(s.transferring) >= Limit
Left(s) == Len(s.waiting) + 1 - s.index

LEMMA BusyIsFinite ==
    ASSUME NEW busy, IsFiniteSet(busy), NEW repo, NEW A \in SUBSET Ticket
    PROVE  Cardinality(BusyAfter(busy, repo, A)) \in Nat
<1>1. IsFiniteSet({repo[u] : u \in A})
  BY TicketsFinite, FiniteRepositories
<1> QED BY <1>1, FS_Union, FS_CardinalityType DEF BusyAfter

LEMMA TurnKeeps ==
    ASSUME NEW busy, IsFiniteSet(busy), NEW queue \in SUBSET Ticket, NEW repo,
           \A t \in queue : repo[t] # NoRepository,
           NEW s, LoopInv(s, busy, queue, repo), ~ Stopped(s)
    PROVE  LoopInv(Turn(s, repo), busy, queue, repo) /\ Left(Turn(s, repo)) = Left(s) - 1
<1> DEFINE i == s.index
           d == s.waiting
           g == s.granted
           t == d[i]
<1>1. LoopAt(i, d, g, busy, queue, repo) /\ s.transferring = BusyAfter(busy, repo, g)
  BY DEF LoopInv
<1>2. i <= Len(d) /\ Cardinality(BusyAfter(busy, repo, g)) < Limit
  <2>1. Len(d) \in Nat /\ i \in Nat /\ g \in SUBSET Ticket
    BY <1>1, LenProperties DEF LoopAt
  <2>2. Cardinality(BusyAfter(busy, repo, g)) \in Nat
    BY <2>1, BusyIsFinite
  <2> QED BY <1>1, <2>1, <2>2, LimitAssumption DEF Stopped
<1>3. Len(d) \in Nat /\ i \in 1 .. Len(d) /\ t \in queue /\ d \in Seq(queue)
  BY <1>1, <1>2, NextSeen DEF LoopAt
<1>4. CASE repo[t] \in s.transferring
  <2>1. Turn(s, repo) = Loop(i + 1, d, s.transferring, g)
    BY <1>3, <1>4 DEF Turn, Stopped
  <2>2. LoopAt(i + 1, d, g, busy, queue, repo)
    BY <1>1, <1>2, <1>4, PassOver
  <2> DEFINE x == Loop(i + 1, d, s.transferring, g)
  <2>3. x.index = i + 1 /\ x.waiting = d /\ x.transferring = s.transferring /\ x.granted = g
    BY DEF Loop
  <2> HIDE DEF x, d, g, i
  <2>4. LoopInv(x, busy, queue, repo)
    BY <1>1, <2>2, <2>3 DEF LoopInv
  <2>5. Left(x) = Left(s) - 1
    <3>1. Left(x) = Len(d) + 1 - (i + 1)
      BY <2>3 DEF Left
    <3>2. Left(s) = Len(d) + 1 - i
      BY DEF Left, d, i
    <3>3. Len(d) \in Int /\ i \in Int
      BY <1>3
    <3> QED BY <3>1, <3>2, <3>3
  <2> QED BY <2>1, <2>4, <2>5 DEF x
<1>5. CASE repo[t] \notin s.transferring
  <2>1. Turn(s, repo) = Loop(i, Without(d, i), s.transferring \cup {repo[t]}, g \cup {t})
    BY <1>3, <1>5 DEF Turn, Stopped
  <2>2. LoopAt(i, Without(d, i), g \cup {t}, busy, queue, repo)
    BY <1>1, <1>2, <1>5, TakeOut
  <2>3. s.transferring \cup {repo[t]} = BusyAfter(busy, repo, g \cup {t})
    BY <1>1 DEF BusyAfter
  <2> DEFINE h == g \cup {t}
             e == Without(d, i)
             x == Loop(i, e, s.transferring \cup {repo[t]}, h)
  <2>4. /\ x.index = i /\ x.waiting = e /\ x.granted = h
        /\ x.transferring = s.transferring \cup {repo[t]}
    BY DEF Loop
  <2> HIDE DEF x, d, g, i, e, h, t
  <2>5. LoopInv(x, busy, queue, repo)
    BY <2>2, <2>3, <2>4 DEF LoopInv, e, h
  <2>6. Left(x) = Left(s) - 1
    <3>1. Left(x) = Len(e) + 1 - i
      BY <2>4 DEF Left
    <3>2. Left(s) = Len(d) + 1 - i
      BY DEF Left, d, i
    <3>3. Len(d) \in Int /\ Len(e) \in Int /\ i \in Int /\ Len(e) = Len(d) - 1
      <4>1. Len(e) = Len(d) - 1
        BY <1>3, WithoutOne DEF e
      <4> QED BY <1>3, <4>1
    <3> QED BY <3>1, <3>2, <3>3
  <2> QED BY <2>1, <2>5, <2>6 DEF x, e, h
<1> QED BY <1>4, <1>5

LEMMA LoopStops ==
    ASSUME NEW busy, IsFiniteSet(busy), NEW queue \in SUBSET Ticket, NEW repo,
           NEW s, LoopInv(s, busy, queue, repo), Stopped(s)
    PROVE  /\ s.granted \in SUBSET queue /\ Admits(busy, queue, repo, s.granted)
           /\ s.transferring = BusyAfter(busy, repo, s.granted)
           /\ s.waiting = Deque(queue \ s.granted)
<1> DEFINE i == s.index
           d == s.waiting
           g == s.granted
           n == Len(d)
           S == Seen(i, d, g)
<1>1. /\ d \in Seq(queue) /\ i \in 1 .. n + 1 /\ g \subseteq queue
      /\ \A j, k \in 1 .. n : j < k => d[j] < d[k]
      /\ {d[k] : k \in 1 .. n} = queue \ g
      /\ \A u \in g, k \in i .. n : u < d[k]
      /\ Admits(busy, S, repo, g)
      /\ s.transferring = BusyAfter(busy, repo, g)
  BY DEF LoopInv, LoopAt
<1>2. n \in Nat /\ d \in [1 .. n -> queue] /\ DOMAIN d = 1 .. n
  BY <1>1, LenProperties
<1> HIDE DEF n, d, g, i
<1>3. Admits(busy, queue, repo, g)
  <2>1. CASE i > n
    <3>1. i - 1 = n
      BY <1>1, <1>2, <2>1
    <3>2. S = queue
      BY <1>1, <3>1 DEF Seen
    <3> QED BY <1>1, <3>2
  <2>2. CASE Cardinality(s.transferring) >= Limit
    <3>1. S \in SUBSET queue /\ g \in SUBSET S
      <4>1. \A k \in 1 .. i - 1 : k \in 1 .. n
        BY <1>1, <1>2
      <4> QED BY <1>1, <1>2, <4>1 DEF Seen
    <3>2. ASSUME NEW u \in S, NEW t \in queue \ S PROVE u < t
      <4>1. PICK k \in 1 .. n : d[k] = t
        BY <1>1, <3>1
      <4>2. k \in i .. n
        BY <1>1, <1>2, <4>1 DEF Seen
      <4>3. CASE u \in g
        BY <1>1, <4>1, <4>2, <4>3
      <4>4. CASE u \notin g
        <5>1. PICK j \in 1 .. i - 1 : d[j] = u
          BY <4>4 DEF Seen
        <5>2. j \in 1 .. n /\ j < k
          BY <1>1, <1>2, <4>2, <5>1
        <5> QED BY <1>1, <4>1, <5>1, <5>2
      <4> QED BY <4>3, <4>4
    <3> HIDE DEF S
    <3> QED BY <1>1, <2>2, <3>1, <3>2, ScanStops
  <2> QED BY <2>1, <2>2 DEF Stopped, i, n, d
<1>4. d = Deque(queue \ g)
  <2> DEFINE R == queue \ g
  <2>1. R \in SUBSET Ticket /\ \A u \in R : u \in Nat
    <3>1. \A u \in queue : u \in Nat
      BY TicketAssumption DEF Ticket
    <3> QED BY <3>1
  <2>2. d \in [1 .. n -> R]
    BY <1>1, <1>2
  <2>3. d \in Bijection(1 .. n, R)
    <3>1. ASSUME NEW j \in 1 .. n, NEW k \in 1 .. n, d[j] = d[k] PROVE j = k
      <4>1. j \in Nat /\ k \in Nat /\ d[j] \in Nat
        BY <1>2, <2>1, <2>2
      <4>2. (j < k => d[j] < d[k]) /\ (k < j => d[k] < d[j])
        BY <1>1
      <4> QED BY <3>1, <4>1, <4>2
    <3>2. \A u \in R : \E k \in 1 .. n : d[k] = u
      BY <1>1
    <3> HIDE DEF R
    <3> QED BY <2>2, <3>1, <3>2 DEF Bijection, Injection, Surjection, IsInjective
  <2> HIDE DEF R
  <2>4. Cardinality(R) = n
    BY <1>2, <2>3, FS_CountingElements DEF ExistsBijection
  <2>5. Ordered(d, R)
    BY <1>1, <1>2, <2>2, <2>4 DEF Ordered
  <2> QED BY <2>1, <2>5, DequeIs DEF R
<1> QED BY <1>1, <1>3, <1>4 DEF d, g
(* The loop runs: one state after each turn, the last after MaxTickets.    *)
LEMMA LoopRuns ==
    ASSUME NEW busy, NEW queue, NEW repo
    PROVE  \E run : /\ run[0] = Loop(1, Deque(queue), busy, {})
                    /\ \A n \in 1 .. MaxTickets : run[n] = Turn(run[n - 1], repo)
                    /\ Promotion(busy, queue, repo) = run[MaxTickets]
<1> DEFINE first == Loop(1, Deque(queue), busy, {})
           Run(f, m) == f = [n \in 0 .. m |-> IF n = 0 THEN first ELSE Turn(f[n - 1], repo)]
           Short == {m \in Nat : ~ \E f : Run(f, m)}
<1>1. ASSUME NEW m \in Short PROVE \E k \in Short : k < m
  <2>1. m # 0
    <3>1. Run([n \in 0 .. 0 |-> first], 0)
      OBVIOUS
    <3> QED BY <3>1
  <2>2. m - 1 \in Nat /\ m - 1 < m
    BY <2>1
  <2>3. ASSUME NEW f, Run(f, m - 1) PROVE FALSE
    <3> DEFINE g == [n \in 0 .. m |-> IF n = m THEN Turn(f[m - 1], repo) ELSE f[n]]
    <3>1. ASSUME NEW n \in 0 .. m
          PROVE  g[n] = IF n = 0 THEN first ELSE Turn(g[n - 1], repo)
      <4> HIDE DEF first
      <4>1. CASE n = m
        BY <2>1, <2>2, <4>1
      <4>2. CASE n # m
        <5>1. n \in 0 .. m - 1 /\ g[n] = f[n]
          BY <2>2, <4>2
        <5>2. f[n] = IF n = 0 THEN first ELSE Turn(f[n - 1], repo)
          BY <2>3, <5>1
        <5>3. n # 0 => g[n - 1] = f[n - 1]
          BY <2>2, <4>2, <5>1
        <5> QED BY <5>1, <5>2, <5>3
      <4> QED BY <4>1, <4>2
    <3>2. g = [n \in 0 .. m |-> g[n]]
      OBVIOUS
    <3> HIDE DEF g, first
    <3>3. Run(g, m)
      BY <3>1, <3>2
    <3> QED BY <3>3
  <2> QED BY <2>2, <2>3
<1>2. Short = {}
  <2>1. SUFFICES ASSUME Short # {} PROVE FALSE
    OBVIOUS
  <2>2. Short \subseteq Nat
    OBVIOUS
  <2> HIDE DEF Short
  <2>3. PICK m \in Short : \A k \in Short : ~ (<<k, m>> \in OpToRel(<, Nat))
    BY <2>1, <2>2, NatLessThanWellFounded, WFMin
  <2> QED BY <1>1, <2>2, <2>3 DEF OpToRel
<1>3. \E f : Run(f, MaxTickets)
  BY <1>2, TicketAssumption
<1> DEFINE run == CHOOSE f : Run(f, MaxTickets)
<1>4. Run(run, MaxTickets)
  BY <1>3
<1>5. Promotion(busy, queue, repo) = run[MaxTickets]
  BY DEF Promotion
<1> HIDE DEF run, first
<1>6. run[0] = first /\ \A n \in 1 .. MaxTickets : run[n] = Turn(run[n - 1], repo)
  BY <1>4, TicketAssumption
<1> QED BY <1>5, <1>6 DEF first

(* From an ordered queue the loop starts well, and it stops in time.       *)
LEMMA PromotionIs ==
    ASSUME NEW busy, IsFiniteSet(busy), NEW queue \in SUBSET Ticket, NEW repo,
           \A t \in queue : repo[t] # NoRepository
    PROVE  LET end == Promotion(busy, queue, repo)
           IN  /\ end.granted \in SUBSET queue /\ Admits(busy, queue, repo, end.granted)
               /\ end.transferring = BusyAfter(busy, repo, end.granted)
               /\ end.waiting = Deque(queue \ end.granted)
<1>1. PICK run : /\ run[0] = Loop(1, Deque(queue), busy, {})
                 /\ \A n \in 1 .. MaxTickets : run[n] = Turn(run[n - 1], repo)
                 /\ Promotion(busy, queue, repo) = run[MaxTickets]
  BY LoopRuns
<1> DEFINE d == Deque(queue)
           c == Cardinality(queue)
           Good(n) == /\ LoopInv(run[n], busy, queue, repo)
                      /\ Stopped(run[n]) \/ Left(run[n]) <= MaxTickets - n
<1>2. c \in Nat /\ c <= MaxTickets
  <2>1. IsFiniteSet(Ticket) /\ Cardinality(Ticket) = MaxTickets
    <3>1. IsFiniteSet(0 .. MaxTickets - 1)
          /\ Cardinality(0 .. MaxTickets - 1) =
                IF 0 > MaxTickets - 1 THEN 0 ELSE MaxTickets - 1 - 0 + 1
      BY FS_Interval, TicketAssumption
    <3> QED BY <3>1, TicketAssumption DEF Ticket
  <2> QED BY <2>1, FS_Subset, FS_CardinalityType
<1>3. Ordered(d, queue)
  BY DequeExists DEF Deque, Ordered
<1>4. d \in Seq(queue) /\ Len(d) = c
  <2>1. d \in [1 .. c -> queue] /\ DOMAIN d = 1 .. c
    BY <1>3 DEF Ordered
  <2> HIDE DEF d, c
  <2>2. d \in Seq(queue)
    BY <1>2, <2>1, SeqDef
  <2>3. DOMAIN d = 1 .. Len(d) /\ Len(d) \in Nat
    BY <2>2, LenProperties
  <2> QED BY <1>2, <2>1, <2>2, <2>3
<1>5. LoopAt(1, d, {}, busy, queue, repo)
  <2>1. \A i, j \in 1 .. c : i < j => d[i] < d[j]
    BY <1>3 DEF Ordered
  <2>2. {d[k] : k \in 1 .. c} = queue \ {}
    <3>1. \A k \in 1 .. c : d[k] \in queue
      BY <1>3 DEF Ordered
    <3>2. \A u \in queue : \E k \in 1 .. c : d[k] = u
      BY <1>3, OrderedIsOnto
    <3> QED BY <3>1, <3>2
  <2>3. Seen(1, d, {}) = {}
    BY DEF Seen
  <2>4. Admits(busy, {}, repo, {})
    BY DEF Admits
  <2> HIDE DEF d, c
  <2>5. 1 \in 1 .. Len(d) + 1
    BY <1>2, <1>4
  <2>6. \A u \in {}, k \in 1 .. Len(d) : u < d[k]
    OBVIOUS
  <2>7. \A j, k \in 1 .. Len(d) : j < k => d[j] < d[k]
    BY <1>4, <2>1
  <2>8. {d[k] : k \in 1 .. Len(d)} = queue \ {}
    BY <1>4, <2>2
  <2>9. Admits(busy, Seen(1, d, {}), repo, {})
    BY <2>3, <2>4
  <2> QED BY ONLY <1>4, <2>5, <2>6, <2>7, <2>8, <2>9 DEF LoopAt
<1>6. Good(0)
  <2>1. /\ run[0].index = 1 /\ run[0].waiting = d /\ run[0].granted = {}
        /\ run[0].transferring = busy
    BY <1>1 DEF Loop
  <2>2. BusyAfter(busy, repo, {}) = busy
    BY DEF BusyAfter
  <2> HIDE DEF d, c
  <2> QED BY <1>2, <1>4, <1>5, <2>1, <2>2, TicketAssumption DEF LoopInv, Left
<1>7. ASSUME NEW n \in 1 .. MaxTickets, Good(n - 1) PROVE Good(n)
  <2>1. n \in Nat /\ n - 1 \in Nat /\ MaxTickets \in Nat
    BY TicketAssumption
  <2> DEFINE s == run[n - 1]
  <2>2. run[n] = Turn(s, repo) /\ LoopInv(s, busy, queue, repo)
        /\ (Stopped(s) \/ Left(s) <= MaxTickets - (n - 1))
    BY <1>1, <1>7
  <2> HIDE DEF s
  <2>3. CASE Stopped(s)
    <3>1. Turn(s, repo) = s
      BY <2>3 DEF Turn, Stopped
    <3> QED BY <2>2, <2>3, <3>1
  <2>4. CASE ~ Stopped(s)
    <3>1. LoopInv(run[n], busy, queue, repo) /\ Left(run[n]) = Left(s) - 1
      BY <2>2, <2>4, TurnKeeps
    <3>2. Left(s) \in Int
      BY <2>2, LenProperties DEF LoopInv, LoopAt, Left
    <3> QED BY <2>1, <2>2, <2>4, <3>1, <3>2
  <2> QED BY <2>3, <2>4
<1>8. \A n \in 0 .. MaxTickets : Good(n)
  <2> DEFINE Bad == {n \in 0 .. MaxTickets : ~ Good(n)}
  <2>1. SUFFICES ASSUME Bad # {} PROVE FALSE
    OBVIOUS
  <2>2. Bad \subseteq Nat
    BY TicketAssumption
  <2>3. ASSUME NEW n \in Bad PROVE n - 1 \in Bad /\ n - 1 < n
    <3> HIDE DEF Good
    <3>1. n # 0 /\ n \in 0 .. MaxTickets
      BY <1>6, <2>3
    <3>2. n \in 1 .. MaxTickets /\ n - 1 \in 0 .. MaxTickets
      BY <3>1, TicketAssumption
    <3> QED BY <1>7, <2>3, <3>2
  <2> HIDE DEF Bad
  <2>4. PICK n \in Bad : \A k \in Bad : ~ (<<k, n>> \in OpToRel(<, Nat))
    BY <2>1, <2>2, NatLessThanWellFounded, WFMin
  <2> QED BY <2>2, <2>3, <2>4 DEF OpToRel
<1>9. LoopInv(run[MaxTickets], busy, queue, repo) /\ Stopped(run[MaxTickets])
  <2>1. MaxTickets \in Nat /\ MaxTickets \in 0 .. MaxTickets
    BY TicketAssumption
  <2>2. Good(MaxTickets)
    BY <1>8, <2>1
  <2> DEFINE s == run[MaxTickets]
  <2>3. LoopInv(s, busy, queue, repo) /\ (Stopped(s) \/ Left(s) <= MaxTickets - MaxTickets)
    BY <2>2
  <2> HIDE DEF s
  <2>4. Len(s.waiting) \in Nat /\ s.index \in Int
    BY <2>3, LenProperties DEF LoopInv, LoopAt
  <2>5. Stopped(s)
    BY <2>1, <2>3, <2>4 DEF Left, Stopped
  <2> QED BY <2>3, <2>5 DEF s
<1> QED BY SMTT(60), <1>1, <1>9, LoopStops

(* The loop of promote, run a turn at a time over the deque, admits in     *)
(* every state of the gate what the equation asks for and nothing else,    *)
(* and leaves the slots and the queue that the actions give.               *)
THEOREM LoopIsThePromotion == Spec => []PromoteIsTheLoop
<1>1. GateInv => PromoteIsTheLoop
  <2> SUFFICES ASSUME GateInv, NEW busy \in SUBSET Repository, IsFiniteSet(busy)
               PROVE  LET end == Promotion(busy, waiting, repository_of)
                      IN  /\ \A A \in SUBSET waiting :
                                Admits(busy, waiting, repository_of, A) <=> A = end.granted
                          /\ end.transferring = BusyAfter(busy, repository_of, end.granted)
                          /\ end.waiting = Deque(waiting \ end.granted)
    BY DEF PromoteIsTheLoop
  <2>1. waiting \in SUBSET Ticket /\ \A t \in waiting : repository_of[t] # NoRepository
    BY RepositoryAssumption DEF GateInv, TypeOK, TicketsPlaced
  <2>2. PICK end : end = Promotion(busy, waiting, repository_of)
    OBVIOUS
  <2>3. /\ end.granted \in SUBSET waiting
        /\ Admits(busy, waiting, repository_of, end.granted)
        /\ end.transferring = BusyAfter(busy, repository_of, end.granted)
        /\ end.waiting = Deque(waiting \ end.granted)
    BY <2>1, <2>2, PromotionIs
  <2>4. ASSUME NEW A \in SUBSET waiting, Admits(busy, waiting, repository_of, A)
        PROVE  A = end.granted
    BY <2>1, <2>3, <2>4, PromotionIsDetermined
  <2> QED BY <2>2, <2>3, <2>4
<1> QED BY <1>1, GateInvariant, PTL
=============================================================================
