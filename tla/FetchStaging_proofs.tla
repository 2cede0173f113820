------------------------- MODULE FetchStaging_proofs -------------------------
(***************************************************************************)
(* Proofs about the staging directories, for any number of processes,      *)
(* directories, selections and faults, and any lease of at least two       *)
(* heartbeat intervals.                                                    *)
(*                                                                         *)
(* The argument is about names.  An owner works under a name that it has   *)
(* made itself, so that no two owners ever share one (OwnersApart).        *)
(* Anyone else learns a name by listing the temporary area and acts on it  *)
(* only if the lease was expired when it was read; while no renewal fails  *)
(* an owner's lease does not expire, so that nobody else ever acts on an   *)
(* owner's name (LeaseKept, Untouched).                                    *)
(***************************************************************************)
EXTENDS StagingListing, TLAPS

(* A preservation still writes under the name it has made.                 *)
Holding == Owning \cup {"expiring"}
(* Those who act on a name that they have listed.                          *)
Acting == {"claim", "rename", "preserve", "discard"}
(* The steps of an owner that rest on its heartbeat.                       *)
Beating == {"leased", "resolving", "transferring", "failed", "cancelled",
            "publishing", "cleaning", "dropping"}

(* This name is that of a directory in the temporary area.                *)
In(p) == p[1] \in Dir /\ place[p[1]] \in {"active", "abandoned"} /\ p[2] = name[p[1]]

Known(p) == p # NoPath => p[2] <= name[p[1]]

(* No name is held that has not been given yet.                            *)
NamesKnown ==
    /\ \A w \in Request : Known(at[w]) /\ \A p \in todo[w] : Known(p)
    /\ Known(removing.at)

(* A directory that is not in the temporary area has nothing left in it.   *)
AbsentIsEmpty ==
    \A d \in Dir : place[d] \in {"unused", "published"} =>
        lease[d] = NoLease /\ recorded[d] = None /\ ~ commit[d] /\ heart[d] = "none"

OwnersApart ==
    \A v, w \in Request :
        pc[v] \in Holding /\ pc[w] \in Holding /\ In(at[w]) /\ at[v] = at[w] => v = w

(* A heartbeat runs in the process that owns the directory, over a lease   *)
(* that has not expired.                                                   *)
HeartsTrue ==
    /\ \A d \in Dir : heart[d] # "none" => lease[d] # 0
    /\ \A w \in Request : In(at[w]) =>
        /\ pc[w] \in Owning /\ heart[Own(w)] # "none" => by[Own(w)] = w
        /\ pc[w] = "expiring" => heart[Own(w)] = "none"

(* While no renewal fails: an owner's lease is absent, or live and kept    *)
(* so; and nobody acts on its name.                                        *)
LeaseKept(w) ==
    pc[w] \in Holding /\ In(at[w]) =>
        \/ lease[Own(w)] = NoLease
        \/ /\ lease[Own(w)] > 0
           /\ heart[Own(w)] # "none" \/ pc[w] \in {"claimed", "sealed", "expiring"}

Untouched(w) ==
    pc[w] \in Holding /\ In(at[w]) =>
        \A v \in Request : pc[v] \in Acting => at[v] # at[w]

ActingTrue(w) ==
    /\ pc[w] = "rename" /\ In(at[w]) => lease[Own(w)] # 0
    /\ pc[w] = "discard" /\ In(at[w]) => ~ commit[Own(w)]

OwnersSafe == missed = 0 => \A w \in Request : LeaseKept(w) /\ Untouched(w) /\ ActingTrue(w)

(* And while no operator removes anything either, an owner's directory is  *)
(* there, with its lease from MakeLease to PublishUnlease and with its     *)
(* heartbeat for as long as it rests on it.                                *)
OwnerPresent(w) ==
    /\ pc[w] \in Owning => /\ In(at[w])
                           /\ lease[Own(w)] # NoLease \/ pc[w] \in {"made", "leaseless"}
                           /\ pc[w] \in Beating => heart[Own(w)] # "none"
    /\ pc[w] = "rename" /\ In(at[w]) => lease[Own(w)] # NoLease

NothingRemoved ==
    /\ removals = 0 => removing.step = "none"
    /\ removals = 0 /\ missed = 0 => \A w \in Request : OwnerPresent(w)

(* An acquisition that is not admitted yet has been counted on.            *)
AdmissionLeft == \A w \in Request : pc[w] \in Seeking => admitted[w] < MaxAdmitted

StagingInv ==
    /\ TypeOK /\ AdmissionLeft /\ NamesKnown /\ AbsentIsEmpty /\ OwnersApart /\ HeartsTrue
    /\ OwnersSafe /\ NothingRemoved

-----------------------------------------------------------------------------
LEMMA PresentIsIn ==
  ASSUME NEW p \in Path \cup {NoPath}
  PROVE  Present(p) <=> In(p)
<1>1. p = <<p[1], p[2]>>
  BY DEF Path, NoPath
<1> QED
  BY <1>1 DEF Present, Entries, In

LEMMA HereIsIn ==
  ASSUME TypeOK
  PROVE  \A v \in Request : Here(v) <=> In(at[v])
BY PresentIsIn DEF TypeOK, Here

(* A directory has one name at a time.                                     *)
LEMMA OneName ==
  \A p, q \in Path \cup {NoPath} : In(p) /\ In(q) /\ p[1] = q[1] => p = q
BY DEF In, Path, NoPath

(* A renamed directory has a name that nobody holds, and has lost the one  *)
(* it had.                                                                 *)
LEMMA FreshName ==
  ASSUME TypeOK, NEW d \in Dir, NEW kind, name' = [name EXCEPT ![d] = @ + 1],
         place' = [place EXCEPT ![d] = kind], NEW p \in Path \cup {NoPath}, Known(p)
  PROVE  p # <<d, name[d] + 1>> /\ Known(p)' /\ (In(p)' => In(p) /\ p[1] # d)
<1>1. name[d] \in Nat /\ name'[d] = name[d] + 1 /\ \A e \in Dir \ {d} : name'[e] = name[e]
  BY DEF TypeOK
<1>2. \A e \in Dir \ {d} : place'[e] = place[e]
  BY DEF TypeOK
<1>3. CASE p = NoPath
  BY <1>1, <1>2, <1>3 DEF Known, In, NoPath
<1>4. CASE p \in Path
  BY <1>1, <1>2, <1>4 DEF Known, In, Path, TypeOK, NoPath
<1> QED
  BY <1>3, <1>4

(* What a step leaves of a directory is of its type.                       *)
DirectoriesOK ==
    /\ place \in [Dir -> {"unused", "active", "abandoned", "published"}]
    /\ name \in [Dir -> Nat]
    /\ recorded \in [Dir -> Selection \cup {None}]
    /\ commit \in [Dir -> BOOLEAN]
    /\ lease \in [Dir -> -1 .. Lease]
    /\ heart \in [Dir -> {"none", "asleep", "writing"}]
    /\ by \in [Dir -> Request \cup {None}]

LEMMA VanishesTyped ==
  ASSUME TypeOK, NEW d, NEW kind \in {"unused", "active", "abandoned", "published"},
         Vanishes(d, kind)
  PROVE  DirectoriesOK'
<1> USE DEF Vanishes, SetLease, Silenced
<1>1. /\ place' \in [Dir -> {"unused", "active", "abandoned", "published"}]
      /\ name' \in [Dir -> Nat]
  BY DEF TypeOK
<1>2. recorded' \in [Dir -> Selection \cup {None}]
  BY DEF TypeOK
<1>3. commit' \in [Dir -> BOOLEAN]
  BY DEF TypeOK
<1>4. lease' \in [Dir -> -1 .. Lease]
  <2>1. -1 \in -1 .. Lease
    BY LeaseAssumption
  <2> QED
    BY <2>1 DEF TypeOK, NoLease
<1>5. heart' \in [Dir -> {"none", "asleep", "writing"}] /\ by' \in [Dir -> Request \cup {None}]
  BY DEF TypeOK
<1> QED
  BY <1>1, <1>2, <1>3, <1>4, <1>5 DEF DirectoriesOK

LEMMA RenamedTyped ==
  ASSUME TypeOK, NEW d, NEW kind \in {"active", "abandoned"}, Renamed(d, kind),
         UNCHANGED <<recorded, commit, lease>>
  PROVE  DirectoriesOK'
<1> USE DEF Renamed, Silenced
<1>1. place' \in [Dir -> {"unused", "active", "abandoned", "published"}]
  BY DEF TypeOK
<1>2. name' \in [Dir -> Nat]
  <2>1. ASSUME NEW e \in Dir PROVE name'[e] \in Nat
    BY DEF TypeOK
  <2>2. name' = [e \in Dir |-> name'[e]]
    BY DEF TypeOK
  <2> QED
    BY <2>1, <2>2
<1>3. heart' \in [Dir -> {"none", "asleep", "writing"}] /\ by' \in [Dir -> Request \cup {None}]
  BY DEF TypeOK
<1> QED
  BY <1>1, <1>2, <1>3 DEF DirectoriesOK, TypeOK

(* A step that gives nobody a directory it did not have, and sets nobody   *)
(* on a name, leaves owners untouched.                                     *)
LEMMA StillUntouched ==
  ASSUME \A v \in Request : Untouched(v),
         \A v \in Request : pc'[v] \in Holding /\ In(at[v])' =>
            pc[v] \in Holding /\ In(at[v]) /\ at'[v] = at[v],
         \A v \in Request : pc'[v] \in Acting => pc[v] \in Acting /\ at'[v] = at[v]
  PROVE  \A v \in Request : Untouched(v)'
BY DEF Untouched

(* Heartbeats, when a directory vanishes and when nothing happens to any,  *)
(* while nobody gets a directory it did not have.                          *)
LEMMA HeartsStill ==
  ASSUME HeartsTrue, UNCHANGED directories,
         \A v \in Request : pc'[v] \in Holding => pc'[v] = pc[v] /\ at'[v] = at[v]
  PROVE  HeartsTrue'
BY DEF HeartsTrue, directories, Holding, In, Own

LEMMA HeartsVanish ==
  ASSUME TypeOK, HeartsTrue, NEW d \in Dir, NEW kind, Vanishes(d, kind),
         \A v \in Request : pc'[v] \in Holding => pc'[v] = pc[v] /\ at'[v] = at[v]
  PROVE  HeartsTrue'
<1>1. \A e \in Dir : heart'[e] # "none" =>
         e # d /\ heart'[e] = heart[e] /\ lease'[e] = lease[e] /\ by'[e] = by[e]
  BY DEF TypeOK, Vanishes, SetLease, Silenced
<1>2. \A p : In(p)' => p[1] \in Dir /\ (p[1] # d => In(p))
  BY DEF TypeOK, Vanishes, In
<1>3. ASSUME NEW v \in Request, In(at[v])', heart'[at'[v][1]] # "none", pc'[v] \in Holding
      PROVE  In(at[v]) /\ pc'[v] = pc[v] /\ at'[v] = at[v]
  BY <1>1, <1>2, <1>3
<1>4. \A e \in Dir : heart'[e] # "none" => lease'[e] # 0
  BY <1>1 DEF HeartsTrue
<1>5. ASSUME NEW v \in Request, In(at[v])', heart'[at'[v][1]] # "none", pc'[v] \in Holding
      PROVE  /\ pc'[v] \in Owning => by'[at'[v][1]] = v
             /\ pc'[v] # "expiring"
  BY <1>1, <1>2, <1>3, <1>5 DEF HeartsTrue, Own
<1> QED
  BY <1>4, <1>5 DEF HeartsTrue, Holding, Own

(* A request that goes on undisturbed: neither its step nor its path nor   *)
(* what its directory holds changes.                                       *)
Unmoved(v) ==
    /\ pc'[v] = pc[v] /\ at'[v] = at[v] /\ In(at[v]) /\ In(at[v])'
    /\ lease'[Own(v)] = lease[Own(v)] /\ commit'[Own(v)] = commit[Own(v)]
    /\ heart'[Own(v)] = heart[Own(v)] /\ by'[Own(v)] = by[Own(v)]

LEMMA LeaseStays ==
  ASSUME NEW v \in Request, LeaseKept(v), ActingTrue(v),
         pc'[v] \in Holding \cup Acting /\ In(at[v])' => Unmoved(v)
  PROVE  LeaseKept(v)' /\ ActingTrue(v)'
BY DEF LeaseKept, ActingTrue, Unmoved, Holding, Acting, Own

LEMMA OwnerStays ==
  ASSUME NEW v \in Request, OwnerPresent(v),
         pc'[v] \in Owning \cup {"rename"} => pc'[v] = pc[v] /\ at'[v] = at[v],
         pc'[v] \in Owning /\ In(at[v]) => Unmoved(v),
         pc'[v] = "rename" /\ In(at[v])' => Unmoved(v)
  PROVE  OwnerPresent(v)'
BY DEF OwnerPresent, Unmoved, Own

LEMMA InitInv == Init => StagingInv
<1> SUFFICES ASSUME Init PROVE StagingInv
  OBVIOUS
<1> USE DEF Init
<1>1. TypeOK
  <2>1. /\ place \in [Dir -> {"unused", "active", "abandoned", "published"}]
        /\ recorded \in [Dir -> Selection \cup {None}]
        /\ commit \in [Dir -> BOOLEAN]
        /\ crashes \in {0, 1}
    BY ZenonT(60)
  <2>2. lease \in [Dir -> -1 .. Lease]
    BY LeaseAssumption DEF NoLease
  <2> QED
    BY <2>1, <2>2, SelectionAssumption, BoundsAssumption
       DEF TypeOK, Step, NoPath, NotRemoving
<1>2. NamesKnown
  BY DEF NamesKnown, Known, NotRemoving
<1>3. AbsentIsEmpty
  BY DEF AbsentIsEmpty
<1>4. OwnersApart /\ HeartsTrue
  BY DEF OwnersApart, HeartsTrue, Holding, Owning
<1>5. OwnersSafe /\ NothingRemoved
  BY DEF OwnersSafe, NothingRemoved, LeaseKept, Untouched, ActingTrue, OwnerPresent, Acting,
     Holding, Owning, NotRemoving
<1>6. AdmissionLeft
  BY DEF AdmissionLeft, Seeking
<1> QED
  BY <1>1, <1>2, <1>3, <1>4, <1>5, <1>6 DEF StagingInv

(* Start keeps the invariant.                                              *)
LEMMA StartKeeps ==
  ASSUME StagingInv, NEW w \in Request, Start(w)
  PROVE  StagingInv'
<1> USE DEF Start, Own, Goto, Entries, Keep, Still, directories
<1>0. \A v \in Request : Here(v) <=> In(at[v])
  BY HereIsIn DEF StagingInv
<1>1. TypeOK'
  BY <1>0, SelectionAssumption, LeaseAssumption, BoundsAssumption DEF StagingInv, TypeOK, Step,
     faults, FaultsLeft, NoLease, Path, NoPath, NotRemoving
<1>2. NamesKnown'
  BY <1>0 DEF StagingInv, TypeOK, NamesKnown, Known, Path, NoPath, NotRemoving
<1>3. AbsentIsEmpty'
  BY <1>0 DEF StagingInv, TypeOK, AbsentIsEmpty, In, NoLease, faults
<1>4. OwnersApart'
  BY <1>0 DEF StagingInv, TypeOK, NamesKnown, Known, OwnersApart, Holding, Owning, In, Path,
     NoPath, faults
<1>5. HeartsTrue'
  BY <1>0, LeaseAssumption DEF StagingInv, TypeOK, OwnersApart, AbsentIsEmpty, NamesKnown, Known,
     HeartsTrue, Holding, Owning, In, Path, NoPath, NoLease, faults
<1>6. ASSUME missed' = 0, NEW v \in Request
      PROVE  LeaseKept(v)'
  BY <1>0, <1>6, LeaseAssumption DEF StagingInv, TypeOK, NamesKnown, Known, OwnersApart,
     OwnersSafe, LeaseKept, Untouched, ActingTrue, Holding, Acting, Owning, In, Path, NoPath,
     NoLease, faults
<1>7. ASSUME missed' = 0, NEW v \in Request
      PROVE  Untouched(v)'
  BY <1>0, <1>7 DEF StagingInv, TypeOK, NamesKnown, Known, OwnersApart, OwnersSafe, LeaseKept,
     Untouched, Holding, Acting, Owning, In, Path, NoPath, NoLease, faults
<1>8. ASSUME missed' = 0, NEW v \in Request
      PROVE  ActingTrue(v)'
  BY <1>0, <1>8 DEF StagingInv, TypeOK, OwnersSafe, Untouched, ActingTrue, Holding, Acting,
     Owning, In, Path, NoPath, NoLease, faults
<1>9. NothingRemoved'
  BY <1>0, LeaseAssumption DEF StagingInv, TypeOK, NamesKnown, Known, OwnersApart, OwnersSafe,
     LeaseKept, Untouched, ActingTrue, NothingRemoved, OwnerPresent, HeartsTrue, Beating,
     Holding, Acting, Owning, In, Path, NoPath, NoLease, NotRemoving, faults
<1>10. AdmissionLeft'
  BY <1>0, BoundsAssumption DEF StagingInv, TypeOK, AdmissionLeft, Seeking
<1> QED
  BY <1>1, <1>2, <1>3, <1>4, <1>5, <1>6, <1>7, <1>8, <1>9, <1>10 DEF StagingInv, OwnersSafe

(* RecoverEntry keeps the invariant.                                       *)
LEMMA RecoverEntryKeeps ==
  ASSUME StagingInv, NEW w \in Request, NEW p \in todo[w], RecoverEntry(w, p)
  PROVE  StagingInv'
<1> USE DEF RecoverEntry, Own, Goto, Keep, Still, directories
<1>0. \A v \in Request : Here(v) <=> In(at[v])
  BY HereIsIn DEF StagingInv
<1>1. TypeOK'
  <2>1. /\ place' \in [Dir -> {"unused", "active", "abandoned", "published"}]
        /\ name' \in [Dir -> Nat] /\ recorded' \in [Dir -> Selection \cup {None}]
        /\ commit' \in [Dir -> BOOLEAN] /\ lease' \in [Dir -> -1 .. Lease]
        /\ heart' \in [Dir -> {"none", "asleep", "writing"}]
        /\ by' \in [Dir -> Request \cup {None}]
    BY SelectionAssumption, LeaseAssumption DEF StagingInv, TypeOK, NoLease
  <2>2. /\ pc' \in [Request -> Step] /\ at' \in [Request -> Path \cup {NoPath}]
        /\ wants' \in [Request -> Selection] /\ loop' \in [Request -> {"abandoned", "active"}]
        /\ todo' \in [Request -> SUBSET Path] /\ admitted' \in [Request -> 0 .. MaxAdmitted]
    BY SelectionAssumption, BoundsAssumption DEF StagingInv, TypeOK, Step
  <2>3. /\ removing' \in [step : {"none", "checked", "deleting"}, at : Path \cup {NoPath}]
        /\ {crashes, removals, failures, missed}' \subseteq 0 .. MaxFaults
    BY DEF StagingInv, TypeOK, NotRemoving, faults
  <2> QED
    BY <2>1, <2>2, <2>3 DEF TypeOK
<1>2. NamesKnown'
  BY <1>0 DEF StagingInv, TypeOK, NamesKnown, Known, Path, NoPath, NotRemoving
<1>3. AbsentIsEmpty'
  BY <1>0 DEF StagingInv, TypeOK, AbsentIsEmpty, In, NoLease, faults
<1>4. OwnersApart'
  BY SMTT(60), <1>0 DEF StagingInv, TypeOK, NamesKnown, Known, OwnersApart, Holding, Owning, In,
     Path, NoPath, faults
<1>5. HeartsTrue'
  BY <1>0, LeaseAssumption DEF StagingInv, TypeOK, OwnersApart, AbsentIsEmpty, NamesKnown, Known,
     HeartsTrue, Holding, Owning, In, Path, NoPath, NoLease, faults
<1>6. ASSUME missed' = 0, NEW v \in Request
      PROVE  LeaseKept(v)'
  BY SMTT(60), <1>0, <1>6, LeaseAssumption DEF StagingInv, TypeOK, NamesKnown, Known,
     OwnersApart, OwnersSafe, LeaseKept, Untouched, ActingTrue, Holding, Acting, Owning, In,
     Path, NoPath, NoLease, faults
<1>7. ASSUME missed' = 0, NEW v \in Request
      PROVE  Untouched(v)'
  BY SMTT(60), <1>0, <1>7 DEF StagingInv, TypeOK, NamesKnown, Known, OwnersApart, OwnersSafe,
     LeaseKept, Untouched, Holding, Acting, Owning, In, Path, NoPath, NoLease, faults
<1>8. ASSUME missed' = 0, NEW v \in Request
      PROVE  ActingTrue(v)'
  BY <1>0, <1>8 DEF StagingInv, TypeOK, OwnersSafe, Untouched, ActingTrue, Holding, Acting,
     Owning, In, Path, NoPath, NoLease, faults
<1>9. NothingRemoved'
  BY <1>0, LeaseAssumption DEF StagingInv, TypeOK, NamesKnown, Known, OwnersApart, OwnersSafe,
     LeaseKept, Untouched, ActingTrue, NothingRemoved, OwnerPresent, HeartsTrue, Beating,
     Holding, Acting, Owning, In, Path, NoPath, NoLease, NotRemoving, faults
<1>10. AdmissionLeft'
  BY <1>0, BoundsAssumption DEF StagingInv, TypeOK, AdmissionLeft, Seeking
<1> QED
  BY <1>1, <1>2, <1>3, <1>4, <1>5, <1>6, <1>7, <1>8, <1>9, <1>10 DEF StagingInv, OwnersSafe

(* RecoverPreserve keeps the invariant.                                    *)
LEMMA RecoverPreserveKeeps ==
  ASSUME StagingInv, NEW w \in Request, RecoverPreserve(w)
  PROVE  StagingInv'
<1> USE DEF RecoverPreserve, Own, Goto, Renamed, Silenced, Keep, Still
<1>0. \A v \in Request : Here(v) <=> In(at[v])
  BY HereIsIn DEF StagingInv
<1>b. \A u, v \in Request : In(at[u]) /\ In(at[v]) /\ Own(u) = Own(v) => at[u] = at[v]
  BY OneName DEF StagingInv, TypeOK
<1>c. \A v \in Request : Present(at[v]) <=> Here(v)
  BY DEF Here
<1>d. In(at[w]) => Own(w) \in Dir /\ name[Own(w)] \in Nat /\ <<Own(w), name[Own(w)] + 1>> \in Path
  BY DEF In, Path, StagingInv, TypeOK
<1>e. Here(w) =>
      \A v \in Request : \A p \in {at[v], removing.at} \cup todo[v] :
          p # <<Own(w), name[Own(w)] + 1>> /\ Known(p)' /\ (In(p)' => In(p) /\ p[1] # Own(w))
  <2> SUFFICES ASSUME Here(w), NEW v \in Request, NEW p \in {at[v], removing.at} \cup todo[v]
               PROVE  p # <<Own(w), name[Own(w)] + 1>> /\ Known(p)' /\ (In(p)' => In(p) /\ p[1] # Own(w))
    OBVIOUS
  <2>1. Known(p) /\ p \in Path \cup {NoPath}
    BY DEF StagingInv, TypeOK, NamesKnown
  <2> QED
    BY <1>0, <1>d, <2>1, FreshName DEF StagingInv
<1>1. TypeOK'
  <2>1. /\ place' \in [Dir -> {"unused", "active", "abandoned", "published"}]
        /\ name' \in [Dir -> Nat] /\ recorded' \in [Dir -> Selection \cup {None}]
        /\ commit' \in [Dir -> BOOLEAN] /\ lease' \in [Dir -> -1 .. Lease]
        /\ heart' \in [Dir -> {"none", "asleep", "writing"}]
        /\ by' \in [Dir -> Request \cup {None}]
    BY SMTT(60), SelectionAssumption, LeaseAssumption DEF StagingInv, TypeOK, NoLease
  <2>2. /\ pc' \in [Request -> Step] /\ at' \in [Request -> Path \cup {NoPath}]
        /\ wants' \in [Request -> Selection] /\ loop' \in [Request -> {"abandoned", "active"}]
        /\ todo' \in [Request -> SUBSET Path] /\ admitted' \in [Request -> 0 .. MaxAdmitted]
    BY SelectionAssumption, BoundsAssumption, <1>d DEF StagingInv, TypeOK, Step
  <2>3. /\ removing' \in [step : {"none", "checked", "deleting"}, at : Path \cup {NoPath}]
        /\ {crashes, removals, failures, missed}' \subseteq 0 .. MaxFaults
    BY DEF StagingInv, TypeOK, NotRemoving, faults
  <2> QED
    BY <2>1, <2>2, <2>3 DEF TypeOK
<1>2. NamesKnown'
  BY <1>0, <1>b, <1>c, <1>d, LeaseAssumption, <1>e DEF StagingInv, TypeOK, NamesKnown, Known,
     Path, NoPath, NotRemoving
<1>3. AbsentIsEmpty'
  BY <1>0 DEF StagingInv, TypeOK, AbsentIsEmpty, In, NoLease, faults
<1>4. OwnersApart'
  BY <1>0, <1>b, <1>c, <1>d, LeaseAssumption, <1>e DEF StagingInv, TypeOK, NamesKnown, Known,
     OwnersApart, Holding, Owning, In, Path, NoPath, faults
<1>5. HeartsTrue'
  BY <1>0, <1>b, <1>c, <1>d, LeaseAssumption, <1>e DEF StagingInv, TypeOK, OwnersApart,
     AbsentIsEmpty, NamesKnown, Known, HeartsTrue, Holding, Owning, In, Path, NoPath, NoLease,
     faults
<1>6. ASSUME missed' = 0, NEW v \in Request
      PROVE  LeaseKept(v)'
  BY <1>0, <1>b, <1>c, <1>d, <1>6, LeaseAssumption, <1>e DEF StagingInv, TypeOK, NamesKnown,
     Known, OwnersApart, OwnersSafe, LeaseKept, Untouched, ActingTrue, Holding, Acting, Owning,
     In, Path, NoPath, NoLease, faults
<1>7. ASSUME missed' = 0, NEW v \in Request
      PROVE  Untouched(v)'
  BY SMTT(60), <1>0, <1>b, <1>c, <1>d, <1>7, LeaseAssumption, <1>e DEF StagingInv, TypeOK,
     NamesKnown, Known, OwnersApart, OwnersSafe, LeaseKept, Untouched, Holding, Acting, Owning,
     In, Path, NoPath, NoLease, faults
<1>8. ASSUME missed' = 0, NEW v \in Request
      PROVE  ActingTrue(v)'
  BY <1>0, <1>b, <1>c, <1>d, <1>8, LeaseAssumption, <1>e DEF StagingInv, TypeOK, OwnersSafe,
     Untouched, ActingTrue, Holding, Acting, Owning, In, Path, NoPath, NoLease, faults
<1>9. NothingRemoved'
  BY <1>0, <1>b, <1>c, <1>d, LeaseAssumption, <1>e DEF StagingInv, TypeOK, NamesKnown, Known,
     OwnersApart, OwnersSafe, LeaseKept, Untouched, ActingTrue, NothingRemoved, OwnerPresent,
     HeartsTrue, Beating, Holding, Acting, Owning, In, Path, NoPath, NoLease, NotRemoving, faults
<1>10. AdmissionLeft'
  BY <1>0, BoundsAssumption DEF StagingInv, TypeOK, AdmissionLeft, Seeking
<1> QED
  BY <1>1, <1>2, <1>3, <1>4, <1>5, <1>6, <1>7, <1>8, <1>9, <1>10 DEF StagingInv, OwnersSafe

(* RecoverDiscard keeps the invariant.                                     *)
LEMMA RecoverDiscardKeeps ==
  ASSUME StagingInv, NEW w \in Request, RecoverDiscard(w)
  PROVE  StagingInv'
<1> USE DEF RecoverDiscard, Own, Goto, RemoveAll, Vanishes, SetLease, Silenced, Keep, Still,
   directories
<1>0. \A v \in Request : Here(v) <=> In(at[v])
  BY HereIsIn DEF StagingInv
<1>b. \A u, v \in Request : In(at[u]) /\ In(at[v]) /\ Own(u) = Own(v) => at[u] = at[v]
  BY OneName DEF StagingInv, TypeOK
<1>c. \A v \in Request : Present(at[v]) <=> Here(v)
  BY DEF Here
<1>1. TypeOK'
  <2>1. DirectoriesOK'
    BY VanishesTyped DEF DirectoriesOK, StagingInv, TypeOK
  <2>2. /\ pc' \in [Request -> Step] /\ at' \in [Request -> Path \cup {NoPath}]
        /\ wants' \in [Request -> Selection] /\ loop' \in [Request -> {"abandoned", "active"}]
        /\ todo' \in [Request -> SUBSET Path] /\ admitted' \in [Request -> 0 .. MaxAdmitted]
    BY SelectionAssumption, BoundsAssumption DEF StagingInv, TypeOK, Step
  <2>3. /\ removing' \in [step : {"none", "checked", "deleting"}, at : Path \cup {NoPath}]
        /\ {crashes, removals, failures, missed}' \subseteq 0 .. MaxFaults
    BY DEF StagingInv, TypeOK, NotRemoving, faults
  <2> QED
    BY <2>1, <2>2, <2>3 DEF TypeOK, DirectoriesOK
<1>2. NamesKnown'
  BY <1>0 DEF StagingInv, TypeOK, NamesKnown, Known, Path, NoPath, NotRemoving
<1>3. AbsentIsEmpty'
  BY <1>0 DEF StagingInv, TypeOK, AbsentIsEmpty, In, NoLease, faults
<1>4. OwnersApart'
  BY <1>0 DEF StagingInv, TypeOK, NamesKnown, Known, OwnersApart, Holding, Owning, In, Path,
     NoPath, faults
<1>5. HeartsTrue'
  <2>1. \A v \in Request : pc'[v] \in Holding => pc'[v] = pc[v] /\ at'[v] = at[v]
    BY DEF StagingInv, TypeOK, Holding, Owning
  <2>2. CASE UNCHANGED directories
    BY <2>1, <2>2, HeartsStill DEF StagingInv
  <2>3. CASE ~ UNCHANGED directories
    <3>1. Own(w) \in Dir
      BY <1>0, <1>c, <2>3 DEF In
    <3> QED
      BY <1>0, <1>c, <2>1, <2>3, <3>1, HeartsVanish DEF StagingInv
  <2> QED
    BY <2>2, <2>3
<1>6. ASSUME missed' = 0, NEW v \in Request
      PROVE  LeaseKept(v)'
  BY SMTT(60), <1>0, <1>6, LeaseAssumption DEF StagingInv, TypeOK, NamesKnown, Known,
     OwnersApart, OwnersSafe, LeaseKept, Untouched, ActingTrue, Holding, Acting, Owning, In,
     Path, NoPath, NoLease, faults
<1>7. ASSUME missed' = 0, NEW v \in Request
      PROVE  Untouched(v)'
  BY <1>0, <1>7 DEF StagingInv, TypeOK, NamesKnown, Known, OwnersApart, OwnersSafe, LeaseKept,
     Untouched, Holding, Acting, Owning, In, Path, NoPath, NoLease, faults
<1>8. ASSUME missed' = 0, NEW v \in Request
      PROVE  ActingTrue(v)'
  BY <1>0, <1>8 DEF StagingInv, TypeOK, OwnersSafe, Untouched, ActingTrue, Holding, Acting,
     Owning, In, Path, NoPath, NoLease, faults
<1>9. NothingRemoved'
  BY <1>0, <1>b, <1>c, LeaseAssumption DEF StagingInv, TypeOK, NamesKnown, Known, OwnersApart,
     OwnersSafe, LeaseKept, Untouched, ActingTrue, NothingRemoved, OwnerPresent, HeartsTrue,
     Beating, Holding, Acting, Owning, In, Path, NoPath, NoLease, NotRemoving, faults
<1>10. AdmissionLeft'
  BY <1>0, BoundsAssumption DEF StagingInv, TypeOK, AdmissionLeft, Seeking
<1> QED
  BY <1>1, <1>2, <1>3, <1>4, <1>5, <1>6, <1>7, <1>8, <1>9, <1>10 DEF StagingInv, OwnersSafe

(* RecoverDone keeps the invariant.                                        *)
LEMMA RecoverDoneKeeps ==
  ASSUME StagingInv, NEW w \in Request, RecoverDone(w)
  PROVE  StagingInv'
<1> USE DEF RecoverDone, Own, Goto, Keep, Still, directories
<1>0. \A v \in Request : Here(v) <=> In(at[v])
  BY HereIsIn DEF StagingInv
<1>1. TypeOK'
  BY <1>0, SelectionAssumption, LeaseAssumption, BoundsAssumption DEF StagingInv, TypeOK, Step,
     faults, FaultsLeft, NoLease, Path, NoPath, NotRemoving
<1>2. NamesKnown'
  BY <1>0 DEF StagingInv, TypeOK, NamesKnown, Known, Path, NoPath, NotRemoving
<1>3. AbsentIsEmpty'
  BY <1>0 DEF StagingInv, TypeOK, AbsentIsEmpty, In, NoLease, faults
<1>4. OwnersApart'
  BY <1>0 DEF StagingInv, TypeOK, NamesKnown, Known, OwnersApart, Holding, Owning, In, Path,
     NoPath, faults
<1>5. HeartsTrue'
  BY <1>0, LeaseAssumption DEF StagingInv, TypeOK, OwnersApart, AbsentIsEmpty, NamesKnown, Known,
     HeartsTrue, Holding, Owning, In, Path, NoPath, NoLease, faults
<1>6. ASSUME missed' = 0, NEW v \in Request
      PROVE  LeaseKept(v)'
  BY <1>0, <1>6, LeaseAssumption DEF StagingInv, TypeOK, NamesKnown, Known, OwnersApart,
     OwnersSafe, LeaseKept, Untouched, ActingTrue, Holding, Acting, Owning, In, Path, NoPath,
     NoLease, faults
<1>7. ASSUME missed' = 0, NEW v \in Request
      PROVE  Untouched(v)'
  BY <1>0, <1>7 DEF StagingInv, TypeOK, NamesKnown, Known, OwnersApart, OwnersSafe, LeaseKept,
     Untouched, Holding, Acting, Owning, In, Path, NoPath, NoLease, faults
<1>8. ASSUME missed' = 0, NEW v \in Request
      PROVE  ActingTrue(v)'
  BY <1>0, <1>8 DEF StagingInv, TypeOK, OwnersSafe, Untouched, ActingTrue, Holding, Acting,
     Owning, In, Path, NoPath, NoLease, faults
<1>9. NothingRemoved'
  BY <1>0, LeaseAssumption DEF StagingInv, TypeOK, NamesKnown, Known, OwnersApart, OwnersSafe,
     LeaseKept, Untouched, ActingTrue, NothingRemoved, OwnerPresent, HeartsTrue, Beating,
     Holding, Acting, Owning, In, Path, NoPath, NoLease, NotRemoving, faults
<1>10. AdmissionLeft'
  BY <1>0, BoundsAssumption DEF StagingInv, TypeOK, AdmissionLeft, Seeking
<1> QED
  BY <1>1, <1>2, <1>3, <1>4, <1>5, <1>6, <1>7, <1>8, <1>9, <1>10 DEF StagingInv, OwnersSafe

(* Ask keeps the invariant.                                                *)
LEMMA AskKeeps ==
  ASSUME StagingInv, NEW w \in Request, NEW s \in Selection, Ask(w, s)
  PROVE  StagingInv'
<1> USE DEF Ask, Own, Look, Goto, Entries, Still, directories
<1>0. \A v \in Request : Here(v) <=> In(at[v])
  BY HereIsIn DEF StagingInv
<1>1. TypeOK'
  BY <1>0, SelectionAssumption, LeaseAssumption, BoundsAssumption DEF StagingInv, TypeOK, Step,
     faults, FaultsLeft, NoLease, Path, NoPath, NotRemoving
<1>2. NamesKnown'
  BY <1>0 DEF StagingInv, TypeOK, NamesKnown, Known, Path, NoPath, NotRemoving
<1>3. AbsentIsEmpty'
  BY <1>0 DEF StagingInv, TypeOK, AbsentIsEmpty, In, NoLease, faults
<1>4. OwnersApart'
  BY <1>0 DEF StagingInv, TypeOK, NamesKnown, Known, OwnersApart, Holding, Owning, In, Path,
     NoPath, faults
<1>5. HeartsTrue'
  BY <1>0, LeaseAssumption DEF StagingInv, TypeOK, OwnersApart, AbsentIsEmpty, NamesKnown, Known,
     HeartsTrue, Holding, Owning, In, Path, NoPath, NoLease, faults
<1>6. ASSUME missed' = 0, NEW v \in Request
      PROVE  LeaseKept(v)'
  BY <1>0, <1>6, LeaseAssumption DEF StagingInv, TypeOK, NamesKnown, Known, OwnersApart,
     OwnersSafe, LeaseKept, Untouched, ActingTrue, Holding, Acting, Owning, In, Path, NoPath,
     NoLease, faults
<1>7. ASSUME missed' = 0, NEW v \in Request
      PROVE  Untouched(v)'
  BY <1>0, <1>7 DEF StagingInv, TypeOK, NamesKnown, Known, OwnersApart, OwnersSafe, LeaseKept,
     Untouched, Holding, Acting, Owning, In, Path, NoPath, NoLease, faults
<1>8. ASSUME missed' = 0, NEW v \in Request
      PROVE  ActingTrue(v)'
  BY <1>0, <1>8 DEF StagingInv, TypeOK, OwnersSafe, Untouched, ActingTrue, Holding, Acting,
     Owning, In, Path, NoPath, NoLease, faults
<1>9. NothingRemoved'
  BY <1>0, LeaseAssumption DEF StagingInv, TypeOK, NamesKnown, Known, OwnersApart, OwnersSafe,
     LeaseKept, Untouched, ActingTrue, NothingRemoved, OwnerPresent, HeartsTrue, Beating,
     Holding, Acting, Owning, In, Path, NoPath, NoLease, NotRemoving, faults
<1>10. AdmissionLeft'
  BY <1>0, BoundsAssumption DEF StagingInv, TypeOK, AdmissionLeft, Seeking
<1> QED
  BY <1>1, <1>2, <1>3, <1>4, <1>5, <1>6, <1>7, <1>8, <1>9, <1>10 DEF StagingInv, OwnersSafe

(* Retry keeps the invariant.                                              *)
LEMMA RetryKeeps ==
  ASSUME StagingInv, NEW w \in Request, Retry(w)
  PROVE  StagingInv'
<1> USE DEF Retry, Own, Look, Goto, Entries, Still, directories
<1>0. \A v \in Request : Here(v) <=> In(at[v])
  BY HereIsIn DEF StagingInv
<1>1. TypeOK'
  BY <1>0, SelectionAssumption, LeaseAssumption, BoundsAssumption DEF StagingInv, TypeOK, Step,
     faults, FaultsLeft, NoLease, Path, NoPath, NotRemoving
<1>2. NamesKnown'
  BY <1>0 DEF StagingInv, TypeOK, NamesKnown, Known, Path, NoPath, NotRemoving
<1>3. AbsentIsEmpty'
  BY <1>0 DEF StagingInv, TypeOK, AbsentIsEmpty, In, NoLease, faults
<1>4. OwnersApart'
  BY <1>0 DEF StagingInv, TypeOK, NamesKnown, Known, OwnersApart, Holding, Owning, In, Path,
     NoPath, faults
<1>5. HeartsTrue'
  BY <1>0, LeaseAssumption DEF StagingInv, TypeOK, OwnersApart, AbsentIsEmpty, NamesKnown, Known,
     HeartsTrue, Holding, Owning, In, Path, NoPath, NoLease, faults
<1>6. ASSUME missed' = 0, NEW v \in Request
      PROVE  LeaseKept(v)'
  BY <1>0, <1>6, LeaseAssumption DEF StagingInv, TypeOK, NamesKnown, Known, OwnersApart,
     OwnersSafe, LeaseKept, Untouched, ActingTrue, Holding, Acting, Owning, In, Path, NoPath,
     NoLease, faults
<1>7. ASSUME missed' = 0, NEW v \in Request
      PROVE  Untouched(v)'
  BY SMTT(60), <1>0, <1>7 DEF StagingInv, TypeOK, NamesKnown, Known, OwnersApart, OwnersSafe,
     LeaseKept, Untouched, Holding, Acting, Owning, In, Path, NoPath, NoLease, faults
<1>8. ASSUME missed' = 0, NEW v \in Request
      PROVE  ActingTrue(v)'
  BY <1>0, <1>8 DEF StagingInv, TypeOK, OwnersSafe, Untouched, ActingTrue, Holding, Acting,
     Owning, In, Path, NoPath, NoLease, faults
<1>9. NothingRemoved'
  BY <1>0, LeaseAssumption DEF StagingInv, TypeOK, NamesKnown, Known, OwnersApart, OwnersSafe,
     LeaseKept, Untouched, ActingTrue, NothingRemoved, OwnerPresent, HeartsTrue, Beating,
     Holding, Acting, Owning, In, Path, NoPath, NoLease, NotRemoving, faults
<1>10. AdmissionLeft'
  BY <1>0, BoundsAssumption DEF StagingInv, TypeOK, AdmissionLeft, Seeking
<1> QED
  BY <1>1, <1>2, <1>3, <1>4, <1>5, <1>6, <1>7, <1>8, <1>9, <1>10 DEF StagingInv, OwnersSafe

(* Examine keeps the invariant.                                            *)
LEMMA ExamineKeeps ==
  ASSUME StagingInv, NEW w \in Request, NEW p \in todo[w], Examine(w, p)
  PROVE  StagingInv'
<1> USE DEF Examine, Own, Goto, Claimable, Keep, Still, directories
<1>0. \A v \in Request : Here(v) <=> In(at[v])
  BY HereIsIn DEF StagingInv
<1>a. TypeOK /\ p \in Path
  BY DEF StagingInv, TypeOK
<1>1. TypeOK'
  <2>1. pc' \in [Request -> Step]
    BY <1>a DEF TypeOK, Step
  <2>2. at' \in [Request -> Path \cup {NoPath}]
    BY <1>a DEF TypeOK
  <2>3. todo' \in [Request -> SUBSET Path]
    BY <1>a DEF TypeOK
  <2> QED
    BY <1>a, <2>1, <2>2, <2>3 DEF TypeOK, faults
<1>2. NamesKnown'
  <2>1. Known(p) /\ name' = name /\ removing' = removing
    BY DEF StagingInv, NamesKnown
  <2>2. \A v \in Request : at'[v] \in {at[v], p} /\ todo'[v] \subseteq todo[v]
    BY <1>a DEF TypeOK
  <2> QED
    BY <2>1, <2>2 DEF StagingInv, NamesKnown, Known
<1>3. AbsentIsEmpty'
  BY <1>0 DEF StagingInv, TypeOK, AbsentIsEmpty, In, NoLease, faults
<1>4. OwnersApart'
  BY <1>0 DEF StagingInv, TypeOK, NamesKnown, Known, OwnersApart, Holding, Owning, In, Path,
     NoPath, faults
<1>5. HeartsTrue'
  BY <1>0, LeaseAssumption DEF StagingInv, TypeOK, OwnersApart, AbsentIsEmpty, NamesKnown, Known,
     HeartsTrue, Holding, Owning, In, Path, NoPath, NoLease, faults
<1>6. ASSUME missed' = 0, NEW v \in Request
      PROVE  LeaseKept(v)'
  BY SMTT(60), <1>0, <1>6, LeaseAssumption DEF StagingInv, TypeOK, NamesKnown, Known,
     OwnersApart, OwnersSafe, LeaseKept, Untouched, ActingTrue, Holding, Acting, Owning, In,
     Path, NoPath, NoLease, faults
<1>7. ASSUME missed' = 0, NEW v \in Request
      PROVE  Untouched(v)'
  BY SMTT(60), <1>0, <1>7 DEF StagingInv, TypeOK, NamesKnown, Known, OwnersApart, OwnersSafe,
     LeaseKept, Untouched, Holding, Acting, Owning, In, Path, NoPath, NoLease, faults
<1>8. ASSUME missed' = 0, NEW v \in Request
      PROVE  ActingTrue(v)'
  BY <1>0, <1>8 DEF StagingInv, TypeOK, OwnersSafe, Untouched, ActingTrue, Holding, Acting,
     Owning, In, Path, NoPath, NoLease, faults
<1>9. NothingRemoved'
  BY <1>0, LeaseAssumption DEF StagingInv, TypeOK, NamesKnown, Known, OwnersApart, OwnersSafe,
     LeaseKept, Untouched, ActingTrue, NothingRemoved, OwnerPresent, HeartsTrue, Beating,
     Holding, Acting, Owning, In, Path, NoPath, NoLease, NotRemoving, faults
<1>10. AdmissionLeft'
  BY <1>0, BoundsAssumption DEF StagingInv, TypeOK, AdmissionLeft, Seeking
<1> QED
  BY <1>1, <1>2, <1>3, <1>4, <1>5, <1>6, <1>7, <1>8, <1>9, <1>10 DEF StagingInv, OwnersSafe

(* LookAtActive keeps the invariant.                                       *)
LEMMA LookAtActiveKeeps ==
  ASSUME StagingInv, NEW w \in Request, LookAtActive(w)
  PROVE  StagingInv'
<1> USE DEF LookAtActive, Own, Entries, Still, directories
<1>0. \A v \in Request : Here(v) <=> In(at[v])
  BY HereIsIn DEF StagingInv
<1>1. TypeOK'
  BY <1>0, SelectionAssumption, LeaseAssumption, BoundsAssumption DEF StagingInv, TypeOK, Step,
     faults, FaultsLeft, NoLease, Path, NoPath, NotRemoving
<1>2. NamesKnown'
  BY <1>0 DEF StagingInv, TypeOK, NamesKnown, Known, Path, NoPath, NotRemoving
<1>3. AbsentIsEmpty'
  BY <1>0 DEF StagingInv, TypeOK, AbsentIsEmpty, In, NoLease, faults
<1>4. OwnersApart'
  BY <1>0 DEF StagingInv, TypeOK, NamesKnown, Known, OwnersApart, Holding, Owning, In, Path,
     NoPath, faults
<1>5. HeartsTrue'
  BY <1>0, LeaseAssumption DEF StagingInv, TypeOK, OwnersApart, AbsentIsEmpty, NamesKnown, Known,
     HeartsTrue, Holding, Owning, In, Path, NoPath, NoLease, faults
<1>6. ASSUME missed' = 0, NEW v \in Request
      PROVE  LeaseKept(v)'
  BY <1>0, <1>6, LeaseAssumption DEF StagingInv, TypeOK, NamesKnown, Known, OwnersApart,
     OwnersSafe, LeaseKept, Untouched, ActingTrue, Holding, Acting, Owning, In, Path, NoPath,
     NoLease, faults
<1>7. ASSUME missed' = 0, NEW v \in Request
      PROVE  Untouched(v)'
  BY SMTT(60), <1>0, <1>7 DEF StagingInv, TypeOK, NamesKnown, Known, OwnersApart, OwnersSafe,
     LeaseKept, Untouched, Holding, Acting, Owning, In, Path, NoPath, NoLease, faults
<1>8. ASSUME missed' = 0, NEW v \in Request
      PROVE  ActingTrue(v)'
  BY <1>0, <1>8 DEF StagingInv, TypeOK, OwnersSafe, Untouched, ActingTrue, Holding, Acting,
     Owning, In, Path, NoPath, NoLease, faults
<1>9. NothingRemoved'
  BY <1>0, LeaseAssumption DEF StagingInv, TypeOK, NamesKnown, Known, OwnersApart, OwnersSafe,
     LeaseKept, Untouched, ActingTrue, NothingRemoved, OwnerPresent, HeartsTrue, Beating,
     Holding, Acting, Owning, In, Path, NoPath, NoLease, NotRemoving, faults
<1>10. AdmissionLeft'
  BY <1>0, BoundsAssumption DEF StagingInv, TypeOK, AdmissionLeft, Seeking
<1> QED
  BY <1>1, <1>2, <1>3, <1>4, <1>5, <1>6, <1>7, <1>8, <1>9, <1>10 DEF StagingInv, OwnersSafe

(* ClaimRenew keeps the invariant.                                         *)
LEMMA ClaimRenewKeeps ==
  ASSUME StagingInv, NEW w \in Request, ClaimRenew(w)
  PROVE  StagingInv'
<1> USE DEF ClaimRenew, Own, Lost, Goto, SetLease, Keep, Still
<1>0. \A v \in Request : Here(v) <=> In(at[v])
  BY HereIsIn DEF StagingInv
<1>b. \A u, v \in Request : In(at[u]) /\ In(at[v]) /\ Own(u) = Own(v) => at[u] = at[v]
  BY OneName DEF StagingInv, TypeOK
<1>c. \A v \in Request : Present(at[v]) <=> Here(v)
  BY DEF Here
<1>1. TypeOK'
  <2>1. pc' \in [Request -> Step]
    BY DEF StagingInv, TypeOK, Step
  <2>2. at' \in [Request -> Path \cup {NoPath}]
    BY DEF StagingInv, TypeOK
  <2>3. lease' \in [Dir -> -1 .. Lease]
    BY LeaseAssumption DEF StagingInv, TypeOK
  <2> QED
    BY <2>1, <2>2, <2>3 DEF StagingInv, TypeOK, faults
<1>2. NamesKnown'
  BY <1>0 DEF StagingInv, TypeOK, NamesKnown, Known, Path, NoPath, NotRemoving
<1>3. AbsentIsEmpty'
  BY <1>0 DEF StagingInv, TypeOK, AbsentIsEmpty, In, NoLease, faults
<1>4. OwnersApart'
  BY SMTT(60), <1>0 DEF StagingInv, TypeOK, NamesKnown, Known, OwnersApart, Holding, Owning, In,
     Path, NoPath, faults
<1>5. HeartsTrue'
  BY SMTT(60), <1>0, LeaseAssumption DEF StagingInv, TypeOK, OwnersApart, AbsentIsEmpty,
     NamesKnown, Known, HeartsTrue, Holding, Owning, In, Path, NoPath, NoLease, faults
<1>6. ASSUME missed' = 0, NEW v \in Request
      PROVE  LeaseKept(v)'
  BY SMTT(60), <1>0, <1>6, LeaseAssumption DEF StagingInv, TypeOK, NamesKnown, Known,
     OwnersApart, OwnersSafe, LeaseKept, Untouched, ActingTrue, Holding, Acting, Owning, In,
     Path, NoPath, NoLease, faults
<1>7. ASSUME missed' = 0, NEW v \in Request
      PROVE  Untouched(v)'
  BY <1>0, <1>7 DEF StagingInv, TypeOK, NamesKnown, Known, OwnersApart, OwnersSafe, LeaseKept,
     Untouched, Holding, Acting, Owning, In, Path, NoPath, NoLease, faults
<1>8. ASSUME missed' = 0, NEW v \in Request
      PROVE  ActingTrue(v)'
  BY SMTT(60), <1>0, <1>b, <1>c, <1>8, LeaseAssumption DEF StagingInv, TypeOK, OwnersSafe,
     Untouched, ActingTrue, Holding, Acting, Owning, In, Path, NoPath, NoLease, faults,
     NamesKnown, Known
<1>9. NothingRemoved'
  BY <1>0, LeaseAssumption DEF StagingInv, TypeOK, NamesKnown, Known, OwnersApart, OwnersSafe,
     LeaseKept, Untouched, ActingTrue, NothingRemoved, OwnerPresent, HeartsTrue, Beating,
     Holding, Acting, Owning, In, Path, NoPath, NoLease, NotRemoving, faults
<1>10. AdmissionLeft'
  BY <1>0, BoundsAssumption DEF StagingInv, TypeOK, AdmissionLeft, Seeking
<1> QED
  BY <1>1, <1>2, <1>3, <1>4, <1>5, <1>6, <1>7, <1>8, <1>9, <1>10 DEF StagingInv, OwnersSafe

(* ClaimRename keeps the invariant.                                        *)
LEMMA ClaimRenameKeeps ==
  ASSUME StagingInv, NEW w \in Request, ClaimRename(w)
  PROVE  StagingInv'
<1> USE DEF ClaimRename, Own, Lost, Goto, Renamed, Silenced, Keep, Still
<1>0. \A v \in Request : Here(v) <=> In(at[v])
  BY HereIsIn DEF StagingInv
<1>b. \A u, v \in Request : In(at[u]) /\ In(at[v]) /\ Own(u) = Own(v) => at[u] = at[v]
  BY OneName DEF StagingInv, TypeOK
<1>c. \A v \in Request : Present(at[v]) <=> Here(v)
  BY DEF Here
<1>d. In(at[w]) => Own(w) \in Dir /\ name[Own(w)] \in Nat /\ <<Own(w), name[Own(w)] + 1>> \in Path
  BY DEF In, Path, StagingInv, TypeOK
<1>e. Here(w) =>
      \A v \in Request : \A p \in {at[v], removing.at} \cup todo[v] :
          p # <<Own(w), name[Own(w)] + 1>> /\ Known(p)' /\ (In(p)' => In(p) /\ p[1] # Own(w))
  <2> SUFFICES ASSUME Here(w), NEW v \in Request, NEW p \in {at[v], removing.at} \cup todo[v]
               PROVE  p # <<Own(w), name[Own(w)] + 1>> /\ Known(p)' /\ (In(p)' => In(p) /\ p[1] # Own(w))
    OBVIOUS
  <2>1. Known(p) /\ p \in Path \cup {NoPath}
    BY DEF StagingInv, TypeOK, NamesKnown
  <2> QED
    BY <1>0, <1>d, <2>1, FreshName DEF StagingInv
<1>1. TypeOK'
  <2>1. DirectoriesOK'
    <3>1. CASE Here(w)
      BY <3>1, RenamedTyped DEF StagingInv
    <3>2. CASE ~ Here(w)
      BY <3>2 DEF StagingInv, TypeOK, DirectoriesOK
    <3> QED
      BY <3>1, <3>2
  <2>2. /\ pc' \in [Request -> Step] /\ at' \in [Request -> Path \cup {NoPath}]
        /\ wants' \in [Request -> Selection] /\ loop' \in [Request -> {"abandoned", "active"}]
        /\ todo' \in [Request -> SUBSET Path] /\ admitted' \in [Request -> 0 .. MaxAdmitted]
    <3>1. pc' \in [Request -> Step]
      BY DEF StagingInv, TypeOK, Step
    <3>2. at' \in [Request -> Path \cup {NoPath}]
      BY <1>0, <1>d DEF StagingInv, TypeOK
    <3> QED
      BY <3>1, <3>2 DEF StagingInv, TypeOK
  <2>3. /\ removing' \in [step : {"none", "checked", "deleting"}, at : Path \cup {NoPath}]
        /\ {crashes, removals, failures, missed}' \subseteq 0 .. MaxFaults
    BY DEF StagingInv, TypeOK, NotRemoving, faults
  <2> QED
    BY <2>1, <2>2, <2>3 DEF TypeOK, DirectoriesOK
<1>2. NamesKnown'
  <2>1. CASE Here(w)
    BY <1>0, <1>d, <1>e, <2>1 DEF NamesKnown, Known, StagingInv, TypeOK
  <2>2. CASE ~ Here(w)
    BY SMTT(60), <2>2 DEF NamesKnown, Known, StagingInv, TypeOK, NoPath
  <2> QED
    BY <2>1, <2>2
<1>3. AbsentIsEmpty'
  BY <1>0 DEF StagingInv, TypeOK, AbsentIsEmpty, In, NoLease, faults
<1>4. OwnersApart'
  BY <1>0, <1>b, <1>c, <1>d, LeaseAssumption, <1>e DEF StagingInv, TypeOK, NamesKnown, Known,
     OwnersApart, Holding, Owning, In, Path, NoPath, faults
<1>5. HeartsTrue'
  <2>1. CASE Here(w)
    <3>1. ASSUME NEW d \in Dir, heart'[d] # "none" PROVE lease'[d] # 0
      BY <2>1, <3>1 DEF StagingInv, TypeOK, HeartsTrue
    <3>2. ASSUME NEW v \in Request, In(at[v])', v # w
          PROVE  In(at[v]) /\ pc'[v] = pc[v] /\ at'[v] = at[v] /\ Own(v) # Own(w)
      BY <1>e, <2>1, <3>2 DEF StagingInv, TypeOK
    <3>3. ASSUME NEW v \in Request, In(at[v])', v # w
          PROVE  (/\ pc[v] \in Owning /\ heart[Own(v)] # "none" => by[Own(v)] = v
                  /\ pc[v] = "expiring" => heart[Own(v)] = "none")'
      BY <2>1, <3>2, <3>3 DEF StagingInv, TypeOK, HeartsTrue, In
    <3>4. at'[w][1] = Own(w) /\ heart'[Own(w)] = "none"
      BY <1>0, <1>d, <2>1 DEF StagingInv, TypeOK
    <3> QED
      BY <3>1, <3>3, <3>4 DEF HeartsTrue
  <2>2. CASE ~ Here(w)
    BY <2>2 DEF StagingInv, TypeOK, HeartsTrue, Owning, In
  <2> QED
    BY <2>1, <2>2
<1>6. ASSUME missed' = 0, NEW v \in Request
      PROVE  LeaseKept(v)'
  <2>1. CASE Here(w)
    <3>1. CASE v = w
      <4>1. at'[w] = <<Own(w), name[Own(w)] + 1>> /\ pc'[w] = "claimed" /\ lease' = lease
        BY <2>1 DEF StagingInv, TypeOK
      <4>2. lease[Own(w)] # 0 /\ Own(w) \in Dir
        BY <1>0, <1>6, <2>1 DEF StagingInv, OwnersSafe, ActingTrue, In, faults
      <4>3. lease[Own(w)] \in -1 .. Lease
        BY <4>2 DEF StagingInv, TypeOK
      <4> QED
        BY <3>1, <4>1, <4>2, <4>3, LeaseAssumption DEF LeaseKept, NoLease
    <3>2. CASE v # w
      BY <1>0, <1>e, <1>6, <2>1, <3>2 DEF StagingInv, TypeOK, OwnersSafe, LeaseKept, In, faults
    <3> QED
      BY <3>1, <3>2
  <2>2. CASE ~ Here(w)
    BY <1>6, <2>2 DEF StagingInv, TypeOK, OwnersSafe, LeaseKept, In, Holding, Owning, faults
  <2> QED
    BY <2>1, <2>2
<1>7. ASSUME missed' = 0
      PROVE  \A v \in Request : Untouched(v)'
  <2>1. \A v \in Request : Untouched(v)
    BY <1>7 DEF StagingInv, OwnersSafe, faults
  <2>2. \A v \in Request : pc'[v] \in Acting => pc[v] \in Acting /\ at'[v] = at[v] /\ v # w
    BY DEF StagingInv, TypeOK, Acting
  <2>3. \A v \in Request : v # w => pc'[v] = pc[v] /\ at'[v] = at[v]
    BY DEF StagingInv, TypeOK
  <2>4. CASE Here(w)
    <3>1. at'[w] = <<Own(w), name[Own(w)] + 1>>
      BY <2>4 DEF StagingInv, TypeOK
    <3>2. \A v \in Request \ {w} : at[v] # at'[w] /\ (In(at[v])' => In(at[v]))
      BY ZenonT(60), <1>e, <2>3, <2>4, <3>1
    <3> QED
      BY <2>1, <2>2, <2>3, <3>2 DEF Untouched
  <2>5. CASE ~ Here(w)
    <3>1. \A v \in Request : pc'[v] \in Holding /\ In(at[v])' =>
             pc[v] \in Holding /\ In(at[v]) /\ at'[v] = at[v]
      BY <2>3, <2>5 DEF StagingInv, TypeOK, In, Holding, Owning
    <3> QED
      BY <2>1, <2>2, <3>1, StillUntouched
  <2> QED
    BY <2>4, <2>5
<1>8. ASSUME missed' = 0, NEW v \in Request
      PROVE  ActingTrue(v)'
  <2>1. CASE v = w
    BY <2>1 DEF StagingInv, TypeOK, ActingTrue
  <2>2. CASE v # w
    <3>1. pc'[v] = pc[v] /\ at'[v] = at[v] /\ lease' = lease /\ commit' = commit
      BY <2>2 DEF StagingInv, TypeOK
    <3>2. In(at[v])' => In(at[v])
      BY <1>e, <3>1 DEF In
    <3> QED
      BY <1>8, <3>1, <3>2 DEF StagingInv, OwnersSafe, ActingTrue, faults
  <2> QED
    BY <2>1, <2>2
<1>9. NothingRemoved'
  BY <1>0, <1>b, <1>c, <1>d, LeaseAssumption, <1>e DEF StagingInv, TypeOK, NamesKnown, Known,
     OwnersApart, OwnersSafe, LeaseKept, Untouched, ActingTrue, NothingRemoved, OwnerPresent,
     HeartsTrue, Beating, Holding, Acting, Owning, In, Path, NoPath, NoLease, NotRemoving, faults
<1>10. AdmissionLeft'
  BY <1>0, BoundsAssumption DEF StagingInv, TypeOK, AdmissionLeft, Seeking
<1> QED
  BY <1>1, <1>2, <1>3, <1>4, <1>5, <1>6, <1>7, <1>8, <1>9, <1>10 DEF StagingInv, OwnersSafe

(* ClaimFinish keeps the invariant.                                        *)
LEMMA ClaimFinishKeeps ==
  ASSUME StagingInv, NEW w \in Request, ClaimFinish(w)
  PROVE  StagingInv'
<1> USE DEF ClaimFinish, Own, Leased, SetLease, Admitted, Fails, Over, Goto, Still, directories
<1>0. \A v \in Request : Here(v) <=> In(at[v])
  BY HereIsIn DEF StagingInv
<1>b. \A u, v \in Request : In(at[u]) /\ In(at[v]) /\ Own(u) = Own(v) => at[u] = at[v]
  BY OneName DEF StagingInv, TypeOK
<1>c. \A v \in Request : Present(at[v]) <=> Here(v)
  BY DEF Here
<1>d. \A v \in Request : pc'[v] \in Holding /\ In(at[v])' =>
        In(at[v]) /\ pc[v] \in Holding /\ at'[v] = at[v] /\ (v = w => Here(w))
  BY <1>0 DEF In, StagingInv, TypeOK, Holding, Owning
<1>f. \A v \in Request : v # w /\ In(at[v]) /\ Here(w) /\ pc[v] \in Holding => Own(v) # Own(w)
  BY <1>0, <1>b DEF StagingInv, OwnersApart, Holding, Owning
<1>1. TypeOK'
  <2>1. DirectoriesOK'
    <3>1. wants[w] \in Selection
      BY DEF StagingInv, TypeOK
    <3>2. place' = place /\ name' = name
      OBVIOUS
    <3>3. recorded' \in [Dir -> Selection \cup {None}] /\ commit' \in [Dir -> BOOLEAN]
      BY <3>1 DEF StagingInv, TypeOK
    <3>4. lease' \in [Dir -> -1 .. Lease]
      BY LeaseAssumption DEF StagingInv, TypeOK
    <3>5. heart' \in [Dir -> {"none", "asleep", "writing"}] /\ by' \in [Dir -> Request \cup {None}]
      BY DEF StagingInv, TypeOK
    <3> QED
      BY <3>2, <3>3, <3>4, <3>5 DEF StagingInv, TypeOK, DirectoriesOK
  <2>2. /\ pc' \in [Request -> Step] /\ at' \in [Request -> Path \cup {NoPath}]
        /\ wants' \in [Request -> Selection] /\ loop' \in [Request -> {"abandoned", "active"}]
        /\ todo' \in [Request -> SUBSET Path] /\ admitted' \in [Request -> 0 .. MaxAdmitted]
    <3>1. admitted[w] < MaxAdmitted
      BY DEF StagingInv, AdmissionLeft, Seeking
    <3> QED
      BY SMTT(60), <3>1, SelectionAssumption, BoundsAssumption DEF StagingInv, TypeOK, Step
  <2>3. /\ removing' \in [step : {"none", "checked", "deleting"}, at : Path \cup {NoPath}]
        /\ {crashes, removals, failures, missed}' \subseteq 0 .. MaxFaults
    BY DEF StagingInv, TypeOK, NotRemoving, faults
  <2> QED
    BY <2>1, <2>2, <2>3 DEF TypeOK, DirectoriesOK
<1>2. NamesKnown'
  BY <1>0 DEF StagingInv, TypeOK, NamesKnown, Known, Path, NoPath, NotRemoving
<1>3. AbsentIsEmpty'
  BY <1>0 DEF StagingInv, TypeOK, AbsentIsEmpty, In, NoLease, faults
<1>4. OwnersApart'
  BY SMTT(60), <1>0 DEF StagingInv, TypeOK, NamesKnown, Known, OwnersApart, Holding, Owning, In,
     Path, NoPath, faults
<1>5. HeartsTrue'
  <2>1. ASSUME NEW d \in Dir, heart'[d] # "none" PROVE lease'[d] # 0
    BY <2>1, LeaseAssumption DEF StagingInv, TypeOK, HeartsTrue
  <2>2. ASSUME NEW v \in Request, In(at[v])'
        PROVE  (pc[v] \in Owning /\ heart[Own(v)] # "none" => by[Own(v)] = v)'
    BY <1>0, <1>d, <1>f, <2>2 DEF StagingInv, TypeOK, HeartsTrue, Holding, Owning, In
  <2>3. ASSUME NEW v \in Request, In(at[v])' PROVE (pc[v] = "expiring" => heart[Own(v)] = "none")'
    BY <1>0, <1>d, <1>f, <2>3 DEF StagingInv, TypeOK, HeartsTrue, Holding, Owning, In
  <2> QED
    BY <2>1, <2>2, <2>3 DEF HeartsTrue
<1>6. ASSUME missed' = 0, NEW v \in Request
      PROVE  LeaseKept(v)'
  BY SMTT(60), <1>0, <1>6, LeaseAssumption DEF StagingInv, TypeOK, NamesKnown, Known,
     OwnersApart, OwnersSafe, LeaseKept, Untouched, ActingTrue, Holding, Acting, Owning, In,
     Path, NoPath, NoLease, faults
<1>7. ASSUME missed' = 0, NEW v \in Request
      PROVE  Untouched(v)'
  BY SMTT(60), <1>0, <1>7 DEF StagingInv, TypeOK, NamesKnown, Known, OwnersApart, OwnersSafe,
     LeaseKept, Untouched, Holding, Acting, Owning, In, Path, NoPath, NoLease, faults
<1>8. ASSUME missed' = 0, NEW v \in Request
      PROVE  ActingTrue(v)'
  BY SMTT(60), <1>0, <1>b, <1>c, <1>8, LeaseAssumption DEF StagingInv, TypeOK, OwnersSafe,
     Untouched, ActingTrue, Holding, Acting, Owning, In, Path, NoPath, NoLease, faults,
     NamesKnown, Known
<1>9. NothingRemoved'
  BY SMTT(60), <1>0, LeaseAssumption DEF StagingInv, TypeOK, NamesKnown, Known, OwnersApart,
     OwnersSafe, LeaseKept, Untouched, ActingTrue, NothingRemoved, OwnerPresent, HeartsTrue,
     Beating, Holding, Acting, Owning, In, Path, NoPath, NoLease, NotRemoving, faults
<1>10. AdmissionLeft'
  BY <1>0, BoundsAssumption DEF StagingInv, TypeOK, AdmissionLeft, Seeking
<1> QED
  BY <1>1, <1>2, <1>3, <1>4, <1>5, <1>6, <1>7, <1>8, <1>9, <1>10 DEF StagingInv, OwnersSafe

(* Make keeps the invariant.                                               *)
LEMMA MakeKeeps ==
  ASSUME StagingInv, NEW w \in Request, Make(w)
  PROVE  StagingInv'
<1> SUFFICES ASSUME NEW d \in Free, pc[w] = "look", Renamed(d, "active"),
                    at' = [at EXCEPT ![w] = <<d, name[d] + 1>>], Goto(w, "made"),
                    UNCHANGED <<recorded, commit, lease, todo>>, Keep, Still
             PROVE  StagingInv'
  BY DEF Make
<1> USE DEF Own, Renamed, Silenced, Goto, Keep, Still
<1>0. \A v \in Request : Here(v) <=> In(at[v])
  BY HereIsIn DEF StagingInv
<1>b. \A u, v \in Request : In(at[u]) /\ In(at[v]) /\ Own(u) = Own(v) => at[u] = at[v]
  BY OneName DEF StagingInv, TypeOK
<1>c. \A v \in Request : Present(at[v]) <=> Here(v)
  BY DEF Here
<1>d. /\ d \in Dir /\ place[d] \in {"unused", "published"} /\ name[d] \in Nat
      /\ <<d, name[d] + 1>> \in Path /\ <<d, name[d] + 1>> # NoPath
      /\ lease[d] = NoLease /\ recorded[d] = None /\ ~ commit[d]
  BY DEF Free, StagingInv, TypeOK, AbsentIsEmpty, Path, NoPath
<1>e. \A v \in Request : \A p \in {at[v], removing.at} \cup todo[v] :
          p # <<d, name[d] + 1>> /\ Known(p)' /\ (In(p)' => In(p) /\ p[1] # d)
  <2> SUFFICES ASSUME NEW v \in Request, NEW p \in {at[v], removing.at} \cup todo[v]
               PROVE  p # <<d, name[d] + 1>> /\ Known(p)' /\ (In(p)' => In(p) /\ p[1] # d)
    OBVIOUS
  <2>1. Known(p) /\ p \in Path \cup {NoPath}
    BY DEF StagingInv, TypeOK, NamesKnown
  <2> QED
    BY <1>0, <1>d, <2>1, FreshName DEF StagingInv
<1>1. TypeOK'
  <2>1. DirectoriesOK'
    BY RenamedTyped DEF DirectoriesOK, StagingInv, TypeOK
  <2>2. /\ pc' \in [Request -> Step] /\ at' \in [Request -> Path \cup {NoPath}]
        /\ wants' \in [Request -> Selection] /\ loop' \in [Request -> {"abandoned", "active"}]
        /\ todo' \in [Request -> SUBSET Path] /\ admitted' \in [Request -> 0 .. MaxAdmitted]
    BY <1>d, SelectionAssumption, BoundsAssumption DEF StagingInv, TypeOK, Step
  <2>3. /\ removing' \in [step : {"none", "checked", "deleting"}, at : Path \cup {NoPath}]
        /\ {crashes, removals, failures, missed}' \subseteq 0 .. MaxFaults
    BY DEF StagingInv, TypeOK, NotRemoving, faults
  <2> QED
    BY <2>1, <2>2, <2>3 DEF TypeOK, DirectoriesOK
<1>2. NamesKnown'
  BY <1>0, <1>b, <1>c, <1>d, LeaseAssumption, <1>e DEF StagingInv, TypeOK, NamesKnown, Known,
     Path, NoPath, NotRemoving
<1>3. AbsentIsEmpty'
  BY <1>0 DEF StagingInv, TypeOK, AbsentIsEmpty, In, NoLease, faults
<1>4. OwnersApart'
  BY <1>0, <1>b, <1>c, <1>d, LeaseAssumption, <1>e DEF StagingInv, TypeOK, NamesKnown, Known,
     OwnersApart, Holding, Owning, In, Path, NoPath, faults
<1>5. HeartsTrue'
  BY <1>0, <1>b, <1>c, <1>d, LeaseAssumption, <1>e DEF StagingInv, TypeOK, OwnersApart,
     AbsentIsEmpty, NamesKnown, Known, HeartsTrue, Holding, Owning, In, Path, NoPath, NoLease,
     faults
<1>6. ASSUME missed' = 0, NEW v \in Request
      PROVE  LeaseKept(v)'
  BY <1>0, <1>b, <1>c, <1>d, <1>6, LeaseAssumption, <1>e DEF StagingInv, TypeOK, NamesKnown,
     Known, OwnersApart, OwnersSafe, LeaseKept, Untouched, ActingTrue, Holding, Acting, Owning,
     In, Path, NoPath, NoLease, faults
<1>7. ASSUME missed' = 0, NEW v \in Request
      PROVE  Untouched(v)'
  BY <1>0, <1>b, <1>c, <1>d, <1>7, LeaseAssumption, <1>e DEF StagingInv, TypeOK, NamesKnown,
     Known, OwnersApart, OwnersSafe, LeaseKept, Untouched, Holding, Acting, Owning, In, Path,
     NoPath, NoLease, faults
<1>8. ASSUME missed' = 0, NEW v \in Request
      PROVE  ActingTrue(v)'
  BY SMTT(60), <1>0, <1>b, <1>c, <1>d, <1>8, LeaseAssumption, <1>e DEF StagingInv, TypeOK,
     OwnersSafe, Untouched, ActingTrue, Holding, Acting, Owning, In, Path, NoPath, NoLease,
     faults
<1>9. NothingRemoved'
  BY <1>0, <1>b, <1>c, <1>d, LeaseAssumption, <1>e DEF StagingInv, TypeOK, NamesKnown, Known,
     OwnersApart, OwnersSafe, LeaseKept, Untouched, ActingTrue, NothingRemoved, OwnerPresent,
     HeartsTrue, Beating, Holding, Acting, Owning, In, Path, NoPath, NoLease, NotRemoving, faults
<1>10. AdmissionLeft'
  BY <1>0, BoundsAssumption DEF StagingInv, TypeOK, AdmissionLeft, Seeking
<1> QED
  BY <1>1, <1>2, <1>3, <1>4, <1>5, <1>6, <1>7, <1>8, <1>9, <1>10 DEF StagingInv, OwnersSafe

(* MakeLease keeps the invariant.                                          *)
LEMMA MakeLeaseKeeps ==
  ASSUME StagingInv, NEW w \in Request, MakeLease(w)
  PROVE  StagingInv'
<1> USE DEF MakeLease, Own, Leased, SetLease, Fails, Over, Goto, Keep, Still, directories
<1>0. \A v \in Request : Here(v) <=> In(at[v])
  BY HereIsIn DEF StagingInv
<1>b. \A u, v \in Request : In(at[u]) /\ In(at[v]) /\ Own(u) = Own(v) => at[u] = at[v]
  BY OneName DEF StagingInv, TypeOK
<1>c. \A v \in Request : Present(at[v]) <=> Here(v)
  BY DEF Here
<1>d. \A v \in Request : pc'[v] \in Holding /\ In(at[v])' =>
        In(at[v]) /\ pc[v] \in Holding /\ at'[v] = at[v] /\ (v = w => Here(w))
  BY <1>0 DEF In, StagingInv, TypeOK, Holding, Owning
<1>f. \A v \in Request : v # w /\ In(at[v]) /\ Here(w) /\ pc[v] \in Holding => Own(v) # Own(w)
  BY <1>0, <1>b DEF StagingInv, OwnersApart, Holding, Owning
<1>1. TypeOK'
  <2>1. /\ place' \in [Dir -> {"unused", "active", "abandoned", "published"}]
        /\ name' \in [Dir -> Nat] /\ recorded' \in [Dir -> Selection \cup {None}]
        /\ commit' \in [Dir -> BOOLEAN] /\ lease' \in [Dir -> -1 .. Lease]
        /\ heart' \in [Dir -> {"none", "asleep", "writing"}]
        /\ by' \in [Dir -> Request \cup {None}]
    BY SelectionAssumption, LeaseAssumption DEF StagingInv, TypeOK, NoLease
  <2>2. /\ pc' \in [Request -> Step] /\ at' \in [Request -> Path \cup {NoPath}]
        /\ wants' \in [Request -> Selection] /\ loop' \in [Request -> {"abandoned", "active"}]
        /\ todo' \in [Request -> SUBSET Path] /\ admitted' \in [Request -> 0 .. MaxAdmitted]
    BY SelectionAssumption, BoundsAssumption DEF StagingInv, TypeOK, Step
  <2>3. /\ removing' \in [step : {"none", "checked", "deleting"}, at : Path \cup {NoPath}]
        /\ {crashes, removals, failures, missed}' \subseteq 0 .. MaxFaults
    BY DEF StagingInv, TypeOK, NotRemoving, faults
  <2> QED
    BY <2>1, <2>2, <2>3 DEF TypeOK
<1>2. NamesKnown'
  BY <1>0 DEF StagingInv, TypeOK, NamesKnown, Known, Path, NoPath, NotRemoving
<1>3. AbsentIsEmpty'
  BY <1>0 DEF StagingInv, TypeOK, AbsentIsEmpty, In, NoLease, faults
<1>4. OwnersApart'
  BY SMTT(60), <1>0 DEF StagingInv, TypeOK, NamesKnown, Known, OwnersApart, Holding, Owning, In,
     Path, NoPath, faults
<1>5. HeartsTrue'
  <2>1. ASSUME NEW d \in Dir, heart'[d] # "none" PROVE lease'[d] # 0
    BY <2>1, LeaseAssumption DEF StagingInv, TypeOK, HeartsTrue
  <2>2. ASSUME NEW v \in Request, In(at[v])'
        PROVE  (pc[v] \in Owning /\ heart[Own(v)] # "none" => by[Own(v)] = v)'
    BY <1>0, <1>d, <1>f, <2>2 DEF StagingInv, TypeOK, HeartsTrue, Holding, Owning, In
  <2>3. ASSUME NEW v \in Request, In(at[v])' PROVE (pc[v] = "expiring" => heart[Own(v)] = "none")'
    BY <1>0, <1>d, <1>f, <2>3 DEF StagingInv, TypeOK, HeartsTrue, Holding, Owning, In
  <2> QED
    BY <2>1, <2>2, <2>3 DEF HeartsTrue
<1>6. ASSUME missed' = 0, NEW v \in Request
      PROVE  LeaseKept(v)'
  BY SMTT(60), <1>0, <1>6, LeaseAssumption DEF StagingInv, TypeOK, NamesKnown, Known,
     OwnersApart, OwnersSafe, LeaseKept, Untouched, ActingTrue, Holding, Acting, Owning, In,
     Path, NoPath, NoLease, faults
<1>7. ASSUME missed' = 0, NEW v \in Request
      PROVE  Untouched(v)'
  <2>1. \A u \in Request : Untouched(u)
    BY <1>7 DEF StagingInv, OwnersSafe, faults
  <2>2. \A u \in Request : pc'[u] \in Acting => pc[u] \in Acting /\ at'[u] = at[u]
    BY DEF StagingInv, TypeOK, Acting
  <2> QED
    BY <1>d, <2>1, <2>2, StillUntouched
<1>8. ASSUME missed' = 0, NEW v \in Request
      PROVE  ActingTrue(v)'
  BY SMTT(60), <1>0, <1>b, <1>c, <1>8, LeaseAssumption DEF StagingInv, TypeOK, OwnersSafe,
     Untouched, ActingTrue, Holding, Acting, Owning, In, Path, NoPath, NoLease, faults
<1>9. NothingRemoved'
  BY <1>0, LeaseAssumption DEF StagingInv, TypeOK, NamesKnown, Known, OwnersApart, OwnersSafe,
     LeaseKept, Untouched, ActingTrue, NothingRemoved, OwnerPresent, HeartsTrue, Beating,
     Holding, Acting, Owning, In, Path, NoPath, NoLease, NotRemoving, faults
<1>10. AdmissionLeft'
  BY <1>0, BoundsAssumption DEF StagingInv, TypeOK, AdmissionLeft, Seeking
<1> QED
  BY <1>1, <1>2, <1>3, <1>4, <1>5, <1>6, <1>7, <1>8, <1>9, <1>10 DEF StagingInv, OwnersSafe

(* MakeIdentity keeps the invariant.                                       *)
LEMMA MakeIdentityKeeps ==
  ASSUME StagingInv, NEW w \in Request, MakeIdentity(w)
  PROVE  StagingInv'
<1> USE DEF MakeIdentity, Own, Admitted, Fails, Over, Goto, Still, directories
<1>0. \A v \in Request : Here(v) <=> In(at[v])
  BY HereIsIn DEF StagingInv
<1>b. \A u, v \in Request : In(at[u]) /\ In(at[v]) /\ Own(u) = Own(v) => at[u] = at[v]
  BY OneName DEF StagingInv, TypeOK
<1>c. \A v \in Request : Present(at[v]) <=> Here(v)
  BY DEF Here
<1>d. \A v \in Request : pc'[v] \in Holding /\ In(at[v])' =>
        In(at[v]) /\ pc[v] \in Holding /\ at'[v] = at[v]
  BY <1>0 DEF In, StagingInv, TypeOK, Holding, Owning
<1>1. TypeOK'
  <2>1. DirectoriesOK'
    BY DEF DirectoriesOK, StagingInv, TypeOK
  <2>2. /\ pc' \in [Request -> Step] /\ at' \in [Request -> Path \cup {NoPath}]
        /\ wants' \in [Request -> Selection] /\ loop' \in [Request -> {"abandoned", "active"}]
        /\ todo' \in [Request -> SUBSET Path] /\ admitted' \in [Request -> 0 .. MaxAdmitted]
    <3>1. admitted[w] < MaxAdmitted
      BY DEF StagingInv, AdmissionLeft, Seeking
    <3> QED
      BY SMTT(60), <3>1, SelectionAssumption, BoundsAssumption DEF StagingInv, TypeOK, Step
  <2>3. /\ removing' \in [step : {"none", "checked", "deleting"}, at : Path \cup {NoPath}]
        /\ {crashes, removals, failures, missed}' \subseteq 0 .. MaxFaults
    BY DEF StagingInv, TypeOK, NotRemoving, faults
  <2> QED
    BY <2>1, <2>2, <2>3 DEF TypeOK, DirectoriesOK
<1>2. NamesKnown'
  BY SMTT(60), <1>0 DEF StagingInv, TypeOK, NamesKnown, Known, Path, NoPath, NotRemoving
<1>3. AbsentIsEmpty'
  BY <1>0 DEF StagingInv, TypeOK, AbsentIsEmpty, In, NoLease, faults
<1>4. OwnersApart'
  BY <1>0 DEF StagingInv, TypeOK, NamesKnown, Known, OwnersApart, Holding, Owning, In, Path,
     NoPath, faults
<1>5. HeartsTrue'
  <2>1. ASSUME NEW d \in Dir, heart'[d] # "none" PROVE lease'[d] # 0
    BY <2>1, LeaseAssumption DEF StagingInv, TypeOK, HeartsTrue
  <2>2. ASSUME NEW v \in Request, In(at[v])'
        PROVE  (pc[v] \in Owning /\ heart[Own(v)] # "none" => by[Own(v)] = v)'
    BY <1>d, <2>2 DEF StagingInv, TypeOK, HeartsTrue, Holding, Owning, In
  <2>3. ASSUME NEW v \in Request, In(at[v])' PROVE (pc[v] = "expiring" => heart[Own(v)] = "none")'
    BY <1>d, <2>3 DEF StagingInv, TypeOK, HeartsTrue, Holding, Owning, In
  <2> QED
    BY <2>1, <2>2, <2>3 DEF HeartsTrue
<1>6. ASSUME missed' = 0, NEW v \in Request
      PROVE  LeaseKept(v)'
  BY <1>0, <1>6, LeaseAssumption DEF StagingInv, TypeOK, NamesKnown, Known, OwnersApart,
     OwnersSafe, LeaseKept, Untouched, ActingTrue, Holding, Acting, Owning, In, Path, NoPath,
     NoLease, faults
<1>7. ASSUME missed' = 0, NEW v \in Request
      PROVE  Untouched(v)'
  <2>1. \A u \in Request : Untouched(u)
    BY <1>7 DEF StagingInv, OwnersSafe, faults
  <2>2. \A u \in Request : pc'[u] \in Acting => pc[u] \in Acting /\ at'[u] = at[u]
    BY DEF StagingInv, TypeOK, Acting
  <2> QED
    BY <1>d, <2>1, <2>2, StillUntouched
<1>8. ASSUME missed' = 0, NEW v \in Request
      PROVE  ActingTrue(v)'
  BY SMTT(60), <1>0, <1>b, <1>c, <1>8, LeaseAssumption DEF StagingInv, TypeOK, OwnersSafe,
     Untouched, ActingTrue, Holding, Acting, Owning, In, Path, NoPath, NoLease, faults,
     NamesKnown, Known
<1>9. NothingRemoved'
  BY <1>0, LeaseAssumption DEF StagingInv, TypeOK, NamesKnown, Known, OwnersApart, OwnersSafe,
     LeaseKept, Untouched, ActingTrue, NothingRemoved, OwnerPresent, HeartsTrue, Beating,
     Holding, Acting, Owning, In, Path, NoPath, NoLease, NotRemoving, faults
<1>10. AdmissionLeft'
  BY <1>0, BoundsAssumption DEF StagingInv, TypeOK, AdmissionLeft, Seeking
<1> QED
  BY <1>1, <1>2, <1>3, <1>4, <1>5, <1>6, <1>7, <1>8, <1>9, <1>10 DEF StagingInv, OwnersSafe

(* Resolve keeps the invariant.                                            *)
LEMMA ResolveKeeps ==
  ASSUME StagingInv, NEW w \in Request, Resolve(w)
  PROVE  StagingInv'
<1> USE DEF Resolve, Own, Goto, Keep, Still
<1>0. \A v \in Request : Here(v) <=> In(at[v])
  BY HereIsIn DEF StagingInv
<1>1. TypeOK'
  BY ZenonT(60), <1>0, SelectionAssumption, LeaseAssumption, BoundsAssumption DEF StagingInv,
     TypeOK, Step, faults, FaultsLeft, NoLease, Path, NoPath, NotRemoving
<1>2. NamesKnown'
  BY <1>0 DEF StagingInv, TypeOK, NamesKnown, Known, Path, NoPath, NotRemoving
<1>3. AbsentIsEmpty'
  BY <1>0 DEF StagingInv, TypeOK, AbsentIsEmpty, In, NoLease, faults
<1>4. OwnersApart'
  BY <1>0 DEF StagingInv, TypeOK, NamesKnown, Known, OwnersApart, Holding, Owning, In, Path,
     NoPath, faults
<1>5. HeartsTrue'
  BY <1>0, LeaseAssumption DEF StagingInv, TypeOK, OwnersApart, AbsentIsEmpty, NamesKnown, Known,
     HeartsTrue, Holding, Owning, In, Path, NoPath, NoLease, faults
<1>6. ASSUME missed' = 0, NEW v \in Request
      PROVE  LeaseKept(v)'
  BY <1>0, <1>6, LeaseAssumption DEF StagingInv, TypeOK, NamesKnown, Known, OwnersApart,
     OwnersSafe, LeaseKept, Untouched, ActingTrue, Holding, Acting, Owning, In, Path, NoPath,
     NoLease, faults
<1>7. ASSUME missed' = 0, NEW v \in Request
      PROVE  Untouched(v)'
  BY SMTT(60), <1>0, <1>7 DEF StagingInv, TypeOK, NamesKnown, Known, OwnersApart, OwnersSafe,
     LeaseKept, Untouched, Holding, Acting, Owning, In, Path, NoPath, NoLease, faults
<1>8. ASSUME missed' = 0, NEW v \in Request
      PROVE  ActingTrue(v)'
  BY SMTT(60), <1>0, <1>8 DEF StagingInv, TypeOK, OwnersSafe, Untouched, ActingTrue, Holding,
     Acting, Owning, In, Path, NoPath, NoLease, faults
<1>9. NothingRemoved'
  BY <1>0, LeaseAssumption DEF StagingInv, TypeOK, NamesKnown, Known, OwnersApart, OwnersSafe,
     LeaseKept, Untouched, ActingTrue, NothingRemoved, OwnerPresent, HeartsTrue, Beating,
     Holding, Acting, Owning, In, Path, NoPath, NoLease, NotRemoving, faults
<1>10. AdmissionLeft'
  BY <1>0, BoundsAssumption DEF StagingInv, TypeOK, AdmissionLeft, Seeking
<1> QED
  BY <1>1, <1>2, <1>3, <1>4, <1>5, <1>6, <1>7, <1>8, <1>9, <1>10 DEF StagingInv, OwnersSafe

(* FetchFails keeps the invariant.                                         *)
LEMMA FetchFailsKeeps ==
  ASSUME StagingInv, NEW w \in Request, NEW to, FetchFails(w, to)
  PROVE  StagingInv'
<1> USE DEF FetchFails, Own, Moves, Goto, Keep, directories
<1>0. \A v \in Request : Here(v) <=> In(at[v])
  BY HereIsIn DEF StagingInv
<1>1. TypeOK'
  BY <1>0, SelectionAssumption, LeaseAssumption, BoundsAssumption DEF StagingInv, TypeOK, Step,
     faults, FaultsLeft, NoLease, Path, NoPath, NotRemoving
<1>2. NamesKnown'
  BY <1>0 DEF StagingInv, TypeOK, NamesKnown, Known, Path, NoPath, NotRemoving
<1>3. AbsentIsEmpty'
  BY <1>0 DEF StagingInv, TypeOK, AbsentIsEmpty, In, NoLease, faults
<1>4. OwnersApart'
  BY <1>0 DEF StagingInv, TypeOK, NamesKnown, Known, OwnersApart, Holding, Owning, In, Path,
     NoPath, faults
<1>5. HeartsTrue'
  BY <1>0, LeaseAssumption DEF StagingInv, TypeOK, OwnersApart, AbsentIsEmpty, NamesKnown, Known,
     HeartsTrue, Holding, Owning, In, Path, NoPath, NoLease, faults
<1>6. ASSUME missed' = 0, NEW v \in Request
      PROVE  LeaseKept(v)'
  BY <1>0, <1>6, LeaseAssumption DEF StagingInv, TypeOK, NamesKnown, Known, OwnersApart,
     OwnersSafe, LeaseKept, Untouched, ActingTrue, Holding, Acting, Owning, In, Path, NoPath,
     NoLease, faults
<1>7. ASSUME missed' = 0, NEW v \in Request
      PROVE  Untouched(v)'
  BY <1>0, <1>7 DEF StagingInv, TypeOK, NamesKnown, Known, OwnersApart, OwnersSafe, LeaseKept,
     Untouched, Holding, Acting, Owning, In, Path, NoPath, NoLease, faults
<1>8. ASSUME missed' = 0, NEW v \in Request
      PROVE  ActingTrue(v)'
  BY <1>0, <1>8 DEF StagingInv, TypeOK, OwnersSafe, Untouched, ActingTrue, Holding, Acting,
     Owning, In, Path, NoPath, NoLease, faults
<1>9. NothingRemoved'
  BY <1>0, LeaseAssumption DEF StagingInv, TypeOK, NamesKnown, Known, OwnersApart, OwnersSafe,
     LeaseKept, Untouched, ActingTrue, NothingRemoved, OwnerPresent, HeartsTrue, Beating,
     Holding, Acting, Owning, In, Path, NoPath, NoLease, NotRemoving, faults
<1>10. AdmissionLeft'
  BY <1>0, BoundsAssumption DEF StagingInv, TypeOK, AdmissionLeft, Seeking
<1> QED
  BY <1>1, <1>2, <1>3, <1>4, <1>5, <1>6, <1>7, <1>8, <1>9, <1>10 DEF StagingInv, OwnersSafe

(* FetchCancelled keeps the invariant.                                     *)
LEMMA FetchCancelledKeeps ==
  ASSUME StagingInv, NEW w \in Request, FetchCancelled(w)
  PROVE  StagingInv'
<1> USE DEF FetchCancelled, Own, Moves, Goto, Keep, directories
<1>0. \A v \in Request : Here(v) <=> In(at[v])
  BY HereIsIn DEF StagingInv
<1>1. TypeOK'
  BY <1>0, SelectionAssumption, LeaseAssumption, BoundsAssumption DEF StagingInv, TypeOK, Step,
     faults, FaultsLeft, NoLease, Path, NoPath, NotRemoving
<1>2. NamesKnown'
  BY <1>0 DEF StagingInv, TypeOK, NamesKnown, Known, Path, NoPath, NotRemoving
<1>3. AbsentIsEmpty'
  BY <1>0 DEF StagingInv, TypeOK, AbsentIsEmpty, In, NoLease, faults
<1>4. OwnersApart'
  BY <1>0 DEF StagingInv, TypeOK, NamesKnown, Known, OwnersApart, Holding, Owning, In, Path,
     NoPath, faults
<1>5. HeartsTrue'
  BY <1>0, LeaseAssumption DEF StagingInv, TypeOK, OwnersApart, AbsentIsEmpty, NamesKnown, Known,
     HeartsTrue, Holding, Owning, In, Path, NoPath, NoLease, faults
<1>6. ASSUME missed' = 0, NEW v \in Request
      PROVE  LeaseKept(v)'
  BY <1>0, <1>6, LeaseAssumption DEF StagingInv, TypeOK, NamesKnown, Known, OwnersApart,
     OwnersSafe, LeaseKept, Untouched, ActingTrue, Holding, Acting, Owning, In, Path, NoPath,
     NoLease, faults
<1>7. ASSUME missed' = 0, NEW v \in Request
      PROVE  Untouched(v)'
  BY SMTT(60), <1>0, <1>7 DEF StagingInv, TypeOK, NamesKnown, Known, OwnersApart, OwnersSafe,
     LeaseKept, Untouched, Holding, Acting, Owning, In, Path, NoPath, NoLease, faults
<1>8. ASSUME missed' = 0, NEW v \in Request
      PROVE  ActingTrue(v)'
  BY <1>0, <1>8 DEF StagingInv, TypeOK, OwnersSafe, Untouched, ActingTrue, Holding, Acting,
     Owning, In, Path, NoPath, NoLease, faults
<1>9. NothingRemoved'
  BY <1>0, LeaseAssumption DEF StagingInv, TypeOK, NamesKnown, Known, OwnersApart, OwnersSafe,
     LeaseKept, Untouched, ActingTrue, NothingRemoved, OwnerPresent, HeartsTrue, Beating,
     Holding, Acting, Owning, In, Path, NoPath, NoLease, NotRemoving, faults
<1>10. AdmissionLeft'
  BY <1>0, BoundsAssumption DEF StagingInv, TypeOK, AdmissionLeft, Seeking
<1> QED
  BY <1>1, <1>2, <1>3, <1>4, <1>5, <1>6, <1>7, <1>8, <1>9, <1>10 DEF StagingInv, OwnersSafe

(* FetchDone keeps the invariant.                                          *)
LEMMA FetchDoneKeeps ==
  ASSUME StagingInv, NEW w \in Request, NEW to, FetchDone(w, to)
  PROVE  StagingInv'
<1> USE DEF FetchDone, Own, Moves, Goto, Keep, Still, directories
<1>0. \A v \in Request : Here(v) <=> In(at[v])
  BY HereIsIn DEF StagingInv
<1>1. TypeOK'
  BY <1>0, SelectionAssumption, LeaseAssumption, BoundsAssumption DEF StagingInv, TypeOK, Step,
     faults, FaultsLeft, NoLease, Path, NoPath, NotRemoving
<1>2. NamesKnown'
  BY <1>0 DEF StagingInv, TypeOK, NamesKnown, Known, Path, NoPath, NotRemoving
<1>3. AbsentIsEmpty'
  BY <1>0 DEF StagingInv, TypeOK, AbsentIsEmpty, In, NoLease, faults
<1>4. OwnersApart'
  BY <1>0 DEF StagingInv, TypeOK, NamesKnown, Known, OwnersApart, Holding, Owning, In, Path,
     NoPath, faults
<1>5. HeartsTrue'
  BY <1>0, LeaseAssumption DEF StagingInv, TypeOK, OwnersApart, AbsentIsEmpty, NamesKnown, Known,
     HeartsTrue, Holding, Owning, In, Path, NoPath, NoLease, faults
<1>6. ASSUME missed' = 0, NEW v \in Request
      PROVE  LeaseKept(v)'
  BY <1>0, <1>6, LeaseAssumption DEF StagingInv, TypeOK, NamesKnown, Known, OwnersApart,
     OwnersSafe, LeaseKept, Untouched, ActingTrue, Holding, Acting, Owning, In, Path, NoPath,
     NoLease, faults
<1>7. ASSUME missed' = 0, NEW v \in Request
      PROVE  Untouched(v)'
  BY SMTT(60), <1>0, <1>7 DEF StagingInv, TypeOK, NamesKnown, Known, OwnersApart, OwnersSafe,
     LeaseKept, Untouched, Holding, Acting, Owning, In, Path, NoPath, NoLease, faults
<1>8. ASSUME missed' = 0, NEW v \in Request
      PROVE  ActingTrue(v)'
  BY <1>0, <1>8 DEF StagingInv, TypeOK, OwnersSafe, Untouched, ActingTrue, Holding, Acting,
     Owning, In, Path, NoPath, NoLease, faults
<1>9. NothingRemoved'
  BY <1>0, LeaseAssumption DEF StagingInv, TypeOK, NamesKnown, Known, OwnersApart, OwnersSafe,
     LeaseKept, Untouched, ActingTrue, NothingRemoved, OwnerPresent, HeartsTrue, Beating,
     Holding, Acting, Owning, In, Path, NoPath, NoLease, NotRemoving, faults
<1>10. AdmissionLeft'
  BY <1>0, BoundsAssumption DEF StagingInv, TypeOK, AdmissionLeft, Seeking
<1> QED
  BY <1>1, <1>2, <1>3, <1>4, <1>5, <1>6, <1>7, <1>8, <1>9, <1>10 DEF StagingInv, OwnersSafe

(* Drop keeps the invariant.                                               *)
LEMMA DropKeeps ==
  ASSUME StagingInv, NEW w \in Request, Drop(w)
  PROVE  StagingInv'
<1> USE DEF Drop, Own, RemoveAll, Vanishes, SetLease, Silenced, Over, Goto, Still, directories
<1>0. \A v \in Request : Here(v) <=> In(at[v])
  BY HereIsIn DEF StagingInv
<1>c. \A v \in Request : Present(at[v]) <=> Here(v)
  BY DEF Here
<1>1. TypeOK'
  <2>1. DirectoriesOK'
    BY VanishesTyped DEF DirectoriesOK, StagingInv, TypeOK
  <2>2. /\ pc' \in [Request -> Step] /\ at' \in [Request -> Path \cup {NoPath}]
        /\ wants' \in [Request -> Selection] /\ loop' \in [Request -> {"abandoned", "active"}]
        /\ todo' \in [Request -> SUBSET Path] /\ admitted' \in [Request -> 0 .. MaxAdmitted]
    BY SelectionAssumption, BoundsAssumption DEF StagingInv, TypeOK, Step
  <2>3. /\ removing' \in [step : {"none", "checked", "deleting"}, at : Path \cup {NoPath}]
        /\ {crashes, removals, failures, missed}' \subseteq 0 .. MaxFaults
    BY DEF StagingInv, TypeOK, NotRemoving, faults
  <2> QED
    BY <2>1, <2>2, <2>3 DEF TypeOK, DirectoriesOK
<1>2. NamesKnown'
  BY <1>0 DEF StagingInv, TypeOK, NamesKnown, Known, Path, NoPath, NotRemoving
<1>3. AbsentIsEmpty'
  BY <1>0 DEF StagingInv, TypeOK, AbsentIsEmpty, In, NoLease, faults
<1>4. OwnersApart'
  BY <1>0 DEF StagingInv, TypeOK, NamesKnown, Known, OwnersApart, Holding, Owning, In, Path,
     NoPath, faults
<1>5. HeartsTrue'
  <2>1. \A v \in Request : pc'[v] \in Holding => pc'[v] = pc[v] /\ at'[v] = at[v]
    BY DEF StagingInv, TypeOK, Holding, Owning
  <2>2. CASE UNCHANGED directories
    BY <2>1, <2>2, HeartsStill DEF StagingInv
  <2>3. CASE ~ UNCHANGED directories
    <3>1. Own(w) \in Dir
      BY <1>0, <1>c, <2>3 DEF In
    <3> QED
      BY <1>0, <1>c, <2>1, <2>3, <3>1, HeartsVanish DEF StagingInv
  <2> QED
    BY <2>2, <2>3
<1>6. ASSUME missed' = 0, NEW v \in Request
      PROVE  LeaseKept(v)'
  BY <1>0, <1>6, LeaseAssumption DEF StagingInv, TypeOK, NamesKnown, Known, OwnersApart,
     OwnersSafe, LeaseKept, Untouched, ActingTrue, Holding, Acting, Owning, In, Path, NoPath,
     NoLease, faults
<1>7. ASSUME missed' = 0, NEW v \in Request
      PROVE  Untouched(v)'
  BY SMTT(60), <1>0, <1>7 DEF StagingInv, TypeOK, NamesKnown, Known, OwnersApart, OwnersSafe,
     LeaseKept, Untouched, Holding, Acting, Owning, In, Path, NoPath, NoLease, faults
<1>8. ASSUME missed' = 0, NEW v \in Request
      PROVE  ActingTrue(v)'
  BY SMTT(60), <1>0, <1>8 DEF StagingInv, TypeOK, OwnersSafe, Untouched, ActingTrue, Holding,
     Acting, Owning, In, Path, NoPath, NoLease, faults
<1>9. NothingRemoved'
  BY <1>0, LeaseAssumption DEF StagingInv, TypeOK, NamesKnown, Known, OwnersApart, OwnersSafe,
     LeaseKept, Untouched, ActingTrue, NothingRemoved, OwnerPresent, HeartsTrue, Beating,
     Holding, Acting, Owning, In, Path, NoPath, NoLease, NotRemoving, faults
<1>10. AdmissionLeft'
  BY <1>0, BoundsAssumption DEF StagingInv, TypeOK, AdmissionLeft, Seeking
<1> QED
  BY <1>1, <1>2, <1>3, <1>4, <1>5, <1>6, <1>7, <1>8, <1>9, <1>10 DEF StagingInv, OwnersSafe

(* Preserve keeps the invariant.                                           *)
LEMMA PreserveKeeps ==
  ASSUME StagingInv, NEW w \in Request, Preserve(w)
  PROVE  StagingInv'
<1> USE DEF Preserve, Own, Renamed, RemoveAll, Vanishes, SetLease, Silenced, Over, Goto, Keep,
   Still, directories
<1>0. \A v \in Request : Here(v) <=> In(at[v])
  BY HereIsIn DEF StagingInv
<1>b. \A u, v \in Request : In(at[u]) /\ In(at[v]) /\ Own(u) = Own(v) => at[u] = at[v]
  BY OneName DEF StagingInv, TypeOK
<1>c. \A v \in Request : Present(at[v]) <=> Here(v)
  BY DEF Here
<1>d. In(at[w]) => Own(w) \in Dir /\ name[Own(w)] \in Nat /\ <<Own(w), name[Own(w)] + 1>> \in Path
  BY DEF In, Path, StagingInv, TypeOK
<1>e. Here(w) /\ Renamed(Own(w), "abandoned") =>
      \A v \in Request : \A p \in {at[v], removing.at} \cup todo[v] :
          p # <<Own(w), name[Own(w)] + 1>> /\ Known(p)' /\ (In(p)' => In(p) /\ p[1] # Own(w))
  <2> SUFFICES ASSUME Here(w), Renamed(Own(w), "abandoned"), NEW v \in Request, NEW p \in {at[v], removing.at} \cup todo[v]
               PROVE  p # <<Own(w), name[Own(w)] + 1>> /\ Known(p)' /\ (In(p)' => In(p) /\ p[1] # Own(w))
    OBVIOUS
  <2>1. Known(p) /\ p \in Path \cup {NoPath}
    BY DEF StagingInv, TypeOK, NamesKnown
  <2> QED
    BY <1>0, <1>d, <2>1, FreshName DEF StagingInv
<1>f. \A v \in Request : v # w /\ In(at[v]) /\ Here(w) /\ pc[v] \in Holding => Own(v) # Own(w)
  BY <1>0, <1>b DEF StagingInv, OwnersApart, Holding, Owning
<1>1. TypeOK'
  <2>1. DirectoriesOK'
    <3>1. CASE UNCHANGED directories
      BY <3>1 DEF DirectoriesOK, StagingInv, TypeOK
    <3>2. CASE Renamed(Own(w), "abandoned") /\ UNCHANGED <<recorded, commit, lease>>
      BY <3>2, RenamedTyped DEF StagingInv
    <3>3. CASE Vanishes(Own(w), "unused")
      BY <3>3, VanishesTyped DEF StagingInv
    <3> QED
      BY <3>1, <3>2, <3>3
  <2>2. /\ pc' \in [Request -> Step] /\ at' \in [Request -> Path \cup {NoPath}]
        /\ wants' \in [Request -> Selection] /\ loop' \in [Request -> {"abandoned", "active"}]
        /\ todo' \in [Request -> SUBSET Path] /\ admitted' \in [Request -> 0 .. MaxAdmitted]
    <3>1. pc' \in [Request -> Step]
      BY DEF StagingInv, TypeOK, Step
    <3>2. at' \in [Request -> Path \cup {NoPath}]
      BY SMTT(60), <1>0, <1>d DEF StagingInv, TypeOK
    <3>3. wants' \in [Request -> Selection] /\ loop' \in [Request -> {"abandoned", "active"}]
      BY SelectionAssumption DEF StagingInv, TypeOK
    <3> QED
      BY <3>1, <3>2, <3>3 DEF StagingInv, TypeOK
  <2>3. /\ removing' \in [step : {"none", "checked", "deleting"}, at : Path \cup {NoPath}]
        /\ {crashes, removals, failures, missed}' \subseteq 0 .. MaxFaults
    BY DEF StagingInv, TypeOK, NotRemoving, faults
  <2> QED
    BY <2>1, <2>2, <2>3 DEF TypeOK, DirectoriesOK
<1>3. AbsentIsEmpty'
  BY <1>0 DEF StagingInv, TypeOK, AbsentIsEmpty, In, NoLease, faults
<1>4. OwnersApart'
  <2>1. CASE /\ Here(w) /\ Renamed(Own(w), "abandoned")
             /\ at' = [at EXCEPT ![w] = <<Own(w), name[Own(w)] + 1>>] /\ Goto(w, "expiring")
             /\ UNCHANGED <<recorded, commit, lease>>
    <3>1. at'[w] = <<Own(w), name[Own(w)] + 1>> /\ \A v \in Request \ {w} : at'[v] = at[v] /\ pc'[v] = pc[v]
      BY <2>1 DEF StagingInv, TypeOK
    <3>2. \A v \in Request \ {w} : at[v] # at'[w] /\ (In(at[v])' => In(at[v]))
      BY <1>e, <2>1, <3>1
    <3> QED
      BY SMTT(60), <3>1, <3>2 DEF StagingInv, OwnersApart
  <2>2. CASE (Vanishes(Own(w), "unused") \/ UNCHANGED directories) /\ Over(w)
    <3>1. pc'[w] = "idle" /\ \A v \in Request \ {w} : pc'[v] = pc[v] /\ at'[v] = at[v]
      BY SMTT(60), <2>2 DEF StagingInv, TypeOK
    <3>2. \A p : In(p)' => In(p)
      BY SMTT(60), <2>2 DEF StagingInv, TypeOK, In
    <3> QED
      BY <3>1, <3>2 DEF StagingInv, OwnersApart, Holding, Owning
  <2> QED
    BY <2>1, <2>2
<1>7. ASSUME missed' = 0, NEW v \in Request
      PROVE  Untouched(v)'
  <2>1. \A u \in Request : Untouched(u)
    BY <1>7 DEF StagingInv, OwnersSafe, faults
  <2>2. \A u \in Request : pc'[u] \in Acting => pc[u] \in Acting /\ at'[u] = at[u] /\ u # w
    BY DEF StagingInv, TypeOK, Acting
  <2>3. CASE /\ Here(w) /\ Renamed(Own(w), "abandoned")
             /\ at' = [at EXCEPT ![w] = <<Own(w), name[Own(w)] + 1>>] /\ Goto(w, "expiring")
             /\ UNCHANGED <<recorded, commit, lease>>
    <3>1. at'[w] = <<Own(w), name[Own(w)] + 1>> /\ \A u \in Request \ {w} : at'[u] = at[u] /\ pc'[u] = pc[u]
      BY <2>3 DEF StagingInv, TypeOK
    <3>2. \A u \in Request \ {w} : at[u] # at'[w] /\ (In(at[u])' => In(at[u]))
      BY <1>e, <2>3, <3>1
    <3> QED
      BY <2>1, <2>2, <3>1, <3>2 DEF Untouched
  <2>4. CASE (Vanishes(Own(w), "unused") \/ UNCHANGED directories) /\ Over(w)
    <3>1. pc'[w] = "idle" /\ \A u \in Request \ {w} : pc'[u] = pc[u] /\ at'[u] = at[u]
      BY <2>4 DEF StagingInv, TypeOK
    <3>2. \A p : In(p)' => In(p)
      BY <2>4 DEF StagingInv, TypeOK, In
    <3>3. \A u \in Request : pc'[u] \in Holding /\ In(at[u])' =>
             pc[u] \in Holding /\ In(at[u]) /\ at'[u] = at[u]
      BY SMTT(60), <3>1, <3>2 DEF Holding, Owning
    <3> QED
      BY <2>1, <2>2, <3>3, StillUntouched
  <2> QED
    BY <2>3, <2>4
<1>10. AdmissionLeft'
  BY <1>0, BoundsAssumption DEF StagingInv, TypeOK, AdmissionLeft, Seeking
<1>g. \/ /\ Here(w) /\ Renamed(Own(w), "abandoned") /\ UNCHANGED <<recorded, commit, lease>>
         /\ at' = [at EXCEPT ![w] = <<Own(w), name[Own(w)] + 1>>] /\ Goto(w, "expiring")
      \/ /\ (Here(w) /\ Vanishes(Own(w), "unused")) \/ UNCHANGED directories
         /\ at' = [at EXCEPT ![w] = NoPath] /\ Goto(w, "idle")
  BY <1>c
<1>h. /\ pc[w] \in Owning /\ UNCHANGED <<todo, removing, crashes, removals, failures, missed>>
      /\ pc'[w] \in {"idle", "expiring"} /\ \A v \in Request \ {w} : pc'[v] = pc[v] /\ at'[v] = at[v]
  BY DEF StagingInv, TypeOK, Owning, faults
<1>i. \A v \in Request : at[v] \in Path \cup {NoPath} /\ Known(at[v])
  BY DEF StagingInv, TypeOK, NamesKnown
<1>j. ASSUME ~ UNCHANGED directories
      PROVE  /\ In(at[w]) /\ Own(w) \in Dir /\ heart'[Own(w)] = "none"
             /\ \A d \in Dir \ {Own(w)} :
                    /\ place'[d] = place[d] /\ name'[d] = name[d] /\ lease'[d] = lease[d]
                    /\ commit'[d] = commit[d] /\ heart'[d] = heart[d] /\ by'[d] = by[d]
  BY <1>0, <1>d, <1>g, <1>j DEF StagingInv, TypeOK
<1>k. ASSUME NEW p \in Path \cup {NoPath}, Known(p), ~ UNCHANGED directories
      PROVE  Known(p)' /\ (In(p)' => In(p) /\ p[1] # Own(w))
  <2>1. CASE Here(w) /\ Renamed(Own(w), "abandoned")
    BY <1>k, <2>1, <1>j, FreshName DEF StagingInv
  <2>2. CASE Vanishes(Own(w), "unused")
    BY <1>k, <2>2, <1>j DEF In, Known, StagingInv, TypeOK
  <2> QED
    BY <1>g, <1>k, <2>1, <2>2
<1>l. ASSUME pc'[w] = "expiring"
      PROVE  /\ In(at[w]) /\ Own(w)' = Own(w) /\ lease'[Own(w)] = lease[Own(w)]
             /\ heart'[Own(w)] = "none" /\ Known(at[w])' /\ ~ UNCHANGED directories
  BY <1>0, <1>d, <1>g, <1>l DEF StagingInv, TypeOK, In, Known
<1>m. pc'[w] = "idle" => at'[w] = NoPath
  BY <1>g DEF StagingInv, TypeOK
<1> HIDE DEF Preserve, Renamed, RemoveAll, Vanishes, SetLease, Silenced, Over, Goto, Keep, Still
<1>n. ASSUME NEW v \in Request \ {w}, In(at[v])' \/ (In(at[v]) /\ pc[v] \in Owning)
      PROVE  Unmoved(v)
  <2>1. CASE UNCHANGED directories
    BY <1>h, <1>n, <2>1 DEF Unmoved, In
  <2>2. CASE ~ UNCHANGED directories
    <3>1. In(at[v]) /\ Own(v) # Own(w)
      BY <1>0, <1>f, <1>h, <1>i, <1>j, <1>k, <1>n, <2>2 DEF Holding
    <3> QED
      BY <1>h, <1>j, <2>2, <3>1 DEF Unmoved, In
  <2> QED
    BY <2>1, <2>2
<1>2. NamesKnown'
  <2>1. ASSUME NEW p \in Path \cup {NoPath}, Known(p) PROVE Known(p)'
    BY <1>k, <2>1 DEF Known
  <2>2. Known(at[w])'
    BY <1>h, <1>l, <1>m DEF Known
  <2> QED
    BY <1>h, <2>1, <2>2 DEF NamesKnown, StagingInv, TypeOK
<1>5. HeartsTrue'
  <2>1. ASSUME NEW d \in Dir, heart'[d] # "none" PROVE lease'[d] # 0
    BY <1>j, <2>1 DEF HeartsTrue, StagingInv
  <2>2. ASSUME NEW v \in Request, In(at[v])'
        PROVE  /\ pc'[v] \in Owning /\ heart'[Own(v)'] # "none" => by'[Own(v)'] = v
               /\ pc'[v] = "expiring" => heart'[Own(v)'] = "none"
    <3>1. CASE v = w
      BY <1>h, <1>l, <3>1 DEF Owning
    <3>2. CASE v # w
      <4>1. Unmoved(v)
        BY <1>n, <2>2, <3>2
      <4> QED
        BY <4>1 DEF Unmoved, HeartsTrue, StagingInv, Own
    <3> QED
      BY <3>1, <3>2
  <2> QED
    BY <2>1, <2>2 DEF HeartsTrue
<1>6. ASSUME missed' = 0, NEW v \in Request
      PROVE  LeaseKept(v)' /\ ActingTrue(v)'
  <2>1. LeaseKept(v) /\ ActingTrue(v)
    BY <1>6, <1>h DEF StagingInv, OwnersSafe
  <2>2. CASE v = w
    BY <1>h, <1>l, <2>1, <2>2 DEF LeaseKept, ActingTrue, Holding, Owning
  <2>3. CASE v # w
    BY <1>n, <2>1, <2>3, LeaseStays
  <2> QED
    BY <2>2, <2>3
<1>9. NothingRemoved'
  <2>1. ASSUME removals' = 0, missed' = 0, NEW v \in Request
        PROVE  OwnerPresent(v)'
    <3>1. OwnerPresent(v)
      BY <1>h, <2>1 DEF StagingInv, NothingRemoved
    <3>2. CASE v = w
      BY <1>h, <3>2 DEF OwnerPresent, Owning
    <3>3. CASE v # w
      BY <1>h, <1>n, <3>1, <3>3, OwnerStays
    <3> QED
      BY <3>2, <3>3
  <2> QED
    BY <1>h, <2>1 DEF StagingInv, NothingRemoved
<1> QED
  BY <1>1, <1>2, <1>3, <1>4, <1>5, <1>6, <1>7, <1>9, <1>10 DEF StagingInv, OwnersSafe

(* Expire keeps the invariant.                                             *)
LEMMA ExpireKeeps ==
  ASSUME StagingInv, NEW w \in Request, Expire(w)
  PROVE  StagingInv'
<1> USE DEF Expire, Own, SetLease, Over, Goto, Still
<1>0. \A v \in Request : Here(v) <=> In(at[v])
  BY HereIsIn DEF StagingInv
<1>b. \A u, v \in Request : In(at[u]) /\ In(at[v]) /\ Own(u) = Own(v) => at[u] = at[v]
  BY OneName DEF StagingInv, TypeOK
<1>c. \A v \in Request : Present(at[v]) <=> Here(v)
  BY DEF Here
<1>1. TypeOK'
  BY SMTT(60), <1>0, SelectionAssumption, LeaseAssumption, BoundsAssumption DEF StagingInv,
     TypeOK, Step, faults, FaultsLeft, NoLease, Path, NoPath, NotRemoving
<1>2. NamesKnown'
  BY <1>0 DEF StagingInv, TypeOK, NamesKnown, Known, Path, NoPath, NotRemoving
<1>3. AbsentIsEmpty'
  BY <1>0 DEF StagingInv, TypeOK, AbsentIsEmpty, In, NoLease, faults
<1>4. OwnersApart'
  BY <1>0 DEF StagingInv, TypeOK, NamesKnown, Known, OwnersApart, Holding, Owning, In, Path,
     NoPath, faults
<1>5. HeartsTrue'
  BY <1>0, LeaseAssumption DEF StagingInv, TypeOK, OwnersApart, AbsentIsEmpty, NamesKnown, Known,
     HeartsTrue, Holding, Owning, In, Path, NoPath, NoLease, faults
<1>6. ASSUME missed' = 0, NEW v \in Request
      PROVE  LeaseKept(v)'
  BY SMTT(60), <1>0, <1>b, <1>c, <1>6, LeaseAssumption DEF StagingInv, TypeOK, NamesKnown, Known,
     OwnersApart, OwnersSafe, LeaseKept, Untouched, ActingTrue, Holding, Acting, Owning, In,
     Path, NoPath, NoLease, faults
<1>7. ASSUME missed' = 0, NEW v \in Request
      PROVE  Untouched(v)'
  BY SMTT(60), <1>0, <1>7 DEF StagingInv, TypeOK, NamesKnown, Known, OwnersApart, OwnersSafe,
     LeaseKept, Untouched, Holding, Acting, Owning, In, Path, NoPath, NoLease, faults
<1>8. ASSUME missed' = 0, NEW v \in Request
      PROVE  ActingTrue(v)'
  BY SMTT(60), <1>0, <1>8 DEF StagingInv, TypeOK, OwnersSafe, Untouched, ActingTrue, Holding,
     Acting, Owning, In, Path, NoPath, NoLease, faults
<1>9. NothingRemoved'
  BY <1>0, LeaseAssumption DEF StagingInv, TypeOK, NamesKnown, Known, OwnersApart, OwnersSafe,
     LeaseKept, Untouched, ActingTrue, NothingRemoved, OwnerPresent, HeartsTrue, Beating,
     Holding, Acting, Owning, In, Path, NoPath, NoLease, NotRemoving, faults
<1>10. AdmissionLeft'
  BY <1>0, BoundsAssumption DEF StagingInv, TypeOK, AdmissionLeft, Seeking
<1> QED
  BY <1>1, <1>2, <1>3, <1>4, <1>5, <1>6, <1>7, <1>8, <1>9, <1>10 DEF StagingInv, OwnersSafe

(* PublishBlocked keeps the invariant.                                     *)
LEMMA PublishBlockedKeeps ==
  ASSUME StagingInv, NEW w \in Request, NEW operation \in Operation, PublishBlocked(w, operation)
  PROVE  StagingInv'
<1> USE DEF PublishBlocked, Own, Over, Goto, Keep, Still, directories
<1>0. \A v \in Request : Here(v) <=> In(at[v])
  BY HereIsIn DEF StagingInv
<1>1. TypeOK'
  <2>1. /\ place' \in [Dir -> {"unused", "active", "abandoned", "published"}]
        /\ name' \in [Dir -> Nat] /\ recorded' \in [Dir -> Selection \cup {None}]
        /\ commit' \in [Dir -> BOOLEAN] /\ lease' \in [Dir -> -1 .. Lease]
        /\ heart' \in [Dir -> {"none", "asleep", "writing"}]
        /\ by' \in [Dir -> Request \cup {None}]
    BY SelectionAssumption, LeaseAssumption DEF StagingInv, TypeOK, NoLease
  <2>2. /\ pc' \in [Request -> Step] /\ at' \in [Request -> Path \cup {NoPath}]
        /\ wants' \in [Request -> Selection] /\ loop' \in [Request -> {"abandoned", "active"}]
        /\ todo' \in [Request -> SUBSET Path] /\ admitted' \in [Request -> 0 .. MaxAdmitted]
    BY SelectionAssumption, BoundsAssumption DEF StagingInv, TypeOK, Step
  <2>3. /\ removing' \in [step : {"none", "checked", "deleting"}, at : Path \cup {NoPath}]
        /\ {crashes, removals, failures, missed}' \subseteq 0 .. MaxFaults
    BY DEF StagingInv, TypeOK, NotRemoving, faults
  <2> QED
    BY <2>1, <2>2, <2>3 DEF TypeOK
<1>2. NamesKnown'
  BY SMTT(60), <1>0 DEF StagingInv, TypeOK, NamesKnown, Known, Path, NoPath, NotRemoving
<1>3. AbsentIsEmpty'
  BY <1>0 DEF StagingInv, TypeOK, AbsentIsEmpty, In, NoLease, faults
<1>4. OwnersApart'
  BY SMTT(60), <1>0 DEF StagingInv, TypeOK, NamesKnown, Known, OwnersApart, Holding, Owning, In,
     Path, NoPath, faults
<1>5. HeartsTrue'
  BY <1>0, LeaseAssumption DEF StagingInv, TypeOK, OwnersApart, AbsentIsEmpty, NamesKnown, Known,
     HeartsTrue, Holding, Owning, In, Path, NoPath, NoLease, faults
<1>6. ASSUME missed' = 0, NEW v \in Request
      PROVE  LeaseKept(v)'
  BY <1>0, <1>6, LeaseAssumption DEF StagingInv, TypeOK, NamesKnown, Known, OwnersApart,
     OwnersSafe, LeaseKept, Untouched, ActingTrue, Holding, Acting, Owning, In, Path, NoPath,
     NoLease, faults
<1>7. ASSUME missed' = 0, NEW v \in Request
      PROVE  Untouched(v)'
  <2>1. \A u \in Request : Untouched(u)
    BY <1>7 DEF StagingInv, OwnersSafe, faults
  <2>2. \A u \in Request : pc'[u] \in Acting => pc[u] \in Acting /\ at'[u] = at[u]
    BY DEF StagingInv, TypeOK, Acting
  <2>3. \A u \in Request : pc'[u] \in Holding /\ In(at[u])' =>
           pc[u] \in Holding /\ In(at[u]) /\ at'[u] = at[u]
    BY SMTT(60) DEF StagingInv, TypeOK, In, Holding, Owning
  <2> QED
    BY <2>3, <2>1, <2>2, StillUntouched
<1>8. ASSUME missed' = 0, NEW v \in Request
      PROVE  ActingTrue(v)'
  BY <1>0, <1>8 DEF StagingInv, TypeOK, OwnersSafe, Untouched, ActingTrue, Holding, Acting,
     Owning, In, Path, NoPath, NoLease, faults
<1>9. NothingRemoved'
  BY <1>0, LeaseAssumption DEF StagingInv, TypeOK, NamesKnown, Known, OwnersApart, OwnersSafe,
     LeaseKept, Untouched, ActingTrue, NothingRemoved, OwnerPresent, HeartsTrue, Beating,
     Holding, Acting, Owning, In, Path, NoPath, NoLease, NotRemoving, faults
<1>10. AdmissionLeft'
  BY <1>0, BoundsAssumption DEF StagingInv, TypeOK, AdmissionLeft, Seeking
<1> QED
  BY <1>1, <1>2, <1>3, <1>4, <1>5, <1>6, <1>7, <1>8, <1>9, <1>10 DEF StagingInv, OwnersSafe

(* PublishList keeps the invariant.                                        *)
LEMMA PublishListKeeps ==
  ASSUME StagingInv, NEW w \in Request, PublishList(w)
  PROVE  StagingInv'
<1> USE DEF PublishList, Own, Goto, Keep, Still, directories
<1>0. \A v \in Request : Here(v) <=> In(at[v])
  BY HereIsIn DEF StagingInv
<1>d. In(at[w]) => at[w] \in Path
  BY DEF StagingInv, TypeOK, In, Path, NoPath
<1>1. TypeOK'
  <2>1. DirectoriesOK'
    BY DEF DirectoriesOK, StagingInv, TypeOK
  <2>2. /\ pc' \in [Request -> Step] /\ at' \in [Request -> Path \cup {NoPath}]
        /\ wants' \in [Request -> Selection] /\ loop' \in [Request -> {"abandoned", "active"}]
        /\ todo' \in [Request -> SUBSET Path] /\ admitted' \in [Request -> 0 .. MaxAdmitted]
    BY <1>0, <1>d, SelectionAssumption, BoundsAssumption DEF StagingInv, TypeOK, Step
  <2>3. /\ removing' \in [step : {"none", "checked", "deleting"}, at : Path \cup {NoPath}]
        /\ {crashes, removals, failures, missed}' \subseteq 0 .. MaxFaults
    BY DEF StagingInv, TypeOK, NotRemoving, faults
  <2> QED
    BY <2>1, <2>2, <2>3 DEF TypeOK, DirectoriesOK
<1>2. NamesKnown'
  BY SMTT(60), <1>0 DEF StagingInv, TypeOK, NamesKnown, Known, Path, NoPath, NotRemoving
<1>3. AbsentIsEmpty'
  BY <1>0 DEF StagingInv, TypeOK, AbsentIsEmpty, In, NoLease, faults
<1>4. OwnersApart'
  BY SMTT(60), <1>0 DEF StagingInv, TypeOK, NamesKnown, Known, OwnersApart, Holding, Owning, In,
     Path, NoPath, faults
<1>5. HeartsTrue'
  BY <1>0, LeaseAssumption DEF StagingInv, TypeOK, OwnersApart, AbsentIsEmpty, NamesKnown, Known,
     HeartsTrue, Holding, Owning, In, Path, NoPath, NoLease, faults
<1>6. ASSUME missed' = 0, NEW v \in Request
      PROVE  LeaseKept(v)'
  BY SMTT(60), <1>0, <1>6, LeaseAssumption DEF StagingInv, TypeOK, NamesKnown, Known,
     OwnersApart, OwnersSafe, LeaseKept, Untouched, ActingTrue, Holding, Acting, Owning, In,
     Path, NoPath, NoLease, faults
<1>7. ASSUME missed' = 0, NEW v \in Request
      PROVE  Untouched(v)'
  BY SMTT(60), <1>0, <1>7 DEF StagingInv, TypeOK, NamesKnown, Known, OwnersApart, OwnersSafe,
     LeaseKept, Untouched, Holding, Acting, Owning, In, Path, NoPath, NoLease, faults
<1>8. ASSUME missed' = 0, NEW v \in Request
      PROVE  ActingTrue(v)'
  BY <1>0, <1>8 DEF StagingInv, TypeOK, OwnersSafe, Untouched, ActingTrue, Holding, Acting,
     Owning, In, Path, NoPath, NoLease, faults
<1>9. NothingRemoved'
  BY <1>0, LeaseAssumption DEF StagingInv, TypeOK, NamesKnown, Known, OwnersApart, OwnersSafe,
     LeaseKept, Untouched, ActingTrue, NothingRemoved, OwnerPresent, HeartsTrue, Beating,
     Holding, Acting, Owning, In, Path, NoPath, NoLease, NotRemoving, faults
<1>10. AdmissionLeft'
  BY <1>0, BoundsAssumption DEF StagingInv, TypeOK, AdmissionLeft, Seeking
<1> QED
  BY <1>1, <1>2, <1>3, <1>4, <1>5, <1>6, <1>7, <1>8, <1>9, <1>10 DEF StagingInv, OwnersSafe

(* PublishClean keeps the invariant.                                       *)
LEMMA PublishCleanKeeps ==
  ASSUME StagingInv, NEW w \in Request, PublishClean(w)
  PROVE  StagingInv'
<1> USE DEF PublishClean, Own, Silenced, Goto, Keep, Still
<1>0. \A v \in Request : Here(v) <=> In(at[v])
  BY HereIsIn DEF StagingInv
<1>b. \A u, v \in Request : In(at[u]) /\ In(at[v]) /\ Own(u) = Own(v) => at[u] = at[v]
  BY OneName DEF StagingInv, TypeOK
<1>c. \A v \in Request : Present(at[v]) <=> Here(v)
  BY DEF Here
<1>1. TypeOK'
  <2>1. recorded' \in [Dir -> Selection \cup {None}] /\ commit' \in [Dir -> BOOLEAN]
    BY ZenonT(60) DEF StagingInv, TypeOK
  <2>2. heart' \in [Dir -> {"none", "asleep", "writing"}] /\ by' \in [Dir -> Request \cup {None}]
    BY SMTT(60) DEF StagingInv, TypeOK
  <2>3. pc' \in [Request -> Step]
    BY DEF StagingInv, TypeOK, Step
  <2>4. todo' \in [Request -> SUBSET Path]
    BY DEF StagingInv, TypeOK
  <2> QED
    BY <2>1, <2>2, <2>3, <2>4 DEF StagingInv, TypeOK, faults
<1>2. NamesKnown'
  BY <1>0 DEF StagingInv, TypeOK, NamesKnown, Known, Path, NoPath, NotRemoving
<1>3. AbsentIsEmpty'
  BY <1>0 DEF StagingInv, TypeOK, AbsentIsEmpty, In, NoLease, faults
<1>4. OwnersApart'
  BY SMTT(60), <1>0 DEF StagingInv, TypeOK, NamesKnown, Known, OwnersApart, Holding, Owning, In,
     Path, NoPath, faults
<1>5. HeartsTrue'
  BY <1>0, LeaseAssumption DEF StagingInv, TypeOK, OwnersApart, AbsentIsEmpty, NamesKnown, Known,
     HeartsTrue, Holding, Owning, In, Path, NoPath, NoLease, faults
<1>6. ASSUME missed' = 0, NEW v \in Request
      PROVE  LeaseKept(v)'
  BY SMTT(60), <1>0, <1>b, <1>c, <1>6, LeaseAssumption DEF StagingInv, TypeOK, NamesKnown, Known,
     OwnersApart, OwnersSafe, LeaseKept, Untouched, ActingTrue, Holding, Acting, Owning, In,
     Path, NoPath, NoLease, faults
<1>7. ASSUME missed' = 0, NEW v \in Request
      PROVE  Untouched(v)'
  BY SMTT(60), <1>0, <1>7 DEF StagingInv, TypeOK, NamesKnown, Known, OwnersApart, OwnersSafe,
     LeaseKept, Untouched, Holding, Acting, Owning, In, Path, NoPath, NoLease, faults
<1>8. ASSUME missed' = 0, NEW v \in Request
      PROVE  ActingTrue(v)'
  BY <1>0, <1>8 DEF StagingInv, TypeOK, OwnersSafe, Untouched, ActingTrue, Holding, Acting,
     Owning, In, Path, NoPath, NoLease, faults
<1>9. NothingRemoved'
  BY <1>0, LeaseAssumption DEF StagingInv, TypeOK, NamesKnown, Known, OwnersApart, OwnersSafe,
     LeaseKept, Untouched, ActingTrue, NothingRemoved, OwnerPresent, HeartsTrue, Beating,
     Holding, Acting, Owning, In, Path, NoPath, NoLease, NotRemoving, faults
<1>10. AdmissionLeft'
  BY <1>0, BoundsAssumption DEF StagingInv, TypeOK, AdmissionLeft, Seeking
<1> QED
  BY <1>1, <1>2, <1>3, <1>4, <1>5, <1>6, <1>7, <1>8, <1>9, <1>10 DEF StagingInv, OwnersSafe

(* PublishUnlease keeps the invariant.                                     *)
LEMMA PublishUnleaseKeeps ==
  ASSUME StagingInv, NEW w \in Request, PublishUnlease(w)
  PROVE  StagingInv'
<1> USE DEF PublishUnlease, Own, SetLease, Goto, Keep, Still
<1>0. \A v \in Request : Here(v) <=> In(at[v])
  BY HereIsIn DEF StagingInv
<1>b. \A u, v \in Request : In(at[u]) /\ In(at[v]) /\ Own(u) = Own(v) => at[u] = at[v]
  BY OneName DEF StagingInv, TypeOK
<1>c. \A v \in Request : Present(at[v]) <=> Here(v)
  BY DEF Here
<1>1. TypeOK'
  BY SMTT(60), <1>0, SelectionAssumption, LeaseAssumption, BoundsAssumption DEF StagingInv,
     TypeOK, Step, faults, FaultsLeft, NoLease, Path, NoPath, NotRemoving
<1>2. NamesKnown'
  BY <1>0 DEF StagingInv, TypeOK, NamesKnown, Known, Path, NoPath, NotRemoving
<1>3. AbsentIsEmpty'
  BY <1>0 DEF StagingInv, TypeOK, AbsentIsEmpty, In, NoLease, faults
<1>4. OwnersApart'
  BY <1>0 DEF StagingInv, TypeOK, NamesKnown, Known, OwnersApart, Holding, Owning, In, Path,
     NoPath, faults
<1>5. HeartsTrue'
  BY <1>0, LeaseAssumption DEF StagingInv, TypeOK, OwnersApart, AbsentIsEmpty, NamesKnown, Known,
     HeartsTrue, Holding, Owning, In, Path, NoPath, NoLease, faults
<1>6. ASSUME missed' = 0, NEW v \in Request
      PROVE  LeaseKept(v)'
  BY <1>0, <1>6, LeaseAssumption DEF StagingInv, TypeOK, NamesKnown, Known, OwnersApart,
     OwnersSafe, LeaseKept, Untouched, ActingTrue, Holding, Acting, Owning, In, Path, NoPath,
     NoLease, faults
<1>7. ASSUME missed' = 0, NEW v \in Request
      PROVE  Untouched(v)'
  BY <1>0, <1>7 DEF StagingInv, TypeOK, NamesKnown, Known, OwnersApart, OwnersSafe, LeaseKept,
     Untouched, Holding, Acting, Owning, In, Path, NoPath, NoLease, faults
<1>8. ASSUME missed' = 0, NEW v \in Request
      PROVE  ActingTrue(v)'
  BY SMTT(60), <1>0, <1>8 DEF StagingInv, TypeOK, OwnersSafe, Untouched, ActingTrue, Holding,
     Acting, Owning, In, Path, NoPath, NoLease, faults
<1>9. NothingRemoved'
  BY <1>0, <1>b, <1>c, LeaseAssumption DEF StagingInv, TypeOK, NamesKnown, Known, OwnersApart,
     OwnersSafe, LeaseKept, Untouched, ActingTrue, NothingRemoved, OwnerPresent, HeartsTrue,
     Beating, Holding, Acting, Owning, In, Path, NoPath, NoLease, NotRemoving, faults
<1>10. AdmissionLeft'
  BY <1>0, BoundsAssumption DEF StagingInv, TypeOK, AdmissionLeft, Seeking
<1> QED
  BY <1>1, <1>2, <1>3, <1>4, <1>5, <1>6, <1>7, <1>8, <1>9, <1>10 DEF StagingInv, OwnersSafe

(* PublishRename keeps the invariant.                                      *)
LEMMA PublishRenameKeeps ==
  ASSUME StagingInv, NEW w \in Request, NEW kind, PublishRename(w, kind)
  PROVE  StagingInv'
<1> USE DEF PublishRename, Own, Vanishes, SetLease, Silenced, Over, Goto, Still, directories
<1>0. \A v \in Request : Here(v) <=> In(at[v])
  BY HereIsIn DEF StagingInv
<1>b. \A u, v \in Request : In(at[u]) /\ In(at[v]) /\ Own(u) = Own(v) => at[u] = at[v]
  BY OneName DEF StagingInv, TypeOK
<1>c. \A v \in Request : Present(at[v]) <=> Here(v)
  BY DEF Here
<1>1. TypeOK'
  <2>1. DirectoriesOK'
    BY VanishesTyped DEF DirectoriesOK, StagingInv, TypeOK
  <2>2. /\ pc' \in [Request -> Step] /\ at' \in [Request -> Path \cup {NoPath}]
        /\ wants' \in [Request -> Selection] /\ loop' \in [Request -> {"abandoned", "active"}]
        /\ todo' \in [Request -> SUBSET Path] /\ admitted' \in [Request -> 0 .. MaxAdmitted]
    BY SelectionAssumption, BoundsAssumption DEF StagingInv, TypeOK, Step
  <2>3. /\ removing' \in [step : {"none", "checked", "deleting"}, at : Path \cup {NoPath}]
        /\ {crashes, removals, failures, missed}' \subseteq 0 .. MaxFaults
    BY DEF StagingInv, TypeOK, NotRemoving, faults
  <2> QED
    BY <2>1, <2>2, <2>3 DEF TypeOK, DirectoriesOK
<1>2. NamesKnown'
  BY <1>0 DEF StagingInv, TypeOK, NamesKnown, Known, Path, NoPath, NotRemoving
<1>3. AbsentIsEmpty'
  BY <1>0 DEF StagingInv, TypeOK, AbsentIsEmpty, In, NoLease, faults
<1>4. OwnersApart'
  BY <1>0 DEF StagingInv, TypeOK, NamesKnown, Known, OwnersApart, Holding, Owning, In, Path,
     NoPath, faults
<1>5. HeartsTrue'
  <2>1. \A v \in Request : pc'[v] \in Holding => pc'[v] = pc[v] /\ at'[v] = at[v]
    BY DEF StagingInv, TypeOK, Holding, Owning
  <2>2. CASE UNCHANGED directories
    BY <2>1, <2>2, HeartsStill DEF StagingInv
  <2>3. CASE ~ UNCHANGED directories
    <3>1. Own(w) \in Dir
      BY <1>0, <1>c, <2>3 DEF In
    <3> QED
      BY <1>0, <1>c, <2>1, <2>3, <3>1, HeartsVanish DEF StagingInv
  <2> QED
    BY <2>2, <2>3
<1>6. ASSUME missed' = 0, NEW v \in Request
      PROVE  LeaseKept(v)'
  BY <1>0, <1>6, LeaseAssumption DEF StagingInv, TypeOK, NamesKnown, Known, OwnersApart,
     OwnersSafe, LeaseKept, Untouched, ActingTrue, Holding, Acting, Owning, In, Path, NoPath,
     NoLease, faults
<1>7. ASSUME missed' = 0, NEW v \in Request
      PROVE  Untouched(v)'
  <2>1. \A u \in Request : Untouched(u)
    BY <1>7 DEF StagingInv, OwnersSafe, faults
  <2>2. \A u \in Request : pc'[u] \in Acting => pc[u] \in Acting /\ at'[u] = at[u]
    BY DEF StagingInv, TypeOK, Acting
  <2>3. \A u \in Request : pc'[u] \in Holding /\ In(at[u])' =>
           pc[u] \in Holding /\ In(at[u]) /\ at'[u] = at[u]
    BY DEF StagingInv, TypeOK, In, Holding, Owning
  <2> QED
    BY <2>3, <2>1, <2>2, StillUntouched
<1>8. ASSUME missed' = 0, NEW v \in Request
      PROVE  ActingTrue(v)'
  BY SMTT(60), <1>0, <1>8 DEF StagingInv, TypeOK, OwnersSafe, Untouched, ActingTrue, Holding,
     Acting, Owning, In, Path, NoPath, NoLease, faults
<1>9. NothingRemoved'
  BY <1>0, <1>b, <1>c, LeaseAssumption DEF StagingInv, TypeOK, NamesKnown, Known, OwnersApart,
     OwnersSafe, LeaseKept, Untouched, ActingTrue, NothingRemoved, OwnerPresent, HeartsTrue,
     Beating, Holding, Acting, Owning, In, Path, NoPath, NoLease, NotRemoving, faults
<1>10. AdmissionLeft'
  BY <1>0, BoundsAssumption DEF StagingInv, TypeOK, AdmissionLeft, Seeking
<1> QED
  BY <1>1, <1>2, <1>3, <1>4, <1>5, <1>6, <1>7, <1>8, <1>9, <1>10 DEF StagingInv, OwnersSafe

(* Beat keeps the invariant.                                               *)
LEMMA BeatKeeps ==
  ASSUME StagingInv, NEW d \in Dir, Beat(d)
  PROVE  StagingInv'
<1> USE DEF Beat, Own, Silenced, requests, Still
<1>0. \A v \in Request : Here(v) <=> In(at[v])
  BY HereIsIn DEF StagingInv
<1>1. TypeOK'
  BY <1>0, SelectionAssumption, LeaseAssumption, BoundsAssumption DEF StagingInv, TypeOK, Step,
     faults, FaultsLeft, NoLease, Path, NoPath, NotRemoving
<1>2. NamesKnown'
  BY <1>0 DEF StagingInv, TypeOK, NamesKnown, Known, Path, NoPath, NotRemoving
<1>3. AbsentIsEmpty'
  BY <1>0 DEF StagingInv, TypeOK, AbsentIsEmpty, In, NoLease, faults
<1>4. OwnersApart'
  BY <1>0 DEF StagingInv, TypeOK, NamesKnown, Known, OwnersApart, Holding, Owning, In, Path,
     NoPath, faults
<1>5. HeartsTrue'
  BY <1>0, LeaseAssumption DEF StagingInv, TypeOK, OwnersApart, AbsentIsEmpty, NamesKnown, Known,
     HeartsTrue, Holding, Owning, In, Path, NoPath, NoLease, faults
<1>6. ASSUME missed' = 0, NEW v \in Request
      PROVE  LeaseKept(v)'
  BY <1>0, <1>6, LeaseAssumption DEF StagingInv, TypeOK, NamesKnown, Known, OwnersApart,
     OwnersSafe, LeaseKept, Untouched, ActingTrue, Holding, Acting, Owning, In, Path, NoPath,
     NoLease, faults
<1>7. ASSUME missed' = 0, NEW v \in Request
      PROVE  Untouched(v)'
  BY <1>0, <1>7 DEF StagingInv, TypeOK, NamesKnown, Known, OwnersApart, OwnersSafe, LeaseKept,
     Untouched, Holding, Acting, Owning, In, Path, NoPath, NoLease, faults
<1>8. ASSUME missed' = 0, NEW v \in Request
      PROVE  ActingTrue(v)'
  BY <1>0, <1>8 DEF StagingInv, TypeOK, OwnersSafe, Untouched, ActingTrue, Holding, Acting,
     Owning, In, Path, NoPath, NoLease, faults
<1>9. NothingRemoved'
  BY <1>0, LeaseAssumption DEF StagingInv, TypeOK, NamesKnown, Known, OwnersApart, OwnersSafe,
     LeaseKept, Untouched, ActingTrue, NothingRemoved, OwnerPresent, HeartsTrue, Beating,
     Holding, Acting, Owning, In, Path, NoPath, NoLease, NotRemoving, faults
<1>10. AdmissionLeft'
  BY <1>0, BoundsAssumption DEF StagingInv, TypeOK, AdmissionLeft, Seeking
<1> QED
  BY <1>1, <1>2, <1>3, <1>4, <1>5, <1>6, <1>7, <1>8, <1>9, <1>10 DEF StagingInv, OwnersSafe

(* BeatLands keeps the invariant.                                          *)
LEMMA BeatLandsKeeps ==
  ASSUME StagingInv, NEW d \in Dir, BeatLands(d)
  PROVE  StagingInv'
<1> USE DEF BeatLands, Own, SetLease, requests, Still
<1>0. \A v \in Request : Here(v) <=> In(at[v])
  BY HereIsIn DEF StagingInv
<1>b. \A u, v \in Request : In(at[u]) /\ In(at[v]) /\ Own(u) = Own(v) => at[u] = at[v]
  BY OneName DEF StagingInv, TypeOK
<1>c. \A v \in Request : Present(at[v]) <=> Here(v)
  BY DEF Here
<1>1. TypeOK'
  BY <1>0, SelectionAssumption, LeaseAssumption, BoundsAssumption DEF StagingInv, TypeOK, Step,
     faults, FaultsLeft, NoLease, Path, NoPath, NotRemoving
<1>2. NamesKnown'
  BY <1>0 DEF StagingInv, TypeOK, NamesKnown, Known, Path, NoPath, NotRemoving
<1>3. AbsentIsEmpty'
  BY <1>0 DEF StagingInv, TypeOK, AbsentIsEmpty, In, NoLease, faults
<1>4. OwnersApart'
  BY <1>0 DEF StagingInv, TypeOK, NamesKnown, Known, OwnersApart, Holding, Owning, In, Path,
     NoPath, faults
<1>5. HeartsTrue'
  BY <1>0, LeaseAssumption DEF StagingInv, TypeOK, OwnersApart, AbsentIsEmpty, NamesKnown, Known,
     HeartsTrue, Holding, Owning, In, Path, NoPath, NoLease, faults
<1>6. ASSUME missed' = 0, NEW v \in Request
      PROVE  LeaseKept(v)'
  BY <1>0, <1>6, LeaseAssumption DEF StagingInv, TypeOK, NamesKnown, Known, OwnersApart,
     OwnersSafe, LeaseKept, Untouched, ActingTrue, Holding, Acting, Owning, In, Path, NoPath,
     NoLease, faults
<1>7. ASSUME missed' = 0, NEW v \in Request
      PROVE  Untouched(v)'
  BY <1>0, <1>7 DEF StagingInv, TypeOK, NamesKnown, Known, OwnersApart, OwnersSafe, LeaseKept,
     Untouched, Holding, Acting, Owning, In, Path, NoPath, NoLease, faults
<1>8. ASSUME missed' = 0, NEW v \in Request
      PROVE  ActingTrue(v)'
  BY SMTT(60), <1>0, <1>b, <1>c, <1>8, LeaseAssumption DEF StagingInv, TypeOK, OwnersSafe,
     Untouched, ActingTrue, Holding, Acting, Owning, In, Path, NoPath, NoLease, faults,
     NamesKnown, Known
<1>9. NothingRemoved'
  BY <1>0, LeaseAssumption DEF StagingInv, TypeOK, NamesKnown, Known, OwnersApart, OwnersSafe,
     LeaseKept, Untouched, ActingTrue, NothingRemoved, OwnerPresent, HeartsTrue, Beating,
     Holding, Acting, Owning, In, Path, NoPath, NoLease, NotRemoving, faults
<1>10. AdmissionLeft'
  BY <1>0, BoundsAssumption DEF StagingInv, TypeOK, AdmissionLeft, Seeking
<1> QED
  BY <1>1, <1>2, <1>3, <1>4, <1>5, <1>6, <1>7, <1>8, <1>9, <1>10 DEF StagingInv, OwnersSafe

(* BeatFails keeps the invariant.                                          *)
LEMMA BeatFailsKeeps ==
  ASSUME StagingInv, NEW d \in Dir, BeatFails(d)
  PROVE  StagingInv'
<1> USE DEF BeatFails, Own, Silenced, requests
<1>0. \A v \in Request : Here(v) <=> In(at[v])
  BY HereIsIn DEF StagingInv
<1>1. TypeOK'
  BY <1>0, SelectionAssumption, LeaseAssumption, BoundsAssumption DEF StagingInv, TypeOK, Step,
     faults, FaultsLeft, NoLease, Path, NoPath, NotRemoving
<1>2. NamesKnown'
  BY <1>0 DEF StagingInv, TypeOK, NamesKnown, Known, Path, NoPath, NotRemoving
<1>3. AbsentIsEmpty'
  BY <1>0 DEF StagingInv, TypeOK, AbsentIsEmpty, In, NoLease, faults
<1>4. OwnersApart'
  BY <1>0 DEF StagingInv, TypeOK, NamesKnown, Known, OwnersApart, Holding, Owning, In, Path,
     NoPath, faults
<1>5. HeartsTrue'
  BY <1>0, LeaseAssumption DEF StagingInv, TypeOK, OwnersApart, AbsentIsEmpty, NamesKnown, Known,
     HeartsTrue, Holding, Owning, In, Path, NoPath, NoLease, faults
<1>6. ASSUME missed' = 0, NEW v \in Request
      PROVE  LeaseKept(v)'
  BY <1>0, <1>6, LeaseAssumption DEF StagingInv, TypeOK, NamesKnown, Known, OwnersApart,
     OwnersSafe, LeaseKept, Untouched, ActingTrue, Holding, Acting, Owning, In, Path, NoPath,
     NoLease, faults
<1>7. ASSUME missed' = 0, NEW v \in Request
      PROVE  Untouched(v)'
  BY <1>0, <1>7 DEF StagingInv, TypeOK, NamesKnown, Known, OwnersApart, OwnersSafe, LeaseKept,
     Untouched, Holding, Acting, Owning, In, Path, NoPath, NoLease, faults
<1>8. ASSUME missed' = 0, NEW v \in Request
      PROVE  ActingTrue(v)'
  BY <1>0, <1>8 DEF StagingInv, TypeOK, OwnersSafe, Untouched, ActingTrue, Holding, Acting,
     Owning, In, Path, NoPath, NoLease, faults
<1>9. NothingRemoved'
  BY <1>0, LeaseAssumption DEF StagingInv, TypeOK, NamesKnown, Known, OwnersApart, OwnersSafe,
     LeaseKept, Untouched, ActingTrue, NothingRemoved, OwnerPresent, HeartsTrue, Beating,
     Holding, Acting, Owning, In, Path, NoPath, NoLease, NotRemoving, faults
<1>10. AdmissionLeft'
  BY <1>0, BoundsAssumption DEF StagingInv, TypeOK, AdmissionLeft, Seeking
<1> QED
  BY <1>1, <1>2, <1>3, <1>4, <1>5, <1>6, <1>7, <1>8, <1>9, <1>10 DEF StagingInv, OwnersSafe

(* Crash keeps the invariant.                                              *)
LEMMA CrashKeeps ==
  ASSUME StagingInv, NEW w \in Request, Crash(w)
  PROVE  StagingInv'
<1> USE DEF Crash, Own, Goto
<1>0. \A v \in Request : Here(v) <=> In(at[v])
  BY HereIsIn DEF StagingInv
<1>b. \A u, v \in Request : In(at[u]) /\ In(at[v]) /\ Own(u) = Own(v) => at[u] = at[v]
  BY OneName DEF StagingInv, TypeOK
<1>c. \A v \in Request : Present(at[v]) <=> Here(v)
  BY DEF Here
<1>f. \A v \in Request : v # w => pc'[v] = pc[v] /\ at'[v] = at[v]
  BY DEF StagingInv, TypeOK
<1>1. TypeOK'
  BY <1>0, SelectionAssumption, LeaseAssumption, BoundsAssumption DEF StagingInv, TypeOK, Step,
     faults, FaultsLeft, NoLease, Path, NoPath, NotRemoving
<1>2. NamesKnown'
  BY <1>0 DEF StagingInv, TypeOK, NamesKnown, Known, Path, NoPath, NotRemoving
<1>3. AbsentIsEmpty'
  BY <1>0 DEF StagingInv, TypeOK, AbsentIsEmpty, In, NoLease, faults
<1>4. OwnersApart'
  BY <1>0 DEF StagingInv, TypeOK, NamesKnown, Known, OwnersApart, Holding, Owning, In, Path,
     NoPath, faults
<1>5. HeartsTrue'
  BY <1>0, LeaseAssumption DEF StagingInv, TypeOK, OwnersApart, AbsentIsEmpty, NamesKnown, Known,
     HeartsTrue, Holding, Owning, In, Path, NoPath, NoLease, faults
<1>6. ASSUME missed' = 0, NEW v \in Request
      PROVE  LeaseKept(v)'
  <2>1. CASE v = w
    BY <2>1 DEF StagingInv, TypeOK, LeaseKept, Holding, Owning
  <2>2. CASE v # w
    <3> SUFFICES ASSUME pc[v] \in Holding, In(at[v]), lease[Own(v)] # NoLease
                 PROVE  /\ lease[Own(v)] > 0
                        /\ heart'[Own(v)] # "none" \/ pc[v] \in {"claimed", "sealed", "expiring"}
      BY <1>f, <2>2 DEF LeaseKept, In
    <3>1. Own(v) \in Dir
      BY DEF In
    <3>2. /\ lease[Own(v)] > 0
          /\ heart[Own(v)] # "none" \/ pc[v] \in {"claimed", "sealed", "expiring"}
      BY <1>6 DEF StagingInv, OwnersSafe, LeaseKept
    <3>3. pc[v] \in Owning /\ heart[Own(v)] # "none" => by[Own(v)] = v
      BY DEF StagingInv, HeartsTrue
    <3> QED
      BY <2>2, <3>1, <3>2, <3>3 DEF Holding
  <2> QED
    BY <2>1, <2>2
<1>7. ASSUME missed' = 0, NEW v \in Request
      PROVE  Untouched(v)'
  BY SMTT(60), <1>0, <1>7 DEF StagingInv, TypeOK, NamesKnown, Known, OwnersApart, OwnersSafe,
     LeaseKept, Untouched, Holding, Acting, Owning, In, Path, NoPath, NoLease, faults
<1>8. ASSUME missed' = 0, NEW v \in Request
      PROVE  ActingTrue(v)'
  BY SMTT(60), <1>0, <1>8 DEF StagingInv, TypeOK, OwnersSafe, Untouched, ActingTrue, Holding,
     Acting, Owning, In, Path, NoPath, NoLease, faults
<1>9. NothingRemoved'
  BY <1>0, LeaseAssumption DEF StagingInv, TypeOK, NamesKnown, Known, OwnersApart, OwnersSafe,
     LeaseKept, Untouched, ActingTrue, NothingRemoved, OwnerPresent, HeartsTrue, Beating,
     Holding, Acting, Owning, In, Path, NoPath, NoLease, NotRemoving, faults
<1>10. AdmissionLeft'
  BY <1>0, BoundsAssumption DEF StagingInv, TypeOK, AdmissionLeft, Seeking
<1> QED
  BY <1>1, <1>2, <1>3, <1>4, <1>5, <1>6, <1>7, <1>8, <1>9, <1>10 DEF StagingInv, OwnersSafe

(* RemovalCheck keeps the invariant.                                       *)
LEMMA RemovalCheckKeeps ==
  ASSUME StagingInv, NEW d \in Dir, RemovalCheck(<<d, name[d]>>)
  PROVE  StagingInv'
<1> USE DEF RemovalCheck, Own, Removable, directories, requests
<1>0. \A v \in Request : Here(v) <=> In(at[v])
  BY HereIsIn DEF StagingInv
<1>1. TypeOK'
  BY <1>0, SelectionAssumption, LeaseAssumption, BoundsAssumption DEF StagingInv, TypeOK, Step,
     faults, FaultsLeft, NoLease, Path, NoPath, NotRemoving
<1>2. NamesKnown'
  BY <1>0 DEF StagingInv, TypeOK, NamesKnown, Known, Path, NoPath, NotRemoving
<1>3. AbsentIsEmpty'
  BY <1>0 DEF StagingInv, TypeOK, AbsentIsEmpty, In, NoLease, faults
<1>4. OwnersApart'
  BY SMTT(60), <1>0 DEF StagingInv, TypeOK, NamesKnown, Known, OwnersApart, Holding, Owning, In,
     Path, NoPath, faults
<1>5. HeartsTrue'
  BY <1>0, LeaseAssumption DEF StagingInv, TypeOK, OwnersApart, AbsentIsEmpty, NamesKnown, Known,
     HeartsTrue, Holding, Owning, In, Path, NoPath, NoLease, faults
<1>6. ASSUME missed' = 0, NEW v \in Request
      PROVE  LeaseKept(v)'
  BY <1>0, <1>6, LeaseAssumption DEF StagingInv, TypeOK, NamesKnown, Known, OwnersApart,
     OwnersSafe, LeaseKept, Untouched, ActingTrue, Holding, Acting, Owning, In, Path, NoPath,
     NoLease, faults
<1>7. ASSUME missed' = 0, NEW v \in Request
      PROVE  Untouched(v)'
  BY <1>0, <1>7 DEF StagingInv, TypeOK, NamesKnown, Known, OwnersApart, OwnersSafe, LeaseKept,
     Untouched, Holding, Acting, Owning, In, Path, NoPath, NoLease, faults
<1>8. ASSUME missed' = 0, NEW v \in Request
      PROVE  ActingTrue(v)'
  BY <1>0, <1>8 DEF StagingInv, TypeOK, OwnersSafe, Untouched, ActingTrue, Holding, Acting,
     Owning, In, Path, NoPath, NoLease, faults
<1>9. NothingRemoved'
  BY <1>0, LeaseAssumption DEF StagingInv, TypeOK, NamesKnown, Known, OwnersApart, OwnersSafe,
     LeaseKept, Untouched, ActingTrue, NothingRemoved, OwnerPresent, HeartsTrue, Beating,
     Holding, Acting, Owning, In, Path, NoPath, NoLease, NotRemoving, faults
<1>10. AdmissionLeft'
  BY <1>0, BoundsAssumption DEF StagingInv, TypeOK, AdmissionLeft, Seeking
<1> QED
  BY <1>1, <1>2, <1>3, <1>4, <1>5, <1>6, <1>7, <1>8, <1>9, <1>10 DEF StagingInv, OwnersSafe

(* RemovalOpen keeps the invariant.                                        *)
LEMMA RemovalOpenKeeps ==
  ASSUME StagingInv, RemovalOpen
  PROVE  StagingInv'
<1> USE DEF RemovalOpen, Own, directories, requests, faults
<1>0. \A v \in Request : Here(v) <=> In(at[v])
  BY HereIsIn DEF StagingInv
<1>1. TypeOK'
  BY <1>0, SelectionAssumption, LeaseAssumption, BoundsAssumption DEF StagingInv, TypeOK, Step,
     faults, FaultsLeft, NoLease, Path, NoPath, NotRemoving
<1>2. NamesKnown'
  BY <1>0 DEF StagingInv, TypeOK, NamesKnown, Known, Path, NoPath, NotRemoving
<1>3. AbsentIsEmpty'
  BY <1>0 DEF StagingInv, TypeOK, AbsentIsEmpty, In, NoLease, faults
<1>4. OwnersApart'
  BY <1>0 DEF StagingInv, TypeOK, NamesKnown, Known, OwnersApart, Holding, Owning, In, Path,
     NoPath, faults
<1>5. HeartsTrue'
  BY <1>0, LeaseAssumption DEF StagingInv, TypeOK, OwnersApart, AbsentIsEmpty, NamesKnown, Known,
     HeartsTrue, Holding, Owning, In, Path, NoPath, NoLease, faults
<1>6. ASSUME missed' = 0, NEW v \in Request
      PROVE  LeaseKept(v)'
  BY <1>0, <1>6, LeaseAssumption DEF StagingInv, TypeOK, NamesKnown, Known, OwnersApart,
     OwnersSafe, LeaseKept, Untouched, ActingTrue, Holding, Acting, Owning, In, Path, NoPath,
     NoLease, faults
<1>7. ASSUME missed' = 0, NEW v \in Request
      PROVE  Untouched(v)'
  BY SMTT(60), <1>0, <1>7 DEF StagingInv, TypeOK, NamesKnown, Known, OwnersApart, OwnersSafe,
     LeaseKept, Untouched, Holding, Acting, Owning, In, Path, NoPath, NoLease, faults
<1>8. ASSUME missed' = 0, NEW v \in Request
      PROVE  ActingTrue(v)'
  BY <1>0, <1>8 DEF StagingInv, TypeOK, OwnersSafe, Untouched, ActingTrue, Holding, Acting,
     Owning, In, Path, NoPath, NoLease, faults
<1>9. NothingRemoved'
  BY <1>0, LeaseAssumption DEF StagingInv, TypeOK, NamesKnown, Known, OwnersApart, OwnersSafe,
     LeaseKept, Untouched, ActingTrue, NothingRemoved, OwnerPresent, HeartsTrue, Beating,
     Holding, Acting, Owning, In, Path, NoPath, NoLease, NotRemoving, faults
<1>10. AdmissionLeft'
  BY <1>0, BoundsAssumption DEF StagingInv, TypeOK, AdmissionLeft, Seeking
<1> QED
  BY <1>1, <1>2, <1>3, <1>4, <1>5, <1>6, <1>7, <1>8, <1>9, <1>10 DEF StagingInv, OwnersSafe

(* RemovalDone keeps the invariant.                                        *)
LEMMA RemovalDoneKeeps ==
  ASSUME StagingInv, RemovalDone
  PROVE  StagingInv'
<1> USE DEF RemovalDone, Own, Vanishes, SetLease, Silenced, directories, requests, faults
<1>0. \A v \in Request : Here(v) <=> In(at[v])
  BY HereIsIn DEF StagingInv
<1>1. TypeOK'
  <2>1. DirectoriesOK'
    <3> DEFINE d == removing.at[1]
    <3>1. CASE place[d] \in {"active", "abandoned"}
      BY <3>1, VanishesTyped DEF StagingInv
    <3>2. CASE place[d] \notin {"active", "abandoned"}
      BY <3>2 DEF DirectoriesOK, StagingInv, TypeOK
    <3> QED
      BY <3>1, <3>2
  <2>2. /\ pc' \in [Request -> Step] /\ at' \in [Request -> Path \cup {NoPath}]
        /\ wants' \in [Request -> Selection] /\ loop' \in [Request -> {"abandoned", "active"}]
        /\ todo' \in [Request -> SUBSET Path] /\ admitted' \in [Request -> 0 .. MaxAdmitted]
    BY SelectionAssumption, BoundsAssumption DEF StagingInv, TypeOK, Step
  <2>3. /\ removing' \in [step : {"none", "checked", "deleting"}, at : Path \cup {NoPath}]
        /\ {crashes, removals, failures, missed}' \subseteq 0 .. MaxFaults
    BY DEF StagingInv, TypeOK, NotRemoving, faults
  <2> QED
    BY <2>1, <2>2, <2>3 DEF TypeOK, DirectoriesOK
<1>2. NamesKnown'
  BY <1>0 DEF StagingInv, TypeOK, NamesKnown, Known, Path, NoPath, NotRemoving
<1>3. AbsentIsEmpty'
  BY <1>0 DEF StagingInv, TypeOK, AbsentIsEmpty, In, NoLease, faults
<1>4. OwnersApart'
  BY <1>0 DEF StagingInv, TypeOK, NamesKnown, Known, OwnersApart, Holding, Owning, In, Path,
     NoPath, faults
<1>5. HeartsTrue'
  BY SMTT(60), <1>0, LeaseAssumption DEF StagingInv, TypeOK, OwnersApart, AbsentIsEmpty,
     NamesKnown, Known, HeartsTrue, Holding, Owning, In, Path, NoPath, NoLease, faults
<1>6. ASSUME missed' = 0, NEW v \in Request
      PROVE  LeaseKept(v)'
  BY SMTT(60), <1>0, <1>6, LeaseAssumption DEF StagingInv, TypeOK, NamesKnown, Known,
     OwnersApart, OwnersSafe, LeaseKept, Untouched, ActingTrue, Holding, Acting, Owning, In,
     Path, NoPath, NoLease, faults
<1>7. ASSUME missed' = 0, NEW v \in Request
      PROVE  Untouched(v)'
  BY <1>0, <1>7 DEF StagingInv, TypeOK, NamesKnown, Known, OwnersApart, OwnersSafe, LeaseKept,
     Untouched, Holding, Acting, Owning, In, Path, NoPath, NoLease, faults
<1>8. ASSUME missed' = 0, NEW v \in Request
      PROVE  ActingTrue(v)'
  BY <1>0, <1>8 DEF StagingInv, TypeOK, OwnersSafe, Untouched, ActingTrue, Holding, Acting,
     Owning, In, Path, NoPath, NoLease, faults
<1>9. NothingRemoved'
  BY <1>0, LeaseAssumption DEF StagingInv, TypeOK, NamesKnown, Known, OwnersApart, OwnersSafe,
     LeaseKept, Untouched, ActingTrue, NothingRemoved, OwnerPresent, HeartsTrue, Beating,
     Holding, Acting, Owning, In, Path, NoPath, NoLease, NotRemoving, faults
<1>10. AdmissionLeft'
  BY <1>0, BoundsAssumption DEF StagingInv, TypeOK, AdmissionLeft, Seeking
<1> QED
  BY <1>1, <1>2, <1>3, <1>4, <1>5, <1>6, <1>7, <1>8, <1>9, <1>10 DEF StagingInv, OwnersSafe

(* Tick keeps the invariant.                                               *)
LEMMA TickKeeps ==
  ASSUME StagingInv, Tick
  PROVE  StagingInv'
<1> USE DEF Tick, Own, Live, Timely, requests, Still
<1>0. \A v \in Request : Here(v) <=> In(at[v])
  BY HereIsIn DEF StagingInv
<1>b. \A u, v \in Request : In(at[u]) /\ In(at[v]) /\ Own(u) = Own(v) => at[u] = at[v]
  BY OneName DEF StagingInv, TypeOK
<1>c. \A v \in Request : Present(at[v]) <=> Here(v)
  BY DEF Here
<1>1. TypeOK'
  <2>1. /\ place' \in [Dir -> {"unused", "active", "abandoned", "published"}]
        /\ name' \in [Dir -> Nat] /\ recorded' \in [Dir -> Selection \cup {None}]
        /\ commit' \in [Dir -> BOOLEAN] /\ lease' \in [Dir -> -1 .. Lease]
        /\ heart' \in [Dir -> {"none", "asleep", "writing"}]
        /\ by' \in [Dir -> Request \cup {None}]
    BY SelectionAssumption, LeaseAssumption DEF StagingInv, TypeOK, NoLease
  <2>2. /\ pc' \in [Request -> Step] /\ at' \in [Request -> Path \cup {NoPath}]
        /\ wants' \in [Request -> Selection] /\ loop' \in [Request -> {"abandoned", "active"}]
        /\ todo' \in [Request -> SUBSET Path] /\ admitted' \in [Request -> 0 .. MaxAdmitted]
    BY SelectionAssumption, BoundsAssumption DEF StagingInv, TypeOK, Step
  <2>3. /\ removing' \in [step : {"none", "checked", "deleting"}, at : Path \cup {NoPath}]
        /\ {crashes, removals, failures, missed}' \subseteq 0 .. MaxFaults
    BY DEF StagingInv, TypeOK, NotRemoving, faults
  <2> QED
    BY <2>1, <2>2, <2>3 DEF TypeOK
<1>2. NamesKnown'
  BY <1>0 DEF StagingInv, TypeOK, NamesKnown, Known, Path, NoPath, NotRemoving
<1>3. AbsentIsEmpty'
  BY <1>0, <1>b, <1>c, LeaseAssumption DEF StagingInv, TypeOK, AbsentIsEmpty, In, NoLease, faults
<1>4. OwnersApart'
  BY SMTT(60), <1>0 DEF StagingInv, TypeOK, NamesKnown, Known, OwnersApart, Holding, Owning, In,
     Path, NoPath, faults
<1>5. HeartsTrue'
  BY <1>0, <1>b, <1>c, LeaseAssumption DEF StagingInv, TypeOK, OwnersApart, AbsentIsEmpty,
     NamesKnown, Known, HeartsTrue, Holding, Owning, In, Path, NoPath, NoLease, faults
<1>6. ASSUME missed' = 0, NEW v \in Request
      PROVE  LeaseKept(v)'
  BY SMTT(60), <1>0, <1>b, <1>c, <1>6, LeaseAssumption DEF StagingInv, TypeOK, NamesKnown, Known,
     OwnersApart, OwnersSafe, LeaseKept, Untouched, ActingTrue, Holding, Acting, Owning, In,
     Path, NoPath, NoLease, faults
<1>7. ASSUME missed' = 0, NEW v \in Request
      PROVE  Untouched(v)'
  BY SMTT(60), <1>0, <1>7 DEF StagingInv, TypeOK, NamesKnown, Known, OwnersApart, OwnersSafe,
     LeaseKept, Untouched, Holding, Acting, Owning, In, Path, NoPath, NoLease, faults
<1>8. ASSUME missed' = 0, NEW v \in Request
      PROVE  ActingTrue(v)'
  BY SMTT(60), <1>0, <1>b, <1>c, <1>8, LeaseAssumption DEF StagingInv, TypeOK, OwnersSafe,
     Untouched, ActingTrue, Holding, Acting, Owning, In, Path, NoPath, NoLease, faults,
     NamesKnown, Known
<1>9. NothingRemoved'
  BY <1>0, LeaseAssumption DEF StagingInv, TypeOK, NamesKnown, Known, OwnersApart, OwnersSafe,
     LeaseKept, Untouched, ActingTrue, NothingRemoved, OwnerPresent, HeartsTrue, Beating,
     Holding, Acting, Owning, In, Path, NoPath, NoLease, NotRemoving, faults
<1>10. AdmissionLeft'
  BY <1>0, BoundsAssumption DEF StagingInv, TypeOK, AdmissionLeft, Seeking
<1> QED
  BY <1>1, <1>2, <1>3, <1>4, <1>5, <1>6, <1>7, <1>8, <1>9, <1>10 DEF StagingInv, OwnersSafe

-----------------------------------------------------------------------------
(* Every step keeps the invariant, whoever takes it.                       *)
LEMMA NextKeeps ==
  ASSUME StagingInv, [Next]_vars
  PROVE  StagingInv'
<1>1. ASSUME NEW w \in Request, Recovers(w)
      PROVE  StagingInv'
  BY <1>1, StartKeeps, RecoverPreserveKeeps, RecoverDiscardKeeps, RecoverDoneKeeps,
     RecoverEntryKeeps DEF Recovers
<1>2. ASSUME NEW w \in Request, Acquires(w)
      PROVE  StagingInv'
  BY <1>2, RetryKeeps, LookAtActiveKeeps, ExamineKeeps, ClaimRenewKeeps, ClaimRenameKeeps,
     ClaimFinishKeeps, MakeKeeps, MakeLeaseKeeps, MakeIdentityKeeps DEF Acquires
<1>3. ASSUME NEW w \in Request, Ends(w)
      PROVE  StagingInv'
  BY <1>3, ResolveKeeps, FetchDoneKeeps, DropKeeps, PreserveKeeps, ExpireKeeps,
     PublishBlockedKeeps, PublishListKeeps, PublishCleanKeeps, PublishUnleaseKeeps,
     PublishRenameKeeps DEF Ends
<1>4. ASSUME NEW w \in Request,
             Crash(w) \/ FetchCancelled(w) \/ (\E s \in Selection : Ask(w, s))
             \/ \E to \in {"failed", "dropping"} : FetchFails(w, to)
      PROVE  StagingInv'
  BY <1>4, CrashKeeps, FetchCancelledKeeps, AskKeeps, FetchFailsKeeps
<1>5. ASSUME NEW d \in Dir, Renews(d) \/ BeatFails(d) \/ RemovalCheck(<<d, name[d]>>)
      PROVE  StagingInv'
  BY <1>5, BeatKeeps, BeatLandsKeeps, BeatFailsKeeps, RemovalCheckKeeps DEF Renews
<1>6. CASE RemovalOpen \/ RemovalDone \/ Tick
  BY SMTT(60), <1>6, RemovalOpenKeeps, RemovalDoneKeeps, TickKeeps
<1>7. CASE UNCHANGED vars
  BY <1>7 DEF vars, directories, requests, faults, StagingInv, TypeOK, AdmissionLeft, NamesKnown,
     Known, AbsentIsEmpty, OwnersApart, HeartsTrue, OwnersSafe, LeaseKept, Untouched, ActingTrue,
     NothingRemoved, OwnerPresent, In, Own
<1> QED
  BY <1>1, <1>2, <1>3, <1>4, <1>5, <1>6, <1>7 DEF Next, Proceeds

(* The strengthened invariant holds in every behaviour of the processes,   *)
(* their heartbeats, the operator and the clock.                           *)
THEOREM StagingInvariant == Spec => []StagingInv
BY InitInv, NextKeeps, PTL DEF Spec

(* What the directories, the acquisitions and the removal hold is always   *)
(* of its type; a request is admitted no more often than it asked.         *)
THEOREM TypeCorrect == Spec => []TypeOK
<1>1. StagingInv => TypeOK
  BY DEF StagingInv
<1> QED
  BY <1>1, StagingInvariant, PTL

(* The lease protects its owner, however many processes recover, claim,    *)
(* preserve and die around it: while no renewal has failed and no operator *)
(* has removed anything, an acquisition finds its directory under its own  *)
(* name, with a lease that has not expired.                                *)
THEOREM LeaseProtectsOwners == Spec => []LeaseProtects
<1>1. StagingInv => LeaseProtects
  <2> SUFFICES ASSUME StagingInv, removals = 0, missed = 0, NEW w \in Request, pc[w] \in Owning
               PROVE  Here(w) /\ (Live(Own(w)) \/ pc[w] \in {"made", "leaseless"})
    BY DEF LeaseProtects
  <2>1. Here(w) /\ In(at[w]) /\ (lease[Own(w)] # NoLease \/ pc[w] \in {"made", "leaseless"})
    BY HereIsIn DEF StagingInv, NothingRemoved, OwnerPresent
  <2>2. lease[Own(w)] = NoLease \/ lease[Own(w)] > 0
    BY <2>1 DEF StagingInv, OwnersSafe, LeaseKept, Holding
  <2> QED
    BY <2>1, <2>2 DEF Live
<1> QED
  BY <1>1, StagingInvariant, PTL

-----------------------------------------------------------------------------
(* Who may take the record of a commit away.                               *)
TakesCommit(d) ==
    \/ removing.step = "deleting" /\ removing.at[1] = d
    \/ \E w \in Request : pc[w] \in Owning /\ at[w] = <<d, name[d]>> /\ pc'[w] # pc[w]

LEMMA OwnerTakes ==
  ASSUME StagingInv, NEW w \in Request, pc[w] \in Owning, Here(w), pc'[w] # pc[w]
  PROVE  TakesCommit(Own(w))
<1>1. at[w] = <<Own(w), name[Own(w)]>>
  BY HereIsIn DEF StagingInv, TypeOK, In, Own, Path, NoPath
<1> QED
  BY <1>1 DEF TakesCommit

LEMMA CommitTaken ==
  ASSUME StagingInv, Next, missed = 0, NEW d \in Dir, commit[d], ~ commit'[d]
  PROVE  TakesCommit(d)
<1>0. (\A v \in Request : Here(v) <=> In(at[v])) /\ \A v \in Request : Present(at[v]) <=> Here(v)
  BY HereIsIn DEF StagingInv, Here
<1>1. ASSUME NEW w \in Request, Recovers(w)
      PROVE  TakesCommit(d)
  <2>1. CASE RecoverDiscard(w)
    <3>1. Here(w) /\ d = Own(w) /\ pc[w] = "discard"
      BY <1>0, <2>1 DEF RecoverDiscard, RemoveAll, Vanishes, directories, Own, StagingInv, TypeOK
    <3>2. ~ commit[Own(w)]
      BY <1>0, <3>1 DEF StagingInv, OwnersSafe, ActingTrue
    <3> QED
      BY <3>1, <3>2
  <2> QED
    BY <1>1, <2>1 DEF Recovers, Start, RecoverPreserve, RecoverDone, RecoverEntry, directories
<1>2. ASSUME NEW w \in Request, Acquires(w)
      PROVE  TakesCommit(d)
  <2>1. CASE ClaimFinish(w)
    BY <2>1 DEF ClaimFinish, Fails, directories, StagingInv, TypeOK
  <2> QED
    BY <1>2, <2>1 DEF Acquires, Retry, Look, LookAtActive, Examine, ClaimRenew, ClaimRename, Make,
       MakeLease, MakeIdentity, Fails, directories
<1>3. ASSUME NEW w \in Request, Ends(w)
      PROVE  TakesCommit(d)
  <2>1. CASE Resolve(w)
    BY <2>1 DEF Resolve, StagingInv, TypeOK
  <2>2. CASE Drop(w) \/ Preserve(w) \/ PublishClean(w) \/ \E kind \in {"published", "unused"} : PublishRename(w, kind)
    <3>1. Here(w) /\ d = Own(w)
      BY <1>0, <2>2 DEF Drop, Preserve, PublishClean, PublishRename, RemoveAll, Vanishes,
         directories, Own,
         StagingInv, TypeOK
    <3>2. pc[w] \in {"dropping", "failed", "cancelled", "cleaning", "leaseless"}
          /\ pc'[w] \in {"idle", "expiring", "dropping", "sealed"} /\ pc'[w] # pc[w]
      <4>1. CASE PublishClean(w)
        BY <4>1, <3>1 DEF PublishClean, Goto, StagingInv, TypeOK
      <4>2. CASE Drop(w) \/ Preserve(w) \/ \E kind \in {"published", "unused"} : PublishRename(w, kind)
        BY <4>2 DEF Drop, Preserve, PublishRename, Over, Goto, StagingInv, TypeOK
      <4> QED
        BY <2>2, <4>1, <4>2
    <3> QED
      BY <3>1, <3>2, OwnerTakes DEF Owning
  <2> QED
    BY <1>3, <2>1, <2>2 DEF Ends, FetchDone, Moves, Expire, PublishBlocked, PublishList,
       PublishUnlease,
       directories
<1>4. ASSUME NEW w \in Request,
             Crash(w) \/ FetchCancelled(w) \/ (\E s \in Selection : Ask(w, s))
             \/ \E to \in {"failed", "dropping"} : FetchFails(w, to)
      PROVE  TakesCommit(d)
  BY <1>4 DEF Crash, FetchCancelled, Ask, Look, FetchFails, Moves, directories
<1>5. ASSUME NEW e \in Dir, Renews(e) \/ BeatFails(e) \/ RemovalCheck(<<e, name[e]>>)
      PROVE  TakesCommit(d)
  BY <1>5 DEF Renews, Beat, BeatLands, BeatFails, RemovalCheck, directories
<1>6. CASE RemovalDone
  BY <1>6 DEF RemovalDone, Vanishes, directories, StagingInv, TypeOK, TakesCommit
<1>7. CASE RemovalOpen \/ Tick
  BY <1>7 DEF RemovalOpen, Tick, directories
<1> QED
  BY <1>1, <1>2, <1>3, <1>4, <1>5, <1>6, <1>7 DEF Next, Proceeds

(* What a later acquisition could resume from is taken away by nobody but  *)
(* the acquisition that owns it and an operator's removal: no recovery, no *)
(* claim and no death of a process loses the record of a commit, for as    *)
(* long as no renewal has failed.                                          *)
THEOREM CommitsAreKept == Spec => CommittedKept
<1> DEFINE Kept == \A d \in Dir : commit[d] /\ ~commit'[d] /\ missed = 0 => TakesCommit(d)
<1>1. StagingInv /\ [Next]_vars => [Kept]_vars
  <2> SUFFICES ASSUME StagingInv, Next, NEW d \in Dir, commit[d], ~ commit'[d], missed = 0
               PROVE  TakesCommit(d)
    OBVIOUS
  <2> QED
    BY CommitTaken
<1>2. Spec => [][Kept]_vars
  BY <1>1, StagingInvariant, PTL DEF Spec
<1> QED
  BY <1>2 DEF CommittedKept, TakesCommit

-----------------------------------------------------------------------------
(* A heartbeat has its owner, unless a refresh may leave one behind.       *)
HeartOwner(d, w) ==
    /\ by[d] = w /\ pc[w] \in Owning /\ at[w] = <<d, name[d]>>
    /\ pc[w] \in {"transferring", "cancelled"} => recorded[d] # None

HeartsOwned ==
    \A d \in Dir : heart[d] # "none" =>
        place[d] \in {"active", "abandoned"} /\ \E w \in Request : HeartOwner(d, w)

LEMMA HeartHasOwner ==
  ASSUME StagingInv, HeartsOwned, NEW e \in Dir, heart[e] # "none"
  PROVE  \E u \in Request :
           /\ HeartOwner(e, u) /\ place[e] \in {"active", "abandoned"} /\ In(at[u]) /\ Own(u) = e
           /\ \A v \in Request : pc[v] \in Owning /\ In(at[v]) /\ Own(v) = e => v = u
<1>1. PICK u \in Request : HeartOwner(e, u) /\ place[e] \in {"active", "abandoned"}
  BY DEF HeartsOwned
<1>2. In(at[u]) /\ Own(u) = e
  BY <1>1 DEF HeartOwner, In, Own
<1>3. ASSUME NEW v \in Request, pc[v] \in Owning, In(at[v]), Own(v) = e PROVE v = u
  BY <1>1, <1>2, <1>3, OneName DEF Own, StagingInv, TypeOK, OwnersApart, Holding, HeartOwner
<1> QED
  BY <1>1, <1>2, <1>3

(* Start keeps the owners of the heartbeats.                               *)
LEMMA StartHearts ==
  ASSUME StagingInv, HeartsOwned, NEW w \in Request, Start(w)
  PROVE  HeartsOwned'
<1> USE DEF Start, Own, Goto, Entries, Keep, Still, directories
<1>0. \A v \in Request : (Here(v) <=> In(at[v])) /\ (Present(at[v]) <=> In(at[v]))
  BY HereIsIn DEF StagingInv, Here
<1> SUFFICES ASSUME NEW e \in Dir, heart'[e] # "none", heart[e] # "none"
             PROVE  place'[e] \in {"active", "abandoned"} /\ \E v \in Request : HeartOwner(e, v)'
  BY DEF HeartsOwned, StagingInv, TypeOK
<1>1. PICK u \in Request :
        /\ HeartOwner(e, u) /\ place[e] \in {"active", "abandoned"} /\ In(at[u]) /\ Own(u) = e
        /\ \A v \in Request : pc[v] \in Owning /\ In(at[v]) /\ Own(v) = e => v = u
  BY HeartHasOwner
<1>3. place'[e] \in {"active", "abandoned"} /\ HeartOwner(e, u)'
  BY <1>0, <1>1 DEF StagingInv, TypeOK, HeartOwner, Owning
<1> QED
  BY <1>3

(* RecoverEntry keeps the owners of the heartbeats.                        *)
LEMMA RecoverEntryHearts ==
  ASSUME StagingInv, HeartsOwned, NEW w \in Request, NEW p \in todo[w], RecoverEntry(w, p)
  PROVE  HeartsOwned'
<1> USE DEF RecoverEntry, Own, Goto, Keep, Still, directories
<1>0. \A v \in Request : (Here(v) <=> In(at[v])) /\ (Present(at[v]) <=> In(at[v]))
  BY HereIsIn DEF StagingInv, Here
<1> SUFFICES ASSUME NEW e \in Dir, heart'[e] # "none", heart[e] # "none"
             PROVE  place'[e] \in {"active", "abandoned"} /\ \E v \in Request : HeartOwner(e, v)'
  BY DEF HeartsOwned, StagingInv, TypeOK
<1>1. PICK u \in Request :
        /\ HeartOwner(e, u) /\ place[e] \in {"active", "abandoned"} /\ In(at[u]) /\ Own(u) = e
        /\ \A v \in Request : pc[v] \in Owning /\ In(at[v]) /\ Own(v) = e => v = u
  BY HeartHasOwner
<1>3. place'[e] \in {"active", "abandoned"} /\ HeartOwner(e, u)'
  BY <1>0, <1>1 DEF StagingInv, TypeOK, HeartOwner, Owning
<1> QED
  BY <1>3

(* RecoverPreserve keeps the owners of the heartbeats.                     *)
LEMMA RecoverPreserveHearts ==
  ASSUME StagingInv, HeartsOwned, NEW w \in Request, RecoverPreserve(w)
  PROVE  HeartsOwned'
<1> USE DEF RecoverPreserve, Own, Goto, Renamed, Silenced, Keep, Still
<1>0. \A v \in Request : (Here(v) <=> In(at[v])) /\ (Present(at[v]) <=> In(at[v]))
  BY HereIsIn DEF StagingInv, Here
<1> SUFFICES ASSUME NEW e \in Dir, heart'[e] # "none", heart[e] # "none"
             PROVE  place'[e] \in {"active", "abandoned"} /\ \E v \in Request : HeartOwner(e, v)'
  BY DEF HeartsOwned, StagingInv, TypeOK
<1>1. PICK u \in Request :
        /\ HeartOwner(e, u) /\ place[e] \in {"active", "abandoned"} /\ In(at[u]) /\ Own(u) = e
        /\ \A v \in Request : pc[v] \in Owning /\ In(at[v]) /\ Own(v) = e => v = u
  BY HeartHasOwner
<1>3. place'[e] \in {"active", "abandoned"} /\ HeartOwner(e, u)'
  BY <1>0, <1>1 DEF StagingInv, TypeOK, HeartOwner, Owning
<1> QED
  BY <1>3

(* RecoverDiscard keeps the owners of the heartbeats.                      *)
LEMMA RecoverDiscardHearts ==
  ASSUME StagingInv, HeartsOwned, NEW w \in Request, RecoverDiscard(w)
  PROVE  HeartsOwned'
<1> USE DEF RecoverDiscard, Own, Goto, RemoveAll, Vanishes, SetLease, Silenced, Keep, Still,
   directories
<1>0. \A v \in Request : (Here(v) <=> In(at[v])) /\ (Present(at[v]) <=> In(at[v]))
  BY HereIsIn DEF StagingInv, Here
<1> SUFFICES ASSUME NEW e \in Dir, heart'[e] # "none", heart[e] # "none"
             PROVE  place'[e] \in {"active", "abandoned"} /\ \E v \in Request : HeartOwner(e, v)'
  BY DEF HeartsOwned, StagingInv, TypeOK
<1>1. PICK u \in Request :
        /\ HeartOwner(e, u) /\ place[e] \in {"active", "abandoned"} /\ In(at[u]) /\ Own(u) = e
        /\ \A v \in Request : pc[v] \in Owning /\ In(at[v]) /\ Own(v) = e => v = u
  BY HeartHasOwner
<1>3. place'[e] \in {"active", "abandoned"} /\ HeartOwner(e, u)'
  BY <1>0, <1>1 DEF StagingInv, TypeOK, HeartOwner, Owning
<1> QED
  BY <1>3

(* RecoverDone keeps the owners of the heartbeats.                         *)
LEMMA RecoverDoneHearts ==
  ASSUME StagingInv, HeartsOwned, NEW w \in Request, RecoverDone(w)
  PROVE  HeartsOwned'
<1> USE DEF RecoverDone, Own, Goto, Keep, Still, directories
<1>0. \A v \in Request : (Here(v) <=> In(at[v])) /\ (Present(at[v]) <=> In(at[v]))
  BY HereIsIn DEF StagingInv, Here
<1> SUFFICES ASSUME NEW e \in Dir, heart'[e] # "none", heart[e] # "none"
             PROVE  place'[e] \in {"active", "abandoned"} /\ \E v \in Request : HeartOwner(e, v)'
  BY DEF HeartsOwned, StagingInv, TypeOK
<1>1. PICK u \in Request :
        /\ HeartOwner(e, u) /\ place[e] \in {"active", "abandoned"} /\ In(at[u]) /\ Own(u) = e
        /\ \A v \in Request : pc[v] \in Owning /\ In(at[v]) /\ Own(v) = e => v = u
  BY HeartHasOwner
<1>3. place'[e] \in {"active", "abandoned"} /\ HeartOwner(e, u)'
  BY <1>0, <1>1 DEF StagingInv, TypeOK, HeartOwner, Owning
<1> QED
  BY <1>3

(* Ask keeps the owners of the heartbeats.                                 *)
LEMMA AskHearts ==
  ASSUME StagingInv, HeartsOwned, NEW w \in Request, NEW s \in Selection, Ask(w, s)
  PROVE  HeartsOwned'
<1> USE DEF Ask, Own, Look, Goto, Entries, Still, directories
<1>0. \A v \in Request : (Here(v) <=> In(at[v])) /\ (Present(at[v]) <=> In(at[v]))
  BY HereIsIn DEF StagingInv, Here
<1> SUFFICES ASSUME NEW e \in Dir, heart'[e] # "none", heart[e] # "none"
             PROVE  place'[e] \in {"active", "abandoned"} /\ \E v \in Request : HeartOwner(e, v)'
  BY DEF HeartsOwned, StagingInv, TypeOK
<1>1. PICK u \in Request :
        /\ HeartOwner(e, u) /\ place[e] \in {"active", "abandoned"} /\ In(at[u]) /\ Own(u) = e
        /\ \A v \in Request : pc[v] \in Owning /\ In(at[v]) /\ Own(v) = e => v = u
  BY HeartHasOwner
<1>3. place'[e] \in {"active", "abandoned"} /\ HeartOwner(e, u)'
  BY <1>0, <1>1 DEF StagingInv, TypeOK, HeartOwner, Owning
<1> QED
  BY <1>3

(* Retry keeps the owners of the heartbeats.                               *)
LEMMA RetryHearts ==
  ASSUME StagingInv, HeartsOwned, NEW w \in Request, Retry(w)
  PROVE  HeartsOwned'
<1> USE DEF Retry, Own, Look, Goto, Entries, Still, directories
<1>0. \A v \in Request : (Here(v) <=> In(at[v])) /\ (Present(at[v]) <=> In(at[v]))
  BY HereIsIn DEF StagingInv, Here
<1> SUFFICES ASSUME NEW e \in Dir, heart'[e] # "none", heart[e] # "none"
             PROVE  place'[e] \in {"active", "abandoned"} /\ \E v \in Request : HeartOwner(e, v)'
  BY DEF HeartsOwned, StagingInv, TypeOK
<1>1. PICK u \in Request :
        /\ HeartOwner(e, u) /\ place[e] \in {"active", "abandoned"} /\ In(at[u]) /\ Own(u) = e
        /\ \A v \in Request : pc[v] \in Owning /\ In(at[v]) /\ Own(v) = e => v = u
  BY HeartHasOwner
<1>3. place'[e] \in {"active", "abandoned"} /\ HeartOwner(e, u)'
  BY <1>0, <1>1 DEF StagingInv, TypeOK, HeartOwner, Owning
<1> QED
  BY <1>3

(* Examine keeps the owners of the heartbeats.                             *)
LEMMA ExamineHearts ==
  ASSUME StagingInv, HeartsOwned, NEW w \in Request, NEW p \in todo[w], Examine(w, p)
  PROVE  HeartsOwned'
<1> USE DEF Examine, Own, Goto, Claimable, Keep, Still, directories
<1>0. \A v \in Request : (Here(v) <=> In(at[v])) /\ (Present(at[v]) <=> In(at[v]))
  BY HereIsIn DEF StagingInv, Here
<1> SUFFICES ASSUME NEW e \in Dir, heart'[e] # "none", heart[e] # "none"
             PROVE  place'[e] \in {"active", "abandoned"} /\ \E v \in Request : HeartOwner(e, v)'
  BY DEF HeartsOwned, StagingInv, TypeOK
<1>1. PICK u \in Request :
        /\ HeartOwner(e, u) /\ place[e] \in {"active", "abandoned"} /\ In(at[u]) /\ Own(u) = e
        /\ \A v \in Request : pc[v] \in Owning /\ In(at[v]) /\ Own(v) = e => v = u
  BY HeartHasOwner
<1>3. place'[e] \in {"active", "abandoned"} /\ HeartOwner(e, u)'
  BY <1>0, <1>1 DEF StagingInv, TypeOK, HeartOwner, Owning
<1> QED
  BY <1>3

(* LookAtActive keeps the owners of the heartbeats.                        *)
LEMMA LookAtActiveHearts ==
  ASSUME StagingInv, HeartsOwned, NEW w \in Request, LookAtActive(w)
  PROVE  HeartsOwned'
<1> USE DEF LookAtActive, Own, Entries, Still, directories
<1>0. \A v \in Request : (Here(v) <=> In(at[v])) /\ (Present(at[v]) <=> In(at[v]))
  BY HereIsIn DEF StagingInv, Here
<1> SUFFICES ASSUME NEW e \in Dir, heart'[e] # "none", heart[e] # "none"
             PROVE  place'[e] \in {"active", "abandoned"} /\ \E v \in Request : HeartOwner(e, v)'
  BY DEF HeartsOwned, StagingInv, TypeOK
<1>1. PICK u \in Request :
        /\ HeartOwner(e, u) /\ place[e] \in {"active", "abandoned"} /\ In(at[u]) /\ Own(u) = e
        /\ \A v \in Request : pc[v] \in Owning /\ In(at[v]) /\ Own(v) = e => v = u
  BY HeartHasOwner
<1>3. place'[e] \in {"active", "abandoned"} /\ HeartOwner(e, u)'
  BY <1>0, <1>1 DEF StagingInv, TypeOK, HeartOwner, Owning
<1> QED
  BY <1>3

(* ClaimRenew keeps the owners of the heartbeats.                          *)
LEMMA ClaimRenewHearts ==
  ASSUME StagingInv, HeartsOwned, NEW w \in Request, ClaimRenew(w)
  PROVE  HeartsOwned'
<1> USE DEF ClaimRenew, Own, Lost, Goto, SetLease, Keep, Still
<1>0. \A v \in Request : (Here(v) <=> In(at[v])) /\ (Present(at[v]) <=> In(at[v]))
  BY HereIsIn DEF StagingInv, Here
<1> SUFFICES ASSUME NEW e \in Dir, heart'[e] # "none", heart[e] # "none"
             PROVE  place'[e] \in {"active", "abandoned"} /\ \E v \in Request : HeartOwner(e, v)'
  BY DEF HeartsOwned, StagingInv, TypeOK
<1>1. PICK u \in Request :
        /\ HeartOwner(e, u) /\ place[e] \in {"active", "abandoned"} /\ In(at[u]) /\ Own(u) = e
        /\ \A v \in Request : pc[v] \in Owning /\ In(at[v]) /\ Own(v) = e => v = u
  BY HeartHasOwner
<1>3. place'[e] \in {"active", "abandoned"} /\ HeartOwner(e, u)'
  BY <1>0, <1>1 DEF StagingInv, TypeOK, HeartOwner, Owning
<1> QED
  BY <1>3

(* ClaimRename keeps the owners of the heartbeats.                         *)
LEMMA ClaimRenameHearts ==
  ASSUME StagingInv, HeartsOwned, NEW w \in Request, ClaimRename(w)
  PROVE  HeartsOwned'
<1> USE DEF ClaimRename, Own, Lost, Goto, Renamed, Silenced, Keep, Still
<1>0. \A v \in Request : (Here(v) <=> In(at[v])) /\ (Present(at[v]) <=> In(at[v]))
  BY HereIsIn DEF StagingInv, Here
<1> SUFFICES ASSUME NEW e \in Dir, heart'[e] # "none", heart[e] # "none"
             PROVE  place'[e] \in {"active", "abandoned"} /\ \E v \in Request : HeartOwner(e, v)'
  BY DEF HeartsOwned, StagingInv, TypeOK
<1>1. PICK u \in Request :
        /\ HeartOwner(e, u) /\ place[e] \in {"active", "abandoned"} /\ In(at[u]) /\ Own(u) = e
        /\ \A v \in Request : pc[v] \in Owning /\ In(at[v]) /\ Own(v) = e => v = u
  BY HeartHasOwner
<1>3. place'[e] \in {"active", "abandoned"} /\ HeartOwner(e, u)'
  BY <1>0, <1>1 DEF StagingInv, TypeOK, HeartOwner, Owning
<1> QED
  BY <1>3

(* ClaimFinish keeps the owners of the heartbeats.                         *)
LEMMA ClaimFinishHearts ==
  ASSUME StagingInv, HeartsOwned, NEW w \in Request, ClaimFinish(w)
  PROVE  HeartsOwned'
<1> USE DEF ClaimFinish, Own, Leased, SetLease, Admitted, Fails, Over, Goto, Still, directories
<1>0. \A v \in Request : (Here(v) <=> In(at[v])) /\ (Present(at[v]) <=> In(at[v]))
  BY HereIsIn DEF StagingInv, Here
<1>a. ASSUME NEW e \in Dir, heart'[e] # "none", heart[e] = "none"
      PROVE  place'[e] \in {"active", "abandoned"} /\ HeartOwner(e, w)'
  BY <1>0, <1>a, SelectionAssumption DEF StagingInv, TypeOK, HeartOwner, In, Owning, Path, NoPath
<1> SUFFICES ASSUME NEW e \in Dir, heart'[e] # "none", heart[e] # "none"
             PROVE  place'[e] \in {"active", "abandoned"} /\ \E v \in Request : HeartOwner(e, v)'
  BY <1>a DEF HeartsOwned
<1>1. PICK u \in Request :
        /\ HeartOwner(e, u) /\ place[e] \in {"active", "abandoned"} /\ In(at[u]) /\ Own(u) = e
        /\ \A v \in Request : pc[v] \in Owning /\ In(at[v]) /\ Own(v) = e => v = u
  BY HeartHasOwner
<1>3. place'[e] \in {"active", "abandoned"} /\ HeartOwner(e, u)'
  BY <1>0, <1>1 DEF StagingInv, TypeOK, HeartOwner, Owning
<1> QED
  BY <1>3

(* Make keeps the owners of the heartbeats.                                *)
LEMMA MakeHearts ==
  ASSUME StagingInv, HeartsOwned, NEW w \in Request, Make(w)
  PROVE  HeartsOwned'
<1> USE DEF Make, Own, Renamed, Silenced, Goto, Keep, Still
<1>0. \A v \in Request : (Here(v) <=> In(at[v])) /\ (Present(at[v]) <=> In(at[v]))
  BY HereIsIn DEF StagingInv, Here
<1> SUFFICES ASSUME NEW e \in Dir, heart'[e] # "none", heart[e] # "none"
             PROVE  place'[e] \in {"active", "abandoned"} /\ \E v \in Request : HeartOwner(e, v)'
  BY DEF HeartsOwned, StagingInv, TypeOK
<1>1. PICK u \in Request :
        /\ HeartOwner(e, u) /\ place[e] \in {"active", "abandoned"} /\ In(at[u]) /\ Own(u) = e
        /\ \A v \in Request : pc[v] \in Owning /\ In(at[v]) /\ Own(v) = e => v = u
  BY HeartHasOwner
<1>3. place'[e] \in {"active", "abandoned"} /\ HeartOwner(e, u)'
  BY <1>0, <1>1 DEF StagingInv, TypeOK, HeartOwner, Owning
<1> QED
  BY <1>3

(* MakeLease keeps the owners of the heartbeats.                           *)
LEMMA MakeLeaseHearts ==
  ASSUME StagingInv, HeartsOwned, NEW w \in Request, MakeLease(w)
  PROVE  HeartsOwned'
<1> USE DEF MakeLease, Own, Leased, SetLease, Fails, Over, Goto, Keep, Still, directories
<1>0. \A v \in Request : (Here(v) <=> In(at[v])) /\ (Present(at[v]) <=> In(at[v]))
  BY HereIsIn DEF StagingInv, Here
<1>a. ASSUME NEW e \in Dir, heart'[e] # "none", heart[e] = "none"
      PROVE  place'[e] \in {"active", "abandoned"} /\ HeartOwner(e, w)'
  BY <1>0, <1>a, SelectionAssumption DEF StagingInv, TypeOK, HeartOwner, In, Owning, Path, NoPath
<1> SUFFICES ASSUME NEW e \in Dir, heart'[e] # "none", heart[e] # "none"
             PROVE  place'[e] \in {"active", "abandoned"} /\ \E v \in Request : HeartOwner(e, v)'
  BY <1>a DEF HeartsOwned
<1>1. PICK u \in Request :
        /\ HeartOwner(e, u) /\ place[e] \in {"active", "abandoned"} /\ In(at[u]) /\ Own(u) = e
        /\ \A v \in Request : pc[v] \in Owning /\ In(at[v]) /\ Own(v) = e => v = u
  BY HeartHasOwner
<1>3. place'[e] \in {"active", "abandoned"} /\ HeartOwner(e, u)'
  BY SMTT(60), <1>0, <1>1 DEF StagingInv, TypeOK, HeartOwner, Owning
<1> QED
  BY <1>3

(* MakeIdentity keeps the owners of the heartbeats.                        *)
LEMMA MakeIdentityHearts ==
  ASSUME StagingInv, HeartsOwned, NEW w \in Request, MakeIdentity(w)
  PROVE  HeartsOwned'
<1> USE DEF MakeIdentity, Own, Admitted, Fails, Over, Goto, Still, directories
<1>0. \A v \in Request : (Here(v) <=> In(at[v])) /\ (Present(at[v]) <=> In(at[v]))
  BY HereIsIn DEF StagingInv, Here
<1> SUFFICES ASSUME NEW e \in Dir, heart'[e] # "none", heart[e] # "none"
             PROVE  place'[e] \in {"active", "abandoned"} /\ \E v \in Request : HeartOwner(e, v)'
  BY DEF HeartsOwned, StagingInv, TypeOK
<1>1. PICK u \in Request :
        /\ HeartOwner(e, u) /\ place[e] \in {"active", "abandoned"} /\ In(at[u]) /\ Own(u) = e
        /\ \A v \in Request : pc[v] \in Owning /\ In(at[v]) /\ Own(v) = e => v = u
  BY HeartHasOwner
<1>3. place'[e] \in {"active", "abandoned"} /\ HeartOwner(e, u)'
  BY <1>0, <1>1 DEF StagingInv, TypeOK, HeartOwner, Owning
<1> QED
  BY <1>3

(* Resolve keeps the owners of the heartbeats.                             *)
LEMMA ResolveHearts ==
  ASSUME StagingInv, HeartsOwned, NEW w \in Request, Resolve(w)
  PROVE  HeartsOwned'
<1> USE DEF Resolve, Own, Goto, Keep, Still
<1>0. \A v \in Request : (Here(v) <=> In(at[v])) /\ (Present(at[v]) <=> In(at[v]))
  BY HereIsIn DEF StagingInv, Here
<1> SUFFICES ASSUME NEW e \in Dir, heart'[e] # "none", heart[e] # "none"
             PROVE  place'[e] \in {"active", "abandoned"} /\ \E v \in Request : HeartOwner(e, v)'
  BY DEF HeartsOwned, StagingInv, TypeOK
<1>1. PICK u \in Request :
        /\ HeartOwner(e, u) /\ place[e] \in {"active", "abandoned"} /\ In(at[u]) /\ Own(u) = e
        /\ \A v \in Request : pc[v] \in Owning /\ In(at[v]) /\ Own(v) = e => v = u
  BY HeartHasOwner
<1>3. place'[e] \in {"active", "abandoned"} /\ HeartOwner(e, u)'
  BY <1>0, <1>1, SelectionAssumption DEF StagingInv, TypeOK, HeartOwner, Owning
<1> QED
  BY <1>3

(* FetchFails keeps the owners of the heartbeats.                          *)
LEMMA FetchFailsHearts ==
  ASSUME StagingInv, HeartsOwned, NEW w \in Request, NEW to, FetchFails(w, to)
  PROVE  HeartsOwned'
<1> USE DEF FetchFails, Own, Moves, Goto, Keep, directories
<1>0. \A v \in Request : (Here(v) <=> In(at[v])) /\ (Present(at[v]) <=> In(at[v]))
  BY HereIsIn DEF StagingInv, Here
<1> SUFFICES ASSUME NEW e \in Dir, heart'[e] # "none", heart[e] # "none"
             PROVE  place'[e] \in {"active", "abandoned"} /\ \E v \in Request : HeartOwner(e, v)'
  BY DEF HeartsOwned, StagingInv, TypeOK
<1>1. PICK u \in Request :
        /\ HeartOwner(e, u) /\ place[e] \in {"active", "abandoned"} /\ In(at[u]) /\ Own(u) = e
        /\ \A v \in Request : pc[v] \in Owning /\ In(at[v]) /\ Own(v) = e => v = u
  BY HeartHasOwner
<1>3. place'[e] \in {"active", "abandoned"} /\ HeartOwner(e, u)'
  BY <1>0, <1>1 DEF StagingInv, TypeOK, HeartOwner, Owning
<1> QED
  BY <1>3

(* FetchCancelled keeps the owners of the heartbeats.                      *)
LEMMA FetchCancelledHearts ==
  ASSUME StagingInv, HeartsOwned, NEW w \in Request, FetchCancelled(w)
  PROVE  HeartsOwned'
<1> USE DEF FetchCancelled, Own, Moves, Goto, Keep, directories
<1>0. \A v \in Request : (Here(v) <=> In(at[v])) /\ (Present(at[v]) <=> In(at[v]))
  BY HereIsIn DEF StagingInv, Here
<1> SUFFICES ASSUME NEW e \in Dir, heart'[e] # "none", heart[e] # "none"
             PROVE  place'[e] \in {"active", "abandoned"} /\ \E v \in Request : HeartOwner(e, v)'
  BY DEF HeartsOwned, StagingInv, TypeOK
<1>1. PICK u \in Request :
        /\ HeartOwner(e, u) /\ place[e] \in {"active", "abandoned"} /\ In(at[u]) /\ Own(u) = e
        /\ \A v \in Request : pc[v] \in Owning /\ In(at[v]) /\ Own(v) = e => v = u
  BY HeartHasOwner
<1>3. place'[e] \in {"active", "abandoned"} /\ HeartOwner(e, u)'
  BY <1>0, <1>1 DEF StagingInv, TypeOK, HeartOwner, Owning
<1> QED
  BY <1>3

(* FetchDone keeps the owners of the heartbeats.                           *)
LEMMA FetchDoneHearts ==
  ASSUME StagingInv, HeartsOwned, NEW w \in Request, NEW to, FetchDone(w, to)
  PROVE  HeartsOwned'
<1> USE DEF FetchDone, Own, Moves, Goto, Keep, Still, directories
<1>0. \A v \in Request : (Here(v) <=> In(at[v])) /\ (Present(at[v]) <=> In(at[v]))
  BY HereIsIn DEF StagingInv, Here
<1> SUFFICES ASSUME NEW e \in Dir, heart'[e] # "none", heart[e] # "none"
             PROVE  place'[e] \in {"active", "abandoned"} /\ \E v \in Request : HeartOwner(e, v)'
  BY DEF HeartsOwned, StagingInv, TypeOK
<1>1. PICK u \in Request :
        /\ HeartOwner(e, u) /\ place[e] \in {"active", "abandoned"} /\ In(at[u]) /\ Own(u) = e
        /\ \A v \in Request : pc[v] \in Owning /\ In(at[v]) /\ Own(v) = e => v = u
  BY HeartHasOwner
<1>3. place'[e] \in {"active", "abandoned"} /\ HeartOwner(e, u)'
  BY <1>0, <1>1 DEF StagingInv, TypeOK, HeartOwner, Owning
<1> QED
  BY <1>3

(* Drop keeps the owners of the heartbeats.                                *)
LEMMA DropHearts ==
  ASSUME StagingInv, HeartsOwned, NEW w \in Request, Drop(w)
  PROVE  HeartsOwned'
<1> USE DEF Drop, Own, RemoveAll, Vanishes, SetLease, Silenced, Over, Goto, Still, directories
<1>0. \A v \in Request : (Here(v) <=> In(at[v])) /\ (Present(at[v]) <=> In(at[v]))
  BY HereIsIn DEF StagingInv, Here
<1> SUFFICES ASSUME NEW e \in Dir, heart'[e] # "none", heart[e] # "none"
             PROVE  place'[e] \in {"active", "abandoned"} /\ \E v \in Request : HeartOwner(e, v)'
  BY DEF HeartsOwned, StagingInv, TypeOK
<1>1. PICK u \in Request :
        /\ HeartOwner(e, u) /\ place[e] \in {"active", "abandoned"} /\ In(at[u]) /\ Own(u) = e
        /\ \A v \in Request : pc[v] \in Owning /\ In(at[v]) /\ Own(v) = e => v = u
  BY HeartHasOwner
<1>3. place'[e] \in {"active", "abandoned"} /\ HeartOwner(e, u)'
  BY <1>0, <1>1 DEF StagingInv, TypeOK, HeartOwner, Owning
<1> QED
  BY <1>3

(* Preserve keeps the owners of the heartbeats.                            *)
LEMMA PreserveHearts ==
  ASSUME StagingInv, HeartsOwned, NEW w \in Request, Preserve(w)
  PROVE  HeartsOwned'
<1> USE DEF Preserve, Own, Renamed, RemoveAll, Vanishes, SetLease, Silenced, Over, Goto, Keep,
   Still, directories
<1>0. \A v \in Request : (Here(v) <=> In(at[v])) /\ (Present(at[v]) <=> In(at[v]))
  BY HereIsIn DEF StagingInv, Here
<1> SUFFICES ASSUME NEW e \in Dir, heart'[e] # "none", heart[e] # "none"
             PROVE  place'[e] \in {"active", "abandoned"} /\ \E v \in Request : HeartOwner(e, v)'
  BY DEF HeartsOwned, StagingInv, TypeOK
<1>1. PICK u \in Request :
        /\ HeartOwner(e, u) /\ place[e] \in {"active", "abandoned"} /\ In(at[u]) /\ Own(u) = e
        /\ \A v \in Request : pc[v] \in Owning /\ In(at[v]) /\ Own(v) = e => v = u
  BY HeartHasOwner
<1>3. place'[e] \in {"active", "abandoned"} /\ HeartOwner(e, u)'
  BY SMTT(60), <1>0, <1>1 DEF StagingInv, TypeOK, HeartOwner, Owning
<1> QED
  BY <1>3

(* Expire keeps the owners of the heartbeats.                              *)
LEMMA ExpireHearts ==
  ASSUME StagingInv, HeartsOwned, NEW w \in Request, Expire(w)
  PROVE  HeartsOwned'
<1> USE DEF Expire, Own, SetLease, Over, Goto, Still
<1>0. \A v \in Request : (Here(v) <=> In(at[v])) /\ (Present(at[v]) <=> In(at[v]))
  BY HereIsIn DEF StagingInv, Here
<1> SUFFICES ASSUME NEW e \in Dir, heart'[e] # "none", heart[e] # "none"
             PROVE  place'[e] \in {"active", "abandoned"} /\ \E v \in Request : HeartOwner(e, v)'
  BY DEF HeartsOwned, StagingInv, TypeOK
<1>1. PICK u \in Request :
        /\ HeartOwner(e, u) /\ place[e] \in {"active", "abandoned"} /\ In(at[u]) /\ Own(u) = e
        /\ \A v \in Request : pc[v] \in Owning /\ In(at[v]) /\ Own(v) = e => v = u
  BY HeartHasOwner
<1>3. place'[e] \in {"active", "abandoned"} /\ HeartOwner(e, u)'
  BY <1>0, <1>1 DEF StagingInv, TypeOK, HeartOwner, Owning
<1> QED
  BY <1>3

(* PublishBlocked keeps the owners of the heartbeats.                      *)
LEMMA PublishBlockedHearts ==
  ASSUME StagingInv, HeartsOwned, "refresh" \notin Operation \/ ~ Blocked, NEW w \in Request, NEW operation \in Operation, PublishBlocked(w, operation)
  PROVE  HeartsOwned'
<1> USE DEF PublishBlocked, Own, Over, Goto, Keep, Still, directories
<1>0. \A v \in Request : (Here(v) <=> In(at[v])) /\ (Present(at[v]) <=> In(at[v]))
  BY HereIsIn DEF StagingInv, Here
<1> SUFFICES ASSUME NEW e \in Dir, heart'[e] # "none", heart[e] # "none"
             PROVE  place'[e] \in {"active", "abandoned"} /\ \E v \in Request : HeartOwner(e, v)'
  BY DEF HeartsOwned, StagingInv, TypeOK
<1>1. PICK u \in Request :
        /\ HeartOwner(e, u) /\ place[e] \in {"active", "abandoned"} /\ In(at[u]) /\ Own(u) = e
        /\ \A v \in Request : pc[v] \in Owning /\ In(at[v]) /\ Own(v) = e => v = u
  BY HeartHasOwner
<1>3. place'[e] \in {"active", "abandoned"} /\ HeartOwner(e, u)'
  BY <1>0, <1>1 DEF StagingInv, TypeOK, HeartOwner, Owning
<1> QED
  BY <1>3

(* PublishList keeps the owners of the heartbeats.                         *)
LEMMA PublishListHearts ==
  ASSUME StagingInv, HeartsOwned, NEW w \in Request, PublishList(w)
  PROVE  HeartsOwned'
<1> USE DEF PublishList, Own, Goto, Keep, Still, directories
<1>0. \A v \in Request : (Here(v) <=> In(at[v])) /\ (Present(at[v]) <=> In(at[v]))
  BY HereIsIn DEF StagingInv, Here
<1> SUFFICES ASSUME NEW e \in Dir, heart'[e] # "none", heart[e] # "none"
             PROVE  place'[e] \in {"active", "abandoned"} /\ \E v \in Request : HeartOwner(e, v)'
  BY DEF HeartsOwned, StagingInv, TypeOK
<1>1. PICK u \in Request :
        /\ HeartOwner(e, u) /\ place[e] \in {"active", "abandoned"} /\ In(at[u]) /\ Own(u) = e
        /\ \A v \in Request : pc[v] \in Owning /\ In(at[v]) /\ Own(v) = e => v = u
  BY HeartHasOwner
<1>3. place'[e] \in {"active", "abandoned"} /\ HeartOwner(e, u)'
  BY <1>0, <1>1 DEF StagingInv, TypeOK, HeartOwner, Owning
<1> QED
  BY <1>3

(* PublishClean keeps the owners of the heartbeats.                        *)
LEMMA PublishCleanHearts ==
  ASSUME StagingInv, HeartsOwned, NEW w \in Request, PublishClean(w)
  PROVE  HeartsOwned'
<1> USE DEF PublishClean, Own, Silenced, Goto, Keep, Still
<1>0. \A v \in Request : (Here(v) <=> In(at[v])) /\ (Present(at[v]) <=> In(at[v]))
  BY HereIsIn DEF StagingInv, Here
<1> SUFFICES ASSUME NEW e \in Dir, heart'[e] # "none", heart[e] # "none"
             PROVE  place'[e] \in {"active", "abandoned"} /\ \E v \in Request : HeartOwner(e, v)'
  BY DEF HeartsOwned, StagingInv, TypeOK
<1>1. PICK u \in Request :
        /\ HeartOwner(e, u) /\ place[e] \in {"active", "abandoned"} /\ In(at[u]) /\ Own(u) = e
        /\ \A v \in Request : pc[v] \in Owning /\ In(at[v]) /\ Own(v) = e => v = u
  BY HeartHasOwner
<1>3. place'[e] \in {"active", "abandoned"} /\ HeartOwner(e, u)'
  BY <1>0, <1>1 DEF StagingInv, TypeOK, HeartOwner, Owning
<1> QED
  BY <1>3

(* PublishUnlease keeps the owners of the heartbeats.                      *)
LEMMA PublishUnleaseHearts ==
  ASSUME StagingInv, HeartsOwned, NEW w \in Request, PublishUnlease(w)
  PROVE  HeartsOwned'
<1> USE DEF PublishUnlease, Own, SetLease, Goto, Keep, Still
<1>0. \A v \in Request : (Here(v) <=> In(at[v])) /\ (Present(at[v]) <=> In(at[v]))
  BY HereIsIn DEF StagingInv, Here
<1> SUFFICES ASSUME NEW e \in Dir, heart'[e] # "none", heart[e] # "none"
             PROVE  place'[e] \in {"active", "abandoned"} /\ \E v \in Request : HeartOwner(e, v)'
  BY DEF HeartsOwned, StagingInv, TypeOK
<1>1. PICK u \in Request :
        /\ HeartOwner(e, u) /\ place[e] \in {"active", "abandoned"} /\ In(at[u]) /\ Own(u) = e
        /\ \A v \in Request : pc[v] \in Owning /\ In(at[v]) /\ Own(v) = e => v = u
  BY HeartHasOwner
<1>3. place'[e] \in {"active", "abandoned"} /\ HeartOwner(e, u)'
  BY <1>0, <1>1 DEF StagingInv, TypeOK, HeartOwner, Owning
<1> QED
  BY <1>3

(* PublishRename keeps the owners of the heartbeats.                       *)
LEMMA PublishRenameHearts ==
  ASSUME StagingInv, HeartsOwned, NEW w \in Request, NEW kind, PublishRename(w, kind)
  PROVE  HeartsOwned'
<1> USE DEF PublishRename, Own, Vanishes, SetLease, Silenced, Over, Goto, Still, directories
<1>0. \A v \in Request : (Here(v) <=> In(at[v])) /\ (Present(at[v]) <=> In(at[v]))
  BY HereIsIn DEF StagingInv, Here
<1> SUFFICES ASSUME NEW e \in Dir, heart'[e] # "none", heart[e] # "none"
             PROVE  place'[e] \in {"active", "abandoned"} /\ \E v \in Request : HeartOwner(e, v)'
  BY DEF HeartsOwned, StagingInv, TypeOK
<1>1. PICK u \in Request :
        /\ HeartOwner(e, u) /\ place[e] \in {"active", "abandoned"} /\ In(at[u]) /\ Own(u) = e
        /\ \A v \in Request : pc[v] \in Owning /\ In(at[v]) /\ Own(v) = e => v = u
  BY HeartHasOwner
<1>3. place'[e] \in {"active", "abandoned"} /\ HeartOwner(e, u)'
  BY <1>0, <1>1 DEF StagingInv, TypeOK, HeartOwner, Owning
<1> QED
  BY <1>3

(* Beat keeps the owners of the heartbeats.                                *)
LEMMA BeatHearts ==
  ASSUME StagingInv, HeartsOwned, NEW d \in Dir, Beat(d)
  PROVE  HeartsOwned'
<1> USE DEF Beat, Own, Silenced, requests, Still
<1>0. \A v \in Request : (Here(v) <=> In(at[v])) /\ (Present(at[v]) <=> In(at[v]))
  BY HereIsIn DEF StagingInv, Here
<1> SUFFICES ASSUME NEW e \in Dir, heart'[e] # "none", heart[e] # "none"
             PROVE  place'[e] \in {"active", "abandoned"} /\ \E v \in Request : HeartOwner(e, v)'
  BY DEF HeartsOwned, StagingInv, TypeOK
<1>1. PICK u \in Request :
        /\ HeartOwner(e, u) /\ place[e] \in {"active", "abandoned"} /\ In(at[u]) /\ Own(u) = e
        /\ \A v \in Request : pc[v] \in Owning /\ In(at[v]) /\ Own(v) = e => v = u
  BY HeartHasOwner
<1>3. place'[e] \in {"active", "abandoned"} /\ HeartOwner(e, u)'
  BY <1>0, <1>1 DEF StagingInv, TypeOK, HeartOwner, Owning
<1> QED
  BY <1>3

(* BeatLands keeps the owners of the heartbeats.                           *)
LEMMA BeatLandsHearts ==
  ASSUME StagingInv, HeartsOwned, NEW d \in Dir, BeatLands(d)
  PROVE  HeartsOwned'
<1> USE DEF BeatLands, Own, SetLease, requests, Still
<1>0. \A v \in Request : (Here(v) <=> In(at[v])) /\ (Present(at[v]) <=> In(at[v]))
  BY HereIsIn DEF StagingInv, Here
<1> SUFFICES ASSUME NEW e \in Dir, heart'[e] # "none", heart[e] # "none"
             PROVE  place'[e] \in {"active", "abandoned"} /\ \E v \in Request : HeartOwner(e, v)'
  BY DEF HeartsOwned, StagingInv, TypeOK
<1>1. PICK u \in Request :
        /\ HeartOwner(e, u) /\ place[e] \in {"active", "abandoned"} /\ In(at[u]) /\ Own(u) = e
        /\ \A v \in Request : pc[v] \in Owning /\ In(at[v]) /\ Own(v) = e => v = u
  BY HeartHasOwner
<1>3. place'[e] \in {"active", "abandoned"} /\ HeartOwner(e, u)'
  BY <1>0, <1>1 DEF StagingInv, TypeOK, HeartOwner, Owning
<1> QED
  BY <1>3

(* BeatFails keeps the owners of the heartbeats.                           *)
LEMMA BeatFailsHearts ==
  ASSUME StagingInv, HeartsOwned, NEW d \in Dir, BeatFails(d)
  PROVE  HeartsOwned'
<1> USE DEF BeatFails, Own, Silenced, requests
<1>0. \A v \in Request : (Here(v) <=> In(at[v])) /\ (Present(at[v]) <=> In(at[v]))
  BY HereIsIn DEF StagingInv, Here
<1> SUFFICES ASSUME NEW e \in Dir, heart'[e] # "none", heart[e] # "none"
             PROVE  place'[e] \in {"active", "abandoned"} /\ \E v \in Request : HeartOwner(e, v)'
  BY DEF HeartsOwned, StagingInv, TypeOK
<1>1. PICK u \in Request :
        /\ HeartOwner(e, u) /\ place[e] \in {"active", "abandoned"} /\ In(at[u]) /\ Own(u) = e
        /\ \A v \in Request : pc[v] \in Owning /\ In(at[v]) /\ Own(v) = e => v = u
  BY HeartHasOwner
<1>3. place'[e] \in {"active", "abandoned"} /\ HeartOwner(e, u)'
  BY <1>0, <1>1 DEF StagingInv, TypeOK, HeartOwner, Owning
<1> QED
  BY <1>3

(* Crash keeps the owners of the heartbeats.                               *)
LEMMA CrashHearts ==
  ASSUME StagingInv, HeartsOwned, NEW w \in Request, Crash(w)
  PROVE  HeartsOwned'
<1> USE DEF Crash, Own, Goto
<1>0. \A v \in Request : (Here(v) <=> In(at[v])) /\ (Present(at[v]) <=> In(at[v]))
  BY HereIsIn DEF StagingInv, Here
<1> SUFFICES ASSUME NEW e \in Dir, heart'[e] # "none", heart[e] # "none"
             PROVE  place'[e] \in {"active", "abandoned"} /\ \E v \in Request : HeartOwner(e, v)'
  BY DEF HeartsOwned, StagingInv, TypeOK
<1>1. PICK u \in Request :
        /\ HeartOwner(e, u) /\ place[e] \in {"active", "abandoned"} /\ In(at[u]) /\ Own(u) = e
        /\ \A v \in Request : pc[v] \in Owning /\ In(at[v]) /\ Own(v) = e => v = u
  BY HeartHasOwner
<1>3. place'[e] \in {"active", "abandoned"} /\ HeartOwner(e, u)'
  BY <1>0, <1>1 DEF StagingInv, TypeOK, HeartOwner, Owning
<1> QED
  BY <1>3

(* RemovalCheck keeps the owners of the heartbeats.                        *)
LEMMA RemovalCheckHearts ==
  ASSUME StagingInv, HeartsOwned, NEW d \in Dir, RemovalCheck(<<d, name[d]>>)
  PROVE  HeartsOwned'
<1> USE DEF RemovalCheck, Own, Removable, directories, requests
<1>0. \A v \in Request : (Here(v) <=> In(at[v])) /\ (Present(at[v]) <=> In(at[v]))
  BY HereIsIn DEF StagingInv, Here
<1> SUFFICES ASSUME NEW e \in Dir, heart'[e] # "none", heart[e] # "none"
             PROVE  place'[e] \in {"active", "abandoned"} /\ \E v \in Request : HeartOwner(e, v)'
  BY DEF HeartsOwned, StagingInv, TypeOK
<1>1. PICK u \in Request :
        /\ HeartOwner(e, u) /\ place[e] \in {"active", "abandoned"} /\ In(at[u]) /\ Own(u) = e
        /\ \A v \in Request : pc[v] \in Owning /\ In(at[v]) /\ Own(v) = e => v = u
  BY HeartHasOwner
<1>3. place'[e] \in {"active", "abandoned"} /\ HeartOwner(e, u)'
  BY <1>0, <1>1 DEF StagingInv, TypeOK, HeartOwner, Owning
<1> QED
  BY <1>3

(* RemovalOpen keeps the owners of the heartbeats.                         *)
LEMMA RemovalOpenHearts ==
  ASSUME StagingInv, HeartsOwned, RemovalOpen
  PROVE  HeartsOwned'
<1> USE DEF RemovalOpen, Own, directories, requests, faults
<1>0. \A v \in Request : (Here(v) <=> In(at[v])) /\ (Present(at[v]) <=> In(at[v]))
  BY HereIsIn DEF StagingInv, Here
<1> SUFFICES ASSUME NEW e \in Dir, heart'[e] # "none", heart[e] # "none"
             PROVE  place'[e] \in {"active", "abandoned"} /\ \E v \in Request : HeartOwner(e, v)'
  BY DEF HeartsOwned, StagingInv, TypeOK
<1>1. PICK u \in Request :
        /\ HeartOwner(e, u) /\ place[e] \in {"active", "abandoned"} /\ In(at[u]) /\ Own(u) = e
        /\ \A v \in Request : pc[v] \in Owning /\ In(at[v]) /\ Own(v) = e => v = u
  BY HeartHasOwner
<1>3. place'[e] \in {"active", "abandoned"} /\ HeartOwner(e, u)'
  BY <1>0, <1>1 DEF StagingInv, TypeOK, HeartOwner, Owning
<1> QED
  BY <1>3

(* RemovalDone keeps the owners of the heartbeats.                         *)
LEMMA RemovalDoneHearts ==
  ASSUME StagingInv, HeartsOwned, RemovalDone
  PROVE  HeartsOwned'
<1> USE DEF RemovalDone, Own, Vanishes, SetLease, Silenced, directories, requests, faults
<1>0. \A v \in Request : (Here(v) <=> In(at[v])) /\ (Present(at[v]) <=> In(at[v]))
  BY HereIsIn DEF StagingInv, Here
<1> SUFFICES ASSUME NEW e \in Dir, heart'[e] # "none", heart[e] # "none"
             PROVE  place'[e] \in {"active", "abandoned"} /\ \E v \in Request : HeartOwner(e, v)'
  BY DEF HeartsOwned, StagingInv, TypeOK
<1>1. PICK u \in Request :
        /\ HeartOwner(e, u) /\ place[e] \in {"active", "abandoned"} /\ In(at[u]) /\ Own(u) = e
        /\ \A v \in Request : pc[v] \in Owning /\ In(at[v]) /\ Own(v) = e => v = u
  BY HeartHasOwner
<1>3. place'[e] \in {"active", "abandoned"} /\ HeartOwner(e, u)'
  BY <1>0, <1>1 DEF StagingInv, TypeOK, HeartOwner, Owning
<1> QED
  BY <1>3

(* Tick keeps the owners of the heartbeats.                                *)
LEMMA TickHearts ==
  ASSUME StagingInv, HeartsOwned, Tick
  PROVE  HeartsOwned'
<1> USE DEF Tick, Own, Live, Timely, requests, Still
<1>0. \A v \in Request : (Here(v) <=> In(at[v])) /\ (Present(at[v]) <=> In(at[v]))
  BY HereIsIn DEF StagingInv, Here
<1> SUFFICES ASSUME NEW e \in Dir, heart'[e] # "none", heart[e] # "none"
             PROVE  place'[e] \in {"active", "abandoned"} /\ \E v \in Request : HeartOwner(e, v)'
  BY DEF HeartsOwned, StagingInv, TypeOK
<1>1. PICK u \in Request :
        /\ HeartOwner(e, u) /\ place[e] \in {"active", "abandoned"} /\ In(at[u]) /\ Own(u) = e
        /\ \A v \in Request : pc[v] \in Owning /\ In(at[v]) /\ Own(v) = e => v = u
  BY HeartHasOwner
<1>3. place'[e] \in {"active", "abandoned"} /\ HeartOwner(e, u)'
  BY <1>0, <1>1 DEF StagingInv, TypeOK, HeartOwner, Owning
<1> QED
  BY <1>3

LEMMA HeartsNext ==
  ASSUME StagingInv, HeartsOwned, "refresh" \notin Operation \/ ~ Blocked, [Next]_vars
  PROVE  HeartsOwned'
<1>1. ASSUME NEW w \in Request, Recovers(w)
      PROVE  HeartsOwned'
  BY <1>1, StartHearts, RecoverPreserveHearts, RecoverDiscardHearts, RecoverDoneHearts,
     RecoverEntryHearts DEF Recovers
<1>2. ASSUME NEW w \in Request, Acquires(w)
      PROVE  HeartsOwned'
  BY <1>2, RetryHearts, LookAtActiveHearts, ExamineHearts, ClaimRenewHearts, ClaimRenameHearts,
     ClaimFinishHearts, MakeHearts, MakeLeaseHearts, MakeIdentityHearts DEF Acquires
<1>3. ASSUME NEW w \in Request, Ends(w)
      PROVE  HeartsOwned'
  BY <1>3, ResolveHearts, FetchDoneHearts, DropHearts, PreserveHearts, ExpireHearts,
     PublishBlockedHearts, PublishListHearts, PublishCleanHearts, PublishUnleaseHearts,
     PublishRenameHearts DEF Ends
<1>4. ASSUME NEW w \in Request,
             Crash(w) \/ FetchCancelled(w) \/ (\E s \in Selection : Ask(w, s))
             \/ \E to \in {"failed", "dropping"} : FetchFails(w, to)
      PROVE  HeartsOwned'
  BY <1>4, CrashHearts, FetchCancelledHearts, AskHearts, FetchFailsHearts
<1>5. ASSUME NEW d \in Dir, Renews(d) \/ BeatFails(d) \/ RemovalCheck(<<d, name[d]>>)
      PROVE  HeartsOwned'
  BY <1>5, BeatHearts, BeatLandsHearts, BeatFailsHearts, RemovalCheckHearts DEF Renews
<1>6. CASE RemovalOpen \/ RemovalDone \/ Tick
  BY <1>6, RemovalOpenHearts, RemovalDoneHearts, TickHearts
<1>7. CASE UNCHANGED vars
  BY <1>7 DEF vars, directories, requests, HeartsOwned, HeartOwner
<1> QED
  BY <1>1, <1>2, <1>3, <1>4, <1>5, <1>6, <1>7 DEF Next, Proceeds

(* A lease that is being renewed belongs to an acquisition that is under   *)
(* way, whatever failed, died or was removed: where no refresh meets a     *)
(* half removed revision, which is the one path that leaves a heartbeat    *)
(* behind.                                                                 *)
THEOREM RenewalsAreOwned ==
  ASSUME "refresh" \notin Operation \/ ~ Blocked
  PROVE  Spec => []RenewedIsOwned
<1>1. Init => HeartsOwned
  BY DEF Init, HeartsOwned
<1>2. StagingInv /\ HeartsOwned /\ [Next]_vars => HeartsOwned'
  BY HeartsNext
<1>3. HeartsOwned => RenewedIsOwned
  BY DEF HeartsOwned, HeartOwner, RenewedIsOwned
<1> QED
  BY <1>1, <1>2, <1>3, StagingInvariant, PTL DEF Spec
-----------------------------------------------------------------------------
(* What a listed entry may still become: while no renewal fails, nobody    *)
(* works under its name; while nothing is removed, whoever works under it  *)
(* has not recorded both a selection and a commit, and its lease has       *)
(* stayed expired for as long as it may still record one.                  *)
EntryRead(d) == recorded[d] # None /\ commit[d]

Unread(p) ==
    In(p) =>
        /\ ~ EntryRead(p[1])
        /\ missed = 0 => \A w \in Request : pc[w] \in Holding => at[w] # p
        /\ removals = 0 => \A w \in Request : pc[w] \in Owning /\ at[w] = p =>
              /\ pc[w] \notin {"made", "claimed"}
              /\ pc[w] \in {"leased", "resolving"} => lease[p[1]] = 0

ListedTrue ==
    /\ listing \in [at : Path \cup {NoPath}, resumable : BOOLEAN]
    /\ Known(listing.at)
    /\ missed = 0 \/ removals = 0 =>
          (listing # NotListing /\ ~ listing.resumable => Unread(listing.at))

(* What that takes of the owners when a renewal may fail: a directory that *)
(* has just been made has no commit, and no lease but that of its owner.   *)
NewIsUnresolved ==
    \A w \in Request : In(at[w]) =>
        /\ pc[w] \in {"made", "leased"} => ~ commit[Own(w)]
        /\ pc[w] = "made" => /\ lease[Own(w)] = NoLease /\ heart[Own(w)] = "none"
                             /\ \A v \in Request : pc[v] \in Acting => at[v] # at[w]

(* And when nothing is removed: what has been claimed can be read, unless  *)
(* its lease is kept; and so can what has been preserved.                  *)
ClaimedIsRead ==
    removals = 0 => \A w \in Request : In(at[w]) =>
        /\ pc[w] \in {"rename", "claimed"} /\ lease[Own(w)] = 0 => EntryRead(Own(w))
        /\ pc[w] = "rename" /\ lease[Own(w)] = 0 =>
              \A v \in Request : pc[v] \in Holding => at[v] # at[w]
        /\ pc[w] = "expiring" => EntryRead(Own(w))
        /\ pc[w] = "claim" =>
              \A v \in Request :
                  pc[v] \in {"made", "leased", "claimed", "resolving"} /\ at[v] = at[w]
                      => EntryRead(Own(w))

ListingInv == StagingInv /\ NewIsUnresolved /\ ClaimedIsRead /\ ListedTrue

(* What one step does to a name that has been given: whether it still      *)
(* names a directory, ...                                                  *)
LEMMA AtName ==
  ASSUME StagingInv, NEW p \in Path \cup {NoPath}, In(p)
  PROVE  \A w \in Request : Here(w) /\ Own(w) = p[1] => at[w] = p
BY HereIsIn, OneName DEF StagingInv, TypeOK, Own

LEMMA KnownName ==
  ASSUME StagingInv, Next, NEW p \in Path \cup {NoPath}, Known(p)
  PROVE  Known(p)' /\ (In(p)' => In(p))
<1>1. CASE UNCHANGED <<place, name>>
  BY <1>1 DEF Known, In
<1>2. ASSUME NEW d, NEW kind, Vanishes(d, kind), kind \in {"unused", "published"} \/ kind = place[d]
      PROVE  Known(p)' /\ (In(p)' => In(p))
  BY <1>2 DEF Vanishes, Known, In, StagingInv, TypeOK
<1>3. ASSUME NEW d \in Dir, NEW kind, Renamed(d, kind)
      PROVE  Known(p)' /\ (In(p)' => In(p))
  BY <1>3, FreshName DEF Renamed, StagingInv
<1>4. \A w \in Request : Here(w) => Own(w) \in Dir
  BY HereIsIn DEF In, Own, StagingInv
<1>5. ASSUME NEW w \in Request, Recovers(w)
      PROVE  Known(p)' /\ (In(p)' => In(p))
  BY <1>1, <1>2, <1>3, <1>4, <1>5 DEF Recovers, Start, RecoverPreserve, RecoverDiscard,
     RecoverDone,
     RecoverEntry, RemoveAll, directories
<1>6. ASSUME NEW w \in Request, Make(w)
      PROVE  Known(p)' /\ (In(p)' => In(p))
  BY <1>3, <1>6 DEF Make, Free
<1>7. ASSUME NEW w \in Request, Acquires(w)
      PROVE  Known(p)' /\ (In(p)' => In(p))
  BY <1>1, <1>3, <1>4, <1>6, <1>7 DEF Acquires, Retry, Look, LookAtActive, Examine, ClaimRenew,
     ClaimRename, ClaimFinish, MakeLease, MakeIdentity, Fails, directories
<1>8. ASSUME NEW w \in Request, Ends(w)
      PROVE  Known(p)' /\ (In(p)' => In(p))
  BY <1>1, <1>2, <1>3, <1>4, <1>8 DEF Ends, Resolve, FetchDone, Moves, Drop, Preserve, RemoveAll,
     Expire,
     PublishBlocked, PublishList, PublishClean, PublishUnlease, PublishRename, directories
<1>9. ASSUME NEW w \in Request,
             Crash(w) \/ FetchCancelled(w) \/ (\E s \in Selection : Ask(w, s))
             \/ \E to \in {"failed", "dropping"} : FetchFails(w, to)
      PROVE  Known(p)' /\ (In(p)' => In(p))
  BY <1>1, <1>9 DEF Crash, FetchCancelled, Ask, Look, FetchFails, Moves, directories
<1>10. ASSUME NEW d \in Dir, Renews(d) \/ BeatFails(d) \/ RemovalCheck(<<d, name[d]>>)
      PROVE  Known(p)' /\ (In(p)' => In(p))
  BY <1>1, <1>10 DEF Renews, Beat, BeatLands, BeatFails, RemovalCheck, directories
<1>11. CASE RemovalOpen \/ RemovalDone \/ Tick
  BY <1>1, <1>2, <1>11 DEF RemovalOpen, RemovalDone, Tick, directories
<1> QED
  BY <1>5, <1>7, <1>8, <1>9, <1>10, <1>11 DEF Next, Proceeds

(* ... who works under it, ...                                             *)
LEMMA OldOwner ==
  ASSUME StagingInv, Next, NEW p \in Path, Known(p), NEW v \in Request, pc'[v] \in Holding, at'[v] = p
  PROVE  /\ pc[v] \in Holding /\ at[v] = p
         /\ pc'[v] \in {"made", "claimed", "expiring"} => pc[v] = pc'[v]
         /\ pc'[v] = "leased" => pc[v] \in {"made", "leased"}
         /\ pc'[v] = "resolving" => pc[v] \in {"claimed", "leased", "resolving"}
<1> DEFINE Goal == /\ pc[v] \in Holding /\ at[v] = p
                   /\ pc'[v] \in {"made", "claimed", "expiring"} => pc[v] = pc'[v]
                   /\ pc'[v] = "leased" => pc[v] \in {"made", "leased"}
                   /\ pc'[v] = "resolving" => pc[v] \in {"claimed", "leased", "resolving"}
<1>0. pc \in [Request -> Step] /\ at \in [Request -> Path \cup {NoPath}]
  BY DEF StagingInv, TypeOK
<1>1. CASE pc'[v] = pc[v] /\ at'[v] = at[v]
  BY <1>1
<1>2. ASSUME NEW d \in Dir PROVE p # <<d, name[d] + 1>>
  BY DEF Known, StagingInv, TypeOK, Path, NoPath
<1>3. ASSUME NEW w \in Request, Here(w) PROVE Own(w) \in Dir
  BY <1>3, HereIsIn DEF In, Own, StagingInv
<1>4. ASSUME NEW w \in Request, Recovers(w) PROVE Goal
  BY <1>0, <1>1, <1>4 DEF Recovers, Start, RecoverPreserve, RecoverDiscard, RecoverDone,
     RecoverEntry,
     Goto, Holding, Owning
<1>5. ASSUME NEW w \in Request, Make(w) PROVE Goal
  BY <1>0, <1>1, <1>2, <1>5 DEF Make, Free, Goto
<1>6. ASSUME NEW w \in Request, ClaimRename(w) PROVE Goal
  BY <1>0, <1>1, <1>2, <1>3, <1>6 DEF ClaimRename, Lost, Goto, Holding, Owning
<1>7. ASSUME NEW w \in Request, Acquires(w) PROVE Goal
  BY <1>0, <1>1, <1>5, <1>6, <1>7 DEF Acquires, Retry, Look, LookAtActive, Examine, ClaimRenew,
     Lost,
     ClaimFinish, MakeLease, MakeIdentity, Admitted, Fails, Over, Goto, Holding, Owning
<1>8. ASSUME NEW w \in Request, Preserve(w) PROVE Goal
  BY <1>0, <1>1, <1>2, <1>3, <1>8 DEF Preserve, Over, Goto, Holding, Owning
<1>9. ASSUME NEW w \in Request, Ends(w) PROVE Goal
  BY <1>0, <1>1, <1>8, <1>9 DEF Ends, Resolve, FetchDone, Moves, Drop, Expire, PublishBlocked,
     PublishList, PublishClean, PublishUnlease, PublishRename, Over, Goto, Holding, Owning
<1>10. ASSUME NEW w \in Request,
              Crash(w) \/ FetchCancelled(w) \/ (\E s \in Selection : Ask(w, s))
              \/ \E to \in {"failed", "dropping"} : FetchFails(w, to)
       PROVE  Goal
  BY <1>0, <1>1, <1>10 DEF Crash, FetchCancelled, Ask, Look, FetchFails, Moves, Goto, Holding,
     Owning
<1>11. ASSUME NEW d \in Dir, Renews(d) \/ BeatFails(d) \/ RemovalCheck(<<d, name[d]>>)
       PROVE  Goal
  BY <1>1, <1>11 DEF Renews, Beat, BeatLands, BeatFails, RemovalCheck, requests
<1>12. CASE RemovalOpen \/ RemovalDone \/ Tick
  BY <1>1, <1>12 DEF RemovalOpen, RemovalDone, Tick, requests
<1> QED
  BY <1>4, <1>7, <1>9, <1>10, <1>11, <1>12 DEF Next, Proceeds

(* ... who acts on it, having read it as expired, ...                      *)
LEMMA OldActor ==
  ASSUME StagingInv, Next, NEW p \in Path, NEW v \in Request, pc'[v] \in Acting, at'[v] = p
  PROVE  \/ pc[v] = pc'[v] /\ at[v] = p
         \/ /\ pc[v] = "claim" /\ at[v] = p /\ pc'[v] = "rename" /\ Here(v)
            /\ SetLease(Own(v), Lease)
         \/ /\ In(p) /\ lease[p[1]] = 0 /\ UNCHANGED <<directories, removals>>
            /\ pc'[v] = "claim" => EntryRead(p[1])
            /\ pc'[v] # "rename"
<1> DEFINE Goal == \/ pc[v] = pc'[v] /\ at[v] = p
                   \/ /\ pc[v] = "claim" /\ at[v] = p /\ pc'[v] = "rename" /\ Here(v)
                      /\ SetLease(Own(v), Lease)
                   \/ /\ In(p) /\ lease[p[1]] = 0 /\ UNCHANGED <<directories, removals>>
                      /\ pc'[v] = "claim" => EntryRead(p[1])
                      /\ pc'[v] # "rename"
<1>0. pc \in [Request -> Step] /\ at \in [Request -> Path \cup {NoPath}]
  BY DEF StagingInv, TypeOK
<1>1. CASE pc'[v] = pc[v] /\ at'[v] = at[v]
  BY <1>1
<1>2. Present(p) <=> In(p)
  BY PresentIsIn
<1>4. ASSUME NEW w \in Request, Recovers(w) PROVE Goal
  <2>1. ASSUME NEW q \in todo[w], RecoverEntry(w, q) PROVE Goal
    <3>1. CASE w = v
      BY <1>0, <1>1, <1>2, <2>1, <3>1 DEF RecoverEntry, Goto, Still, faults
    <3>2. CASE w # v
      BY <1>0, <1>1, <2>1, <3>2 DEF RecoverEntry, Goto
    <3> QED
      BY <3>1, <3>2
  <2> QED
    BY <1>0, <1>1, <1>4, <2>1 DEF Recovers, Start, RecoverPreserve, RecoverDiscard, RecoverDone,
       Goto, Acting
<1>5. ASSUME NEW w \in Request, NEW q \in todo[w], Examine(w, q) PROVE Goal
  <2>1. CASE w = v
    <3>1. wants[w] \in Selection
      BY DEF StagingInv, TypeOK
    <3>2. CASE pc'[w] = "claim" /\ at'[w] = q /\ Present(q) /\ Claimable(w, q[1])
      BY <1>2, <1>5, <2>1, <3>1, <3>2, SelectionAssumption
         DEF Examine, Claimable, Adoptable, EntryRead, Still, faults
    <3>3. CASE UNCHANGED <<pc, at>>
      BY <1>1, <3>3
    <3>4. CASE pc'[w] = "refused"
      BY <2>1, <3>4 DEF Acting
    <3> QED
      BY <1>0, <1>5, <3>2, <3>3, <3>4 DEF Examine, Goto
  <2>2. CASE w # v
    BY <1>0, <1>1, <1>5, <2>2 DEF Examine, Goto
  <2> QED
    BY <2>1, <2>2
<1>6. ASSUME NEW w \in Request, ClaimRenew(w) PROVE Goal
  BY <1>0, <1>1, <1>6 DEF ClaimRenew, Lost, Goto, Acting
<1>7. ASSUME NEW w \in Request, Acquires(w) PROVE Goal
  BY <1>0, <1>1, <1>5, <1>6, <1>7 DEF Acquires, Retry, Look, LookAtActive, ClaimRename, Lost,
     Make,
     ClaimFinish, MakeLease, MakeIdentity, Admitted, Fails, Over, Goto, Acting
<1>9. ASSUME NEW w \in Request, Ends(w) PROVE Goal
  BY <1>0, <1>1, <1>9 DEF Ends, Resolve, FetchDone, Moves, Drop, Preserve, Expire, PublishBlocked,
     PublishList, PublishClean, PublishUnlease, PublishRename, Over, Goto, Acting
<1>10. ASSUME NEW w \in Request,
              Crash(w) \/ FetchCancelled(w) \/ (\E s \in Selection : Ask(w, s))
              \/ \E to \in {"failed", "dropping"} : FetchFails(w, to)
       PROVE  Goal
  BY <1>0, <1>1, <1>10 DEF Crash, FetchCancelled, Ask, Look, FetchFails, Moves, Goto, Acting
<1>11. ASSUME NEW d \in Dir, Renews(d) \/ BeatFails(d) \/ RemovalCheck(<<d, name[d]>>)
       PROVE  Goal
  BY <1>1, <1>11 DEF Renews, Beat, BeatLands, BeatFails, RemovalCheck, requests
<1>12. CASE RemovalOpen \/ RemovalDone \/ Tick
  BY <1>1, <1>12 DEF RemovalOpen, RemovalDone, Tick, requests
<1> QED
  BY <1>4, <1>7, <1>9, <1>10, <1>11, <1>12 DEF Next, Proceeds

(* ... and what becomes of the directory: by the one who works on it, by   *)
(* the clock, by its heartbeat, or by an operator's removal.               *)
SameEntry(d) == recorded'[d] = recorded[d] /\ commit'[d] = commit[d]
SameLease(d) == lease'[d] = lease[d] /\ heart'[d] = heart[d]

WorkedOn(p, w) ==
    LET d == p[1]
    IN  /\ Here(w) /\ at[w] = p
        /\ \/ pc[w] = "claim" /\ lease'[d] = Lease /\ SameEntry(d) /\ heart'[d] = heart[d]
           \/ /\ pc[w] = "claimed" /\ pc'[w] = "resolving" /\ lease'[d] = Lease
              /\ SameEntry(d) \/ EntryRead(d)'
           \/ pc[w] = "made" /\ pc'[w] = "leased" /\ lease'[d] = Lease /\ SameEntry(d)
           \/ /\ pc[w] = "leased" /\ pc'[w] = "resolving" /\ SameLease(d)
              /\ recorded'[d] \in Selection /\ commit'[d] = commit[d]
           \/ /\ pc[w] = "resolving" /\ pc'[w] = "transferring" /\ SameLease(d)
              /\ recorded'[d] \in Selection
           \/ /\ pc[w] = "expiring" /\ pc'[w] = "idle" /\ lease'[d] = 0
              /\ SameEntry(d) /\ heart'[d] = heart[d]
           \/ /\ pc[w] = "cleaning" /\ lease'[d] = lease[d] /\ heart'[d] \in {heart[d], "none"}
              /\ ~ commit'[d]
           \/ pc[w] = "sealed" /\ lease'[d] = NoLease /\ SameEntry(d) /\ heart'[d] = heart[d]

Aged(p) ==
    LET d == p[1]
    IN  /\ SameEntry(d) /\ heart'[d] = heart[d] /\ pc' = pc /\ at' = at
        /\ lease'[d] = lease[d] \/ lease[d] > 0
        /\ lease'[d] = 0 /\ lease[d] # 0 =>
              \A w \in Request : pc[w] \in {"rename", "claimed"} => at[w] # p

Renewed(p) ==
    LET d == p[1]
    IN  /\ SameEntry(d)
        /\ heart'[d] # "none" => heart[d] # "none"
        /\ lease'[d] # lease[d] => heart[d] # "none" /\ lease'[d] = Lease

Emptied(p) ==
    LET d == p[1]
    IN  removing.step = "deleting" /\ ~ commit'[d] /\ lease'[d] = NoLease /\ heart'[d] = "none"

LEMMA OldEntry ==
  ASSUME StagingInv, Next, NEW p \in Path, Known(p), In(p)'
  PROVE  \/ SameEntry(p[1]) /\ SameLease(p[1])
         \/ \E w \in Request : WorkedOn(p, w)
         \/ Aged(p) \/ Renewed(p) \/ Emptied(p)
<1> DEFINE d == p[1]
           Goal == \/ SameEntry(d) /\ SameLease(d)
                   \/ \E w \in Request : WorkedOn(p, w)
                   \/ Aged(p) \/ Renewed(p) \/ Emptied(p)
<1>0. In(p) /\ d \in Dir
  BY KnownName DEF In
<1>t. /\ pc \in [Request -> Step] /\ wants \in [Request -> Selection]
      /\ recorded \in [Dir -> Selection \cup {None}] /\ commit \in [Dir -> BOOLEAN]
      /\ lease \in [Dir -> -1 .. Lease] /\ heart \in [Dir -> {"none", "asleep", "writing"}]
      /\ place \in [Dir -> {"unused", "active", "abandoned", "published"}] /\ name \in [Dir -> Nat]
  BY DEF StagingInv, TypeOK
<1>1. \A w \in Request : Here(w) /\ Own(w) = d => at[w] = p
  BY <1>0, AtName
<1>2. ASSUME UNCHANGED <<recorded, commit, lease, heart>> PROVE Goal
  BY <1>2 DEF SameEntry, SameLease
<1>3. ASSUME NEW e, NEW kind \in {"unused", "published"}, Vanishes(e, kind) PROVE Goal
  BY <1>0, <1>t, <1>3 DEF Vanishes, SetLease, Silenced, In, SameEntry, SameLease
<1>4. ASSUME NEW e, NEW kind, Renamed(e, kind), UNCHANGED <<recorded, commit, lease>> PROVE Goal
  <2>1. e # d
    <3>1. name'[d] = name[d] /\ name[d] \in Nat
      BY <1>0, <1>t DEF In
    <3>2. name' = [name EXCEPT ![e] = @ + 1]
      BY <1>4 DEF Renamed
    <3> QED
      BY <1>0, <1>t, <3>1, <3>2
  <2> QED
    BY <1>0, <1>t, <1>4, <2>1 DEF Renamed, Silenced, SameEntry, SameLease
<1>5. ASSUME NEW w \in Request, Recovers(w) PROVE Goal
  BY <1>2, <1>3, <1>4, <1>5 DEF Recovers, Start, RecoverPreserve, RecoverDiscard, RecoverDone,
     RecoverEntry, RemoveAll, directories
<1>6. ASSUME NEW w \in Request, Acquires(w) PROVE Goal
  <2>1. CASE ClaimRenew(w)
    BY <1>0, <1>1, <1>2, <1>t, <2>1 DEF ClaimRenew, SetLease, WorkedOn, SameEntry, SameLease
  <2>2. CASE ClaimFinish(w)
    <3>1. CASE Here(w) /\ Own(w) = d
      BY <1>0, <1>1, <1>t, <2>2, <3>1, SelectionAssumption
         DEF ClaimFinish, Leased, Admitted, Fails, SetLease, Goto, WorkedOn, SameEntry, EntryRead
    <3>2. CASE Here(w) /\ Own(w) # d
      BY <1>0, <1>t, <2>2, <3>2 DEF ClaimFinish, Leased, Fails, SetLease, SameEntry, SameLease
    <3>3. CASE ~ Here(w)
      BY <1>2, <2>2, <3>3 DEF ClaimFinish, Fails, directories
    <3> QED
      BY <3>1, <3>2, <3>3
  <2>3. CASE Make(w)
    BY <1>4, <2>3 DEF Make
  <2>4. CASE MakeLease(w)
    <3>1. CASE Here(w) /\ Own(w) = d
      BY <1>0, <1>1, <1>t, <2>4, <3>1
         DEF MakeLease, Leased, Fails, SetLease, Goto, WorkedOn, SameEntry
    <3>2. CASE Here(w) /\ Own(w) # d
      BY <1>0, <1>t, <2>4, <3>2 DEF MakeLease, Leased, Fails, SetLease, SameEntry, SameLease
    <3>3. CASE ~ Here(w)
      BY <1>2, <2>4, <3>3 DEF MakeLease, Fails, directories
    <3> QED
      BY <3>1, <3>2, <3>3
  <2>5. CASE MakeIdentity(w)
    <3>1. CASE Here(w) /\ Own(w) = d
      BY <1>0, <1>1, <1>t, <2>5, <3>1
         DEF MakeIdentity, Admitted, Fails, Goto, WorkedOn, SameLease
    <3>2. CASE Here(w) /\ Own(w) # d
      BY <1>0, <1>t, <2>5, <3>2 DEF MakeIdentity, Fails, SameEntry, SameLease
    <3>3. CASE ~ Here(w)
      BY <1>2, <2>5, <3>3 DEF MakeIdentity, Fails, directories
    <3> QED
      BY <3>1, <3>2, <3>3
  <2>6. CASE ClaimRename(w)
    BY <1>2, <1>4, <2>6 DEF ClaimRename
  <2> QED
    BY <1>2, <1>6, <2>1, <2>2, <2>3, <2>4, <2>5, <2>6 DEF Acquires, Retry, Look, LookAtActive,
       Examine,
       directories
<1>7. ASSUME NEW w \in Request, Ends(w) PROVE Goal
  <2>1. CASE Resolve(w)
    BY <1>0, <1>1, <1>2, <1>t, <2>1 DEF Resolve, Goto, WorkedOn, SameEntry, SameLease
  <2>2. CASE Drop(w) \/ \E kind \in {"published", "unused"} : PublishRename(w, kind)
    BY <1>2, <1>3, <2>2 DEF Drop, PublishRename, RemoveAll, directories
  <2>3. CASE Preserve(w)
    BY <1>2, <1>3, <1>4, <2>3 DEF Preserve, RemoveAll, directories
  <2>4. CASE Expire(w)
    BY <1>0, <1>1, <1>2, <1>t, <2>4 DEF Expire, SetLease, Over, Goto, WorkedOn, SameEntry,
       SameLease
  <2>5. CASE PublishClean(w)
    BY <1>0, <1>1, <1>2, <1>t, <2>5 DEF PublishClean, Silenced, WorkedOn, SameEntry, SameLease
  <2>6. CASE PublishUnlease(w)
    BY <1>0, <1>1, <1>2, <1>t, <2>6 DEF PublishUnlease, SetLease, WorkedOn, SameEntry, SameLease
  <2> QED
    BY <1>2, <1>7, <2>1, <2>2, <2>3, <2>4, <2>5, <2>6 DEF Ends, FetchDone, Moves, PublishBlocked,
       PublishList,
       directories
<1>8. ASSUME NEW w \in Request,
             Crash(w) \/ FetchCancelled(w) \/ (\E s \in Selection : Ask(w, s))
             \/ \E to \in {"failed", "dropping"} : FetchFails(w, to)
      PROVE  Goal
  <2>1. CASE Crash(w)
    BY <1>0, <2>1 DEF Crash, Renewed, SameEntry
  <2> QED
    BY <1>2, <1>8, <2>1 DEF FetchCancelled, Ask, Look, FetchFails, Moves, directories
<1>9. ASSUME NEW e \in Dir, Renews(e) \/ BeatFails(e) \/ RemovalCheck(<<e, name[e]>>)
      PROVE  Goal
  <2>1. CASE Renews(e) \/ BeatFails(e)
    BY <1>0, <1>t, <2>1 DEF Renews, Beat, BeatLands, BeatFails, Silenced, SetLease, Renewed,
       SameEntry
  <2> QED
    BY <1>2, <1>9, <2>1 DEF RemovalCheck, directories
<1>10. CASE RemovalOpen \/ RemovalDone
  <2>1. ASSUME NEW e, NEW kind, Vanishes(e, kind), removing.step = "deleting" PROVE Goal
    <3>1. CASE e = d
      BY <1>0, <1>t, <2>1, <3>1 DEF Vanishes, SetLease, Silenced, Emptied
    <3>2. CASE e # d
      BY <1>0, <1>t, <2>1, <3>2 DEF Vanishes, SetLease, Silenced, SameEntry, SameLease
    <3> QED
      BY <3>1, <3>2
  <2> QED
    BY <1>2, <1>10, <2>1 DEF RemovalOpen, RemovalDone, directories
<1>11. CASE Tick
  <2>1. \A w \in Request : pc[w] \in {"rename", "claimed"} /\ at[w] = p => lease[d] # 1
    BY <1>0, <1>11, HereIsIn DEF Tick, Timely, Own, StagingInv
  <2>2. lease'[d] = IF lease[d] > 0 THEN lease[d] - 1 ELSE lease[d]
    BY <1>0, <1>11 DEF Tick, Live
  <2>3. lease[d] \in -1 .. Lease
    BY <1>0, <1>t
  <2>4. SameEntry(d) /\ heart'[d] = heart[d] /\ pc' = pc /\ at' = at
    BY <1>11 DEF Tick, SameEntry, requests
  <2>5. (lease'[d] = lease[d] \/ lease[d] > 0) /\ (lease'[d] = 0 /\ lease[d] # 0 => lease[d] = 1)
    BY <2>2, <2>3, LeaseAssumption
  <2> QED
    BY <2>1, <2>4, <2>5 DEF Aged
<1> QED
  BY <1>5, <1>6, <1>7, <1>8, <1>9, <1>10, <1>11 DEF Next, Proceeds

(* Who works under a name that is new.                                     *)
LEMMA NewOwner ==
  ASSUME StagingInv, Next, NEW w \in Request, NEW p \in Path, at'[w] = p, ~ Known(p)
  PROVE  LET d == p[1]
         IN  /\ heart'[d] = "none" /\ \A v \in Request \ {w} : at'[v] # p
             /\ \/ pc'[w] = "made" /\ lease'[d] = NoLease /\ ~ commit'[d]
                \/ /\ pc'[w] = "claimed" /\ pc[w] = "rename" /\ Here(w) /\ d = Own(w)
                   /\ SameEntry(d) /\ lease'[d] = lease[d]
                \/ pc'[w] = "expiring" /\ EntryRead(d)'
<1> DEFINE d == p[1]
           Fresh == /\ d \in Dir /\ heart'[d] = "none"
                    /\ \A u \in Request \ {w} : at'[u] = at[u]
                    /\ \/ pc'[w] = "made" /\ lease'[d] = NoLease /\ ~ commit'[d]
                       \/ /\ pc'[w] = "claimed" /\ pc[w] = "rename" /\ Here(w) /\ d = Own(w)
                          /\ SameEntry(d) /\ lease'[d] = lease[d]
                       \/ pc'[w] = "expiring" /\ EntryRead(d)'
<1>t. /\ pc \in [Request -> Step] /\ at \in [Request -> Path \cup {NoPath}]
      /\ todo \in [Request -> SUBSET Path] /\ name \in [Dir -> Nat]
      /\ heart \in [Dir -> {"none", "asleep", "writing"}]
  BY DEF StagingInv, TypeOK
<1>1. ASSUME at'[w] = at[w] \/ at'[w] = NoPath \/ \E v \in Request : at'[w] \in todo[v]
      PROVE  FALSE
  BY <1>1 DEF StagingInv, NamesKnown, Known
<1>2. ASSUME NEW v \in Request, Here(v) PROVE Own(v) \in Dir
  BY <1>2, HereIsIn DEF In, Own, StagingInv
<1>3. ASSUME NEW v \in Request, Recovers(v) PROVE FALSE
  BY <1>1, <1>3, <1>t DEF Recovers, Start, RecoverPreserve, RecoverDiscard, RecoverDone,
     RecoverEntry
<1>4. ASSUME NEW v \in Request, Make(v) PROVE Fresh
  <2>1. PICK e \in Free : Renamed(e, "active") /\ at' = [at EXCEPT ![v] = <<e, name[e] + 1>>]
    BY <1>4 DEF Make
  <2>2. v = w /\ at'[w] = <<e, name[e] + 1>> /\ e \in Dir
    BY <1>1, <1>t, <2>1 DEF Free
  <2>3. lease[e] = NoLease /\ ~ commit[e]
    BY <2>1 DEF Free, StagingInv, AbsentIsEmpty
  <2>4. pc'[w] = "made" /\ lease' = lease /\ commit' = commit
    BY <1>4, <1>t, <2>2 DEF Make, Goto
  <2> QED
    BY <1>t, <2>1, <2>2, <2>3, <2>4 DEF Renamed, Silenced
<1>5. ASSUME NEW v \in Request, ClaimRename(v) PROVE Fresh
  <2>1. v = w /\ Here(w) /\ at'[w] = <<Own(w), name[Own(w)] + 1>>
    BY <1>1, <1>5, <1>t DEF ClaimRename, Lost
  <2> QED
    BY <1>2, <1>5, <1>t, <2>1 DEF ClaimRename, Goto, Renamed, Silenced, SameEntry
<1>6. ASSUME NEW v \in Request, Preserve(v) PROVE Fresh
  <2>1. /\ v = w /\ Here(w) /\ at'[w] = <<Own(w), name[Own(w)] + 1>> /\ recorded[Own(w)] # None
        /\ commit[Own(w)] /\ Goto(w, "expiring") /\ Renamed(Own(w), "abandoned")
        /\ recorded' = recorded /\ commit' = commit /\ at' = [at EXCEPT ![w] = at'[w]]
    BY <1>1, <1>6, <1>t DEF Preserve, Over
  <2>2. d = Own(w) /\ d \in Dir /\ EntryRead(d)'
    BY <1>2, <2>1 DEF EntryRead
  <2>3. pc'[w] = "expiring" /\ heart'[d] = "none" /\ \A u \in Request \ {w} : at'[u] = at[u]
    BY <1>t, <2>1, <2>2 DEF Goto, Renamed, Silenced
  <2> QED
    BY <2>2, <2>3
<1>7. ASSUME NEW v \in Request, Acquires(v) PROVE Fresh
  BY <1>1, <1>4, <1>5, <1>7, <1>t DEF Acquires, Retry, Look, LookAtActive, Examine, ClaimRenew,
     Lost,
     ClaimFinish, MakeLease, MakeIdentity, Admitted, Fails, Over
<1>8. ASSUME NEW v \in Request, Ends(v) PROVE Fresh
  BY <1>1, <1>6, <1>8, <1>t DEF Ends, Resolve, FetchDone, Moves, Drop, Expire, PublishBlocked,
     PublishList, PublishClean, PublishUnlease, PublishRename, Over
<1>9. ASSUME NEW v \in Request,
             Crash(v) \/ FetchCancelled(v) \/ (\E s \in Selection : Ask(v, s))
             \/ \E to \in {"failed", "dropping"} : FetchFails(v, to)
      PROVE  FALSE
  BY <1>1, <1>9, <1>t DEF Crash, FetchCancelled, Ask, Look, FetchFails, Moves
<1>10. ASSUME NEW e \in Dir, Renews(e) \/ BeatFails(e) \/ RemovalCheck(<<e, name[e]>>)
       PROVE  FALSE
  BY <1>1, <1>10 DEF Renews, Beat, BeatLands, BeatFails, RemovalCheck, requests
<1>11. ASSUME RemovalOpen \/ RemovalDone \/ Tick PROVE FALSE
  BY <1>1, <1>11 DEF RemovalOpen, RemovalDone, Tick, requests
<1> HIDE DEF Fresh
<1>12. Fresh
  BY <1>3, <1>7, <1>8, <1>9, <1>10, <1>11 DEF Next, Proceeds
<1>13. \A v \in Request \ {w} : at'[v] # p
  BY <1>12 DEF Fresh, StagingInv, NamesKnown
<1> QED
  BY <1>12, <1>13 DEF Fresh

LEMMA Counted ==
  ASSUME StagingInv, Next
  PROVE  (removals' = 0 => removals = 0) /\ (missed' = 0 => missed = 0)
<1>1. removals \in Nat /\ missed \in Nat
  BY BoundsAssumption DEF StagingInv, TypeOK
<1>2. ASSUME NEW w \in Request, Recovers(w) PROVE UNCHANGED <<removals, missed>>
  BY <1>2 DEF Recovers, Start, RecoverPreserve, RecoverDiscard, RecoverDone, RecoverEntry, Still,
     faults
<1>3. ASSUME NEW w \in Request, Acquires(w) PROVE UNCHANGED <<removals, missed>>
  BY <1>3 DEF Acquires, Retry, Look, LookAtActive, Examine, ClaimRenew, ClaimRename, ClaimFinish,
     Make, MakeLease, MakeIdentity, Still, faults
<1>4. ASSUME NEW w \in Request, Ends(w) PROVE UNCHANGED <<removals, missed>>
  BY <1>4 DEF Ends, Resolve, FetchDone, Drop, Preserve, Expire, PublishBlocked, PublishList,
     PublishClean, PublishUnlease, PublishRename, Still, faults
<1>5. ASSUME NEW w \in Request,
             Crash(w) \/ FetchCancelled(w) \/ (\E s \in Selection : Ask(w, s))
             \/ \E to \in {"failed", "dropping"} : FetchFails(w, to)
      PROVE  UNCHANGED <<removals, missed>>
  BY <1>5 DEF Crash, FetchCancelled, Ask, Look, FetchFails, Still, faults
<1>6. ASSUME NEW d \in Dir, Renews(d) \/ BeatFails(d) \/ RemovalCheck(<<d, name[d]>>)
      PROVE  (removals' = 0 => removals = 0) /\ (missed' = 0 => missed = 0)
  BY <1>1, <1>6 DEF Renews, Beat, BeatLands, BeatFails, RemovalCheck, Still, faults
<1>7. CASE RemovalOpen \/ RemovalDone \/ Tick
  BY <1>7 DEF RemovalOpen, RemovalDone, Tick, Still, faults
<1> QED
  BY <1>2, <1>3, <1>4, <1>5, <1>6, <1>7 DEF Next, Proceeds

-----------------------------------------------------------------------------
(* A new directory has nothing recorded that its owner did not record.     *)
LEMMA NewNext ==
  ASSUME StagingInv, NewIsUnresolved, Next
  PROVE  NewIsUnresolved'
<1> SUFFICES ASSUME NEW w \in Request, NEW p, at'[w] = p, In(p)', pc'[w] \in {"made", "leased"}
             PROVE  /\ ~ commit'[p[1]]
                    /\ pc'[w] = "made" =>
                          /\ lease'[p[1]] = NoLease /\ heart'[p[1]] = "none"
                          /\ \A v \in Request : pc'[v] \in Acting => at'[v] # p
  BY DEF NewIsUnresolved, Own, In
<1> DEFINE d == p[1]
<1>1. p \in Path /\ d \in Dir
  <2>1. TypeOK'
    BY NextKeeps DEF StagingInv
  <2> QED
    BY <2>1 DEF TypeOK, In, Path, NoPath
<1>2. CASE Known(p)
  <2>1. /\ pc[w] \in {"made", "leased"} /\ at[w] = p /\ (pc'[w] = "made" => pc[w] = "made")
    BY <1>1, <1>2, OldOwner DEF Holding, Owning
  <2>2. In(p)
    BY <1>1, <1>2, KnownName
  <2>3. ~ commit[d]
    BY <2>1, <2>2 DEF NewIsUnresolved, Own
  <2>4. pc[w] = "made" => /\ lease[d] = NoLease /\ heart[d] = "none"
                          /\ \A v \in Request : pc[v] \in Acting => at[v] # p
    BY <2>1, <2>2 DEF NewIsUnresolved, Own
  <2>5. ASSUME NEW v \in Request, WorkedOn(p, v)
        PROVE  \/ v = w /\ pc[w] \in {"made", "leased"}
               \/ pc[v] = "claim" /\ at[v] = p /\ SameEntry(d)
    BY <2>1, <2>2, <2>5 DEF WorkedOn, StagingInv, OwnersApart, Holding, Owning, HereIsIn
  <2>6. ~ commit'[d]
    BY <1>1, <1>2, <2>1, <2>3, <2>5, OldEntry DEF WorkedOn, Aged, Renewed, Emptied, SameEntry
  <2>7. ASSUME pc'[w] = "made" PROVE lease'[d] = NoLease /\ heart'[d] = "none"
    <3>1. \A v \in Request : ~ WorkedOn(p, v)
      BY <2>1, <2>4, <2>5, <2>7 DEF WorkedOn, Acting
    <3>2. heart'[d] \in {"none", "asleep", "writing"}
      BY <1>1, NextKeeps DEF StagingInv, TypeOK
    <3> QED
      BY <1>1, <1>2, <2>1, <2>4, <2>7, <3>1, OldEntry DEF Aged, Renewed, Emptied, SameLease,
         NoLease
  <2>8. ASSUME pc'[w] = "made", NEW v \in Request, pc'[v] \in Acting PROVE at'[v] # p
    BY <1>1, <2>1, <2>4, <2>8, OldActor DEF Acting, NoLease
  <2> QED
    BY <2>6, <2>7, <2>8
<1>3. CASE ~ Known(p)
  <2>1. pc'[w] = "made" /\ lease'[d] = NoLease /\ ~ commit'[d] /\ heart'[d] = "none"
        /\ \A v \in Request \ {w} : at'[v] # p
    BY <1>1, <1>3, NewOwner
  <2> QED
    BY <2>1 DEF Acting
<1> QED
  BY <1>2, <1>3

(* What has been claimed or preserved can be read.                         *)
LEMMA ClaimedNext ==
  ASSUME StagingInv, ClaimedIsRead, Next
  PROVE  ClaimedIsRead'
<1> SUFFICES ASSUME removals' = 0, NEW w \in Request, NEW p, at'[w] = p, In(p)'
             PROVE  /\ pc'[w] \in {"rename", "claimed"} /\ lease'[p[1]] = 0 => EntryRead(p[1])'
                    /\ pc'[w] = "rename" /\ lease'[p[1]] = 0 =>
                          \A v \in Request : pc'[v] \in Holding => at'[v] # p
                    /\ pc'[w] = "expiring" => EntryRead(p[1])'
                    /\ pc'[w] = "claim" =>
                          \A v \in Request :
                              pc'[v] \in {"made", "leased", "claimed", "resolving"} /\ at'[v] = p
                                  => EntryRead(p[1])'
  BY DEF ClaimedIsRead, Own, In, EntryRead
<1> DEFINE d == p[1]
<1>1. p \in Path /\ d \in Dir
  <2>1. TypeOK'
    BY NextKeeps DEF StagingInv
  <2> QED
    BY <2>1 DEF TypeOK, In, Path, NoPath
<1>2. removals = 0 /\ removing.step = "none"
  BY Counted DEF StagingInv, NothingRemoved
<1>3. CASE Known(p)
  <2>1. In(p)
    BY <1>1, <1>3, KnownName
  <2>2. \/ SameEntry(d) /\ SameLease(d)
        \/ \E u \in Request : WorkedOn(p, u)
        \/ Aged(p) \/ Renewed(p)
    BY <1>1, <1>2, <1>3, OldEntry DEF Emptied
  <2>3. ASSUME NEW u \in Request, NEW v \in Request, pc[u] \in Holding, pc[v] \in Holding, at[u] = p, at[v] = p
        PROVE  u = v
    BY <2>1, <2>3 DEF StagingInv, OwnersApart
  <2>4. SameEntry(d) /\ EntryRead(d) => EntryRead(d)'
    BY DEF SameEntry, EntryRead
  <2>5. ASSUME pc'[w] \in {"rename", "claimed"}, lease'[d] = 0
        PROVE  /\ pc[w] = pc'[w] /\ at[w] = p
               /\ lease[d] = 0 => EntryRead(d)
               /\ pc[w] = "rename" /\ lease[d] = 0 =>
                     \A v \in Request : pc[v] \in Holding => at[v] # p
    <3>1. CASE pc'[w] = "claimed"
      <4>1. pc[w] = "claimed" /\ at[w] = p
        BY <1>1, <1>3, <3>1, OldOwner DEF Holding, Owning
      <4> QED
        BY <1>2, <2>1, <3>1, <4>1 DEF ClaimedIsRead, Own
    <3>2. CASE pc'[w] = "rename"
      <4>1. ~ (at[w] = p /\ SetLease(Own(w), Lease))
        BY <1>1, <2>5, LeaseAssumption DEF SetLease, Own, StagingInv, TypeOK
      <4>2. pc[w] = "rename" /\ at[w] = p
        BY <1>1, <3>2, <4>1, OldActor DEF Acting
      <4> QED
        BY <1>2, <2>1, <3>2, <4>2 DEF ClaimedIsRead, Own
    <3> QED
      BY <2>5, <3>1, <3>2
  <2>6. ASSUME pc'[w] \in {"rename", "claimed"}, lease'[d] = 0
        PROVE  EntryRead(d)'
    <3>1. CASE SameEntry(d) /\ lease'[d] = lease[d]
      BY <2>4, <2>5, <2>6, <3>1
    <3>2. ASSUME NEW u \in Request, WorkedOn(p, u) PROVE EntryRead(d)'
      <4>1. CASE pc[u] = "expiring"
        BY <1>2, <2>1, <2>4, <3>2, <4>1 DEF WorkedOn, ClaimedIsRead, Own
      <4>2. CASE pc[u] \in {"leased", "resolving", "cleaning"}
        <5>1. lease[d] = 0 /\ at[u] = p /\ pc[u] \in Holding
          BY <2>6, <3>2, <4>2 DEF WorkedOn, SameLease, Holding, Owning
        <5>2. pc[w] = "claimed" /\ at[w] = p
          BY <2>5, <2>6, <5>1
        <5> QED
          BY <2>3, <4>2, <5>1, <5>2 DEF Holding, Owning
      <4> QED
        BY <2>6, <3>2, <4>1, <4>2, LeaseAssumption DEF WorkedOn, NoLease
    <3>3. CASE Aged(p)
      BY <2>5, <2>6, <3>1, <3>3 DEF Aged
    <3>4. CASE Renewed(p)
      BY <2>6, <3>1, <3>4, LeaseAssumption DEF Renewed
    <3> QED
      BY <2>2, <3>1, <3>2, <3>3, <3>4 DEF SameLease
  <2>7. ASSUME pc'[w] = "rename", lease'[d] = 0, NEW v \in Request, pc'[v] \in Holding, at'[v] = p
        PROVE  FALSE
    <3>1. pc[v] \in Holding /\ at[v] = p /\ (pc'[v] = "expiring" => pc[v] = "expiring")
      BY <1>1, <1>3, <2>7, OldOwner
    <3>2. pc[w] = "rename" /\ at[w] = p /\ lease[d] # 0
      BY <2>5, <2>7, <3>1
    <3>3. ~ Aged(p) /\ ~ Renewed(p) /\ ~ SameLease(d)
      BY <2>7, <3>2, LeaseAssumption DEF Aged, Renewed, SameLease
    <3>4. PICK u \in Request : WorkedOn(p, u)
      BY <2>2, <3>3
    <3>5. pc[u] = "expiring" /\ pc'[u] = "idle" /\ at[u] = p
      BY <2>7, <3>2, <3>4, LeaseAssumption DEF WorkedOn, SameLease, NoLease
    <3>6. u = v
      BY <2>3, <3>1, <3>5 DEF Holding
    <3> QED
      BY <2>7, <3>5, <3>6 DEF Holding, Owning
  <2>8. ASSUME pc'[w] = "expiring" PROVE EntryRead(d)'
    <3>1. pc[w] = "expiring" /\ at[w] = p
      BY <1>1, <1>3, <2>8, OldOwner DEF Holding
    <3>2. EntryRead(d)
      BY <1>2, <2>1, <3>1 DEF ClaimedIsRead, Own
    <3>3. ASSUME NEW u \in Request, WorkedOn(p, u) PROVE SameEntry(d)
      BY <2>3, <3>1, <3>3 DEF WorkedOn, Holding, Owning
    <3> QED
      BY <2>2, <2>4, <3>2, <3>3 DEF Aged, Renewed
  <2>9. ASSUME pc'[w] = "claim", NEW v \in Request,
               pc'[v] \in {"made", "leased", "claimed", "resolving"}, at'[v] = p
        PROVE  EntryRead(d)'
    <3>1. pc[v] \in {"made", "leased", "claimed", "resolving"} /\ at[v] = p
      BY <1>1, <1>3, <2>9, OldOwner DEF Holding, Owning
    <3>2. CASE pc[w] = "claim" /\ at[w] = p
      <4>1. EntryRead(d)
        BY <1>2, <2>1, <3>1, <3>2 DEF ClaimedIsRead, Own
      <4>2. ASSUME NEW u \in Request, WorkedOn(p, u), pc[u] # "claim" PROVE EntryRead(d)'
        <5>1. u = v
          BY <2>3, <3>1, <4>2 DEF WorkedOn, Holding, Owning
        <5>2. CASE pc[v] = "leased"
          BY <3>1, <4>1, <4>2, <5>1, <5>2, SelectionAssumption DEF WorkedOn, EntryRead
        <5> QED
          BY <2>4, <2>9, <3>1, <4>1, <4>2, <5>1, <5>2 DEF WorkedOn
      <4> QED
        BY <2>2, <2>4, <4>1, <4>2 DEF WorkedOn, Aged, Renewed
    <3>3. CASE EntryRead(d) /\ UNCHANGED directories
      BY <3>3 DEF EntryRead, directories
    <3> QED
      BY <1>1, <2>9, <3>2, <3>3, OldActor DEF Acting
  <2> QED
    BY <2>6, <2>7, <2>8, <2>9
<1>4. CASE ~ Known(p)
  <2>1. /\ pc'[w] \in {"made", "expiring", "claimed"} /\ (pc'[w] = "expiring" => EntryRead(d)')
        /\ pc'[w] = "claimed" => /\ pc[w] = "rename" /\ Here(w) /\ d = Own(w)
                                 /\ SameEntry(d) /\ lease'[d] = lease[d]
    BY <1>1, <1>4, NewOwner
  <2>2. ASSUME pc'[w] = "claimed", lease'[d] = 0 PROVE EntryRead(d)'
    <3>1. In(at[w]) /\ pc[w] = "rename" /\ lease[Own(w)] = 0 /\ Own(w) = d /\ SameEntry(d)
      BY <2>1, <2>2, HereIsIn DEF StagingInv
    <3> QED
      BY <1>2, <3>1 DEF ClaimedIsRead, SameEntry, EntryRead
  <2> QED
    BY <2>1, <2>2
<1> QED
  BY <1>3, <1>4

(* A listed entry that nobody could resume from stays so, or becomes one   *)
(* that somebody could resume from.                                        *)
LEMMA UnreadNext ==
  ASSUME StagingInv, NewIsUnresolved, ClaimedIsRead, Next, NEW p \in Path, Known(p), Unread(p),
         missed' = 0 \/ removals' = 0
  PROVE  Unread(p)' \/ p \in Resumable'
<1> SUFFICES ASSUME In(p)', p \notin Resumable'
             PROVE  /\ ~ EntryRead(p[1])'
                    /\ missed' = 0 => \A v \in Request : pc'[v] \in Holding => at'[v] # p
                    /\ removals' = 0 => \A v \in Request : pc'[v] \in Owning /\ at'[v] = p =>
                          /\ pc'[v] \notin {"made", "claimed"}
                          /\ pc'[v] \in {"leased", "resolving"} => lease'[p[1]] = 0
  BY DEF Unread
<1> DEFINE d == p[1]
<1>0. In(p) /\ d \in Dir /\ Owning \subseteq Holding
  BY KnownName DEF In, Holding
<1>1. /\ ~ EntryRead(d)
      /\ missed = 0 => \A v \in Request : pc[v] \in Holding => at[v] # p
      /\ removals = 0 => \A v \in Request : pc[v] \in Owning /\ at[v] = p =>
            /\ pc[v] \notin {"made", "claimed"}
            /\ pc[v] \in {"leased", "resolving"} => lease[d] = 0
  BY <1>0 DEF Unread
<1>2. (removals' = 0 => removals = 0 /\ removing.step = "none") /\ (missed' = 0 => missed = 0)
  BY Counted DEF StagingInv, NothingRemoved
<1>3. \/ SameEntry(d) /\ SameLease(d)
      \/ \E u \in Request : WorkedOn(p, u)
      \/ Aged(p) \/ Renewed(p) \/ Emptied(p)
  BY OldEntry
<1>4. ASSUME EntryRead(d)' PROVE FALSE
  <2>1. ~ SameEntry(d) /\ ~ Aged(p) /\ ~ Renewed(p) /\ ~ Emptied(p)
    BY <1>1, <1>4 DEF SameEntry, EntryRead, Aged, Renewed, Emptied
  <2>2. PICK u \in Request : WorkedOn(p, u)
    BY <1>3, <2>1
  <2>3. at[u] = p /\ pc[u] \in {"claimed", "leased", "resolving"}
    BY <1>4, <2>1, <2>2 DEF WorkedOn, EntryRead
  <2>4. removals = 0
    BY <1>1, <1>2, <2>3 DEF Holding, Owning
  <2>5. pc[u] # "claimed" /\ lease[d] = 0
    BY <1>1, <2>3, <2>4 DEF Owning
  <2>6. CASE pc[u] = "leased"
    <3>1. ~ commit[d]
      BY <1>0, <2>3, <2>6 DEF NewIsUnresolved, Own
    <3> QED
      BY <1>4, <2>2, <2>6, <3>1 DEF WorkedOn, EntryRead
  <2>7. CASE pc[u] = "resolving"
    <3>1. lease'[d] = 0 /\ recorded'[d] \in Selection /\ commit'[d]
      BY <1>4, <2>2, <2>5, <2>7 DEF WorkedOn, SameLease, EntryRead
    <3>2. p \in Entries({"active", "abandoned"})'
      BY DEF Entries, In, Path
    <3> QED
      BY <3>1, <3>2 DEF Resumable, Adoptable
  <2> QED
    BY <2>3, <2>5, <2>6, <2>7
<1>5. ASSUME NEW v \in Request, pc'[v] \in Holding, at'[v] = p
      PROVE  /\ pc[v] \in Holding /\ at[v] = p
             /\ pc'[v] \in {"made", "claimed"} => pc[v] = pc'[v]
             /\ pc'[v] \in {"leased", "resolving"} => pc[v] \in {"made", "claimed", "leased", "resolving"}
  BY <1>5, OldOwner
<1>6. ASSUME removals' = 0, NEW v \in Request, pc'[v] \in Owning, at'[v] = p
      PROVE  pc'[v] \notin {"made", "claimed"}
  BY <1>0, <1>1, <1>2, <1>5, <1>6 DEF Owning
<1>7. ASSUME removals' = 0, NEW v \in Request, at'[v] = p, pc'[v] \in {"leased", "resolving"}
      PROVE  lease'[d] = 0
  <2>1. pc[v] \in {"leased", "resolving"} /\ at[v] = p /\ lease[d] = 0
    BY <1>1, <1>2, <1>5, <1>7 DEF Holding, Owning
  <2>2. ASSUME NEW u \in Request, WorkedOn(p, u) PROVE lease'[d] = lease[d]
    <3>1. CASE pc[u] = "claim"
      BY <1>0, <1>1, <1>2, <1>7, <2>1, <2>2, <3>1 DEF WorkedOn, ClaimedIsRead, Own
    <3>2. CASE pc[u] # "claim"
      <4>1. u = v
        BY <1>0, <2>1, <2>2, <3>2 DEF WorkedOn, StagingInv, OwnersApart, Holding, Owning
      <4> QED
        BY <2>1, <2>2, <4>1 DEF WorkedOn, SameLease
    <3> QED
      BY <3>1, <3>2
  <2>3. heart[d] = "none"
    BY <1>0, <2>1 DEF StagingInv, HeartsTrue
  <2> QED
    BY <1>2, <1>3, <1>7, <2>1, <2>2, <2>3 DEF SameLease, Aged, Renewed, Emptied
<1> QED
  BY <1>0, <1>1, <1>2, <1>4, <1>5, <1>6, <1>7

(* So much is true of an entry when its lease is read.                     *)
LEMMA EntryIsUnread ==
  ASSUME StagingInv, NewIsUnresolved, ClaimedIsRead, NEW d \in Dir, LeaseRead(<<d, name[d]>>) = "expired",
         <<d, name[d]>> \notin Resumable
  PROVE  Unread(<<d, name[d]>>) /\ Known(<<d, name[d]>>) /\ <<d, name[d]>> \in Path
<1> DEFINE p == <<d, name[d]>>
<1>t. name[d] \in Nat /\ lease[d] \in -1 .. Lease /\ recorded[d] \in Selection \cup {None} /\ p \in Path
  BY DEF StagingInv, TypeOK, Path
<1>1. Present(p) /\ lease[d] = 0
  BY <1>t, LeaseAssumption DEF LeaseRead, Live, NoLease
<1>2. ~ EntryRead(d)
  BY <1>1, <1>t DEF Resumable, Present, Adoptable, EntryRead
<1>3. In(p)
  BY <1>1, <1>t, PresentIsIn
<1>4. ASSUME missed = 0, NEW w \in Request, pc[w] \in Holding PROVE at[w] # p
  BY <1>1, <1>3, <1>4 DEF StagingInv, OwnersSafe, LeaseKept, Own, NoLease
<1>5. ASSUME removals = 0, NEW w \in Request, pc[w] \in Owning, at[w] = p
      PROVE  pc[w] \notin {"made", "claimed"}
  BY <1>1, <1>2, <1>3, <1>5 DEF NewIsUnresolved, ClaimedIsRead, Own, NoLease
<1> QED
  BY <1>t, <1>1, <1>2, <1>4, <1>5 DEF Unread, Known

LEMMA ListingNext ==
  ASSUME ListingInv, [NextListing]_<<vars, listing>>
  PROVE  ListingInv'
<1> USE DEF ListingInv
<1>1. CASE Next /\ Observed
  <2>1. StagingInv' /\ NewIsUnresolved' /\ ClaimedIsRead'
    BY <1>1, NextKeeps, NewNext, ClaimedNext
  <2>2. listing' = [listing EXCEPT !.resumable = @ \/ listing.at \in Resumable']
    BY <1>1 DEF Observed
  <2>3. /\ listing' \in [at : Path \cup {NoPath}, resumable : BOOLEAN] /\ listing'.at = listing.at
        /\ listing' = [at |-> listing.at, resumable |-> listing'.resumable]
        /\ listing'.resumable <=> listing.resumable \/ listing.at \in Resumable'
    BY <2>2 DEF ListedTrue
  <2>4. Known(listing.at)'
    BY <1>1, <2>3, KnownName DEF ListedTrue
  <2>5. ASSUME (missed = 0 \/ removals = 0)', listing' # NotListing, ~ listing'.resumable
        PROVE  Unread(listing.at)'
    <3>1. listing.at # NoPath /\ listing.at \in Path /\ ~ listing.resumable
      BY <2>3, <2>5 DEF ListedTrue, NotListing
    <3>2. missed = 0 \/ removals = 0
      BY <1>1, <2>5, Counted
    <3>3. Unread(listing.at) /\ Known(listing.at)
      BY <3>1, <3>2 DEF ListedTrue, NotListing
    <3>4. PICK p \in Path : p = listing.at
      BY <3>1
    <3>5. Unread(p)'
      BY <1>1, <2>3, <2>5, <3>3, <3>4, UnreadNext
    <3> QED
      BY <2>3, <3>4, <3>5
  <2> QED
    BY <2>1, <2>3, <2>4, <2>5 DEF ListedTrue
<1>2. CASE \/ \E d \in Dir : ListLease(<<d, name[d]>>)
           \/ ListIdentity \/ UNCHANGED <<vars, listing>>
  <2>a. UNCHANGED vars
    BY <1>2 DEF ListLease, ListIdentity
  <2>1. StagingInv' /\ NewIsUnresolved' /\ ClaimedIsRead'
    BY <2>a, NextKeeps DEF vars, directories, requests, faults, NewIsUnresolved, ClaimedIsRead,
       In, Own,
       EntryRead
  <2>0. /\ missed' = missed /\ removals' = removals
        /\ \A p \in Path \cup {NoPath} : (Known(p) => Known(p)') /\ (Unread(p) => Unread(p)')
    BY <2>a DEF vars, directories, requests, faults, Known, Unread, In, EntryRead
  <2>2. ASSUME NEW d \in Dir, ListLease(<<d, name[d]>>) PROVE ListedTrue'
    <3>0. <<d, name[d]>> \in Path /\ Known(<<d, name[d]>>)
      BY DEF Path, Known, StagingInv, TypeOK
    <3>1. PICK p \in Path : /\ p = <<d, name[d]>> /\ LeaseRead(p) = "expired" /\ Known(p)
                            /\ listing' = [at |-> p, resumable |-> p \in Resumable]
      BY <2>2, <3>0 DEF ListLease
    <3>2. p \notin Resumable => Unread(p)
      BY <3>1, EntryIsUnread
    <3>3. listing'.at = p /\ (listing'.resumable <=> p \in Resumable)
      BY <3>1
    <3>4. listing' \in [at : Path \cup {NoPath}, resumable : BOOLEAN]
      BY <3>1
    <3>5. Known(p)' /\ (p \notin Resumable => Unread(p)')
      BY <2>0, <3>1, <3>2
    <3> QED
      BY <3>3, <3>4, <3>5 DEF ListedTrue
  <2>3. ASSUME ListIdentity PROVE ListedTrue'
    <3>1. listing' = NotListing /\ listing'.at = NoPath
      BY <2>3 DEF ListIdentity, NotListing
    <3>2. NotListing \in [at : Path \cup {NoPath}, resumable : BOOLEAN]
      BY DEF NotListing
    <3>3. Known(listing.at)'
      BY <3>1 DEF Known
    <3>4. listing' # NotListing => FALSE
      BY <3>1
    <3> QED
      BY <3>1, <3>2, <3>3, <3>4 DEF ListedTrue
  <2>4. ASSUME UNCHANGED listing PROVE ListedTrue'
    <3>1. PICK p \in Path \cup {NoPath} : p = listing.at
      BY DEF ListedTrue
    <3>2. listing'.at = p
      BY <2>4, <3>1
    <3>3. Known(p) /\ Known(p)' /\ (Unread(p) => Unread(p)')
      BY <2>0, <3>1 DEF ListedTrue
    <3>4. Known(listing.at)'
      BY <3>2, <3>3
    <3>5. ASSUME (missed = 0 \/ removals = 0)', listing' # NotListing, ~ listing'.resumable
          PROVE  Unread(listing.at)'
      <4>1. Unread(p)
        BY <2>0, <2>4, <3>1, <3>5 DEF ListedTrue
      <4> QED
        BY <3>2, <3>3, <4>1
    <3> QED
      BY <2>4, <3>4, <3>5 DEF ListedTrue
  <2> QED
    BY <1>2, <2>1, <2>2, <2>3, <2>4
<1> QED
  BY <1>1, <1>2 DEF NextListing

(* An operator is told that an entry can be resumed from only if somebody  *)
(* could have, at some time since its lease was read: whatever was         *)
(* claimed, made, preserved and published in between, by any number of     *)
(* processes, as long as not both a renewal failed and something was       *)
(* removed.                                                                *)
THEOREM ListingIsTrue == SpecListing => []ListingTells
<1>1. InitListing => ListingInv
  <2> SUFFICES ASSUME InitListing PROVE ListingInv
    OBVIOUS
  <2>1. StagingInv
    BY InitInv DEF InitListing
  <2>2. NewIsUnresolved /\ ClaimedIsRead
    BY DEF InitListing, Init, NewIsUnresolved, ClaimedIsRead
  <2>3. ListedTrue
    BY DEF InitListing, ListedTrue, NotListing, Known, NoPath
  <2> QED
    BY <2>1, <2>2, <2>3 DEF ListingInv
<1>2. ListingInv => ListingTells
  <2> SUFFICES ASSUME ListingInv, missed = 0 \/ removals = 0, listing # NotListing, Verdict("expired") = "resumable",
                      ~ listing.resumable
               PROVE  FALSE
    BY DEF ListingTells, ListingInv, ListedTrue
  <2>1. Identified(listing.at) /\ commit[listing.at[1]]
    BY DEF Verdict, RetentionOf
  <2>2. In(listing.at) /\ EntryRead(listing.at[1])
    BY <2>1, PresentIsIn DEF Identified, EntryRead, ListingInv, ListedTrue
  <2> QED
    BY <2>2 DEF ListingInv, ListedTrue, Unread
<1> QED
  BY <1>1, <1>2, ListingNext, PTL DEF SpecListing
=============================================================================
