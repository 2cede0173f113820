-------------------------- MODULE PullThrough_proofs --------------------------
(***************************************************************************)
(* What holds of every set of callers, of paths and of commits, whatever   *)
(* the callers ask for and however often upstream fails: the types, what a *)
(* success means, the second look of a prefetch that waited, the name that *)
(* is learned, and that what is cancelled changes nothing.                 *)
(*                                                                         *)
(* Success is about a request and an archive that others add to, through   *)
(* flights that are shared and narrowed on the way.  The invariant says of *)
(* every flight that what it was asked for is archived or still wanted     *)
(* (Wanted), that its commit is the one it was asked for (CommitsNamed),   *)
(* also when it resumes what another has staged, and that who waits for it *)
(* has asked for the same (OwnWay).  The slot makes the second look of a   *)
(* prefetch last (SlotHeld, RestOnly).                                     *)
(***************************************************************************)
EXTENDS PullThrough, TLAPS

(* What a caller is told, and what becomes of a flight.                    *)
Error == {"none", "unavailable", "cancelled", "invalid_output", "pending", "not_found"}
Outcome == {o \in [ok : BOOLEAN, commit : Commit \cup {None}, error : Error] :
                o.ok => o.commit \in Commit}

ArchiveTyped ==
    /\ held \in [Commit -> SUBSET Path] /\ recorded \in SUBSET Commit
    /\ ref \in Commit \cup {None} /\ named \in Commit \cup {None} /\ head \in Commit
    /\ retained \subseteq [revision : Commit \cup {Main}, sel : Selection, commit : Commit]
CallersTyped ==
    /\ at \in [Caller -> {"idle", "looking", "describing", "inquiring", "naming", "adopting",
                          "ensuring", "joining", "waiting", "woken", "answered"}]
    /\ req \in [Caller -> Request] /\ req \in Wishes
    /\ joined \in [Caller -> Caller \cup {None}]
    /\ answer \in [Caller -> Outcome]
FlightsTyped ==
    /\ step \in [Caller -> {"none", "registering", "reconciling", "inventory", "comparing",
                            "checking", "entering", "queued", "staging", "resolving", "fetching",
                            "claiming", "publishing", "recording", "pointing", "naming",
                            "adopting", "retiring"}]
    /\ wants \in [Caller -> Selection]
    /\ found \in [Caller -> Commit \cup {None}] /\ commit \in [Caller -> Commit \cup {None}]
    /\ token \in [Caller -> {"running", "cancelled", "committing"}]
    /\ waited \in [Caller -> BOOLEAN]
    /\ outcome \in [Caller -> Outcome]
GateTyped == slot \in Caller \cup {None} /\ queue \in Seq(Caller)
Typed == ArchiveTyped /\ CallersTyped /\ FlightsTyped /\ GateTyped

(* Where a flight stands: before it has staged anything, comparing what is *)
(* asked for with what is archived, after its claim, and in the transfer.  *)
Early == {"none", "registering", "reconciling", "inventory", "comparing", "checking",
          "entering", "queued", "staging"}
Comparing == {"reconciling", "inventory", "comparing"}
Archiving == {"recording", "pointing", "naming", "adopting"}
Claimed == {"publishing"} \cup Archiving
Transferring == {"staging", "resolving", "fetching", "claiming"} \cup Claimed

(* Who transfers has the slot, and who has it transfers or compares once   *)
(* more.                                                                   *)
SlotHeld ==
    \A f \in Caller : /\ step[f] \in Transferring => slot = f
                      /\ slot = f => step[f] \in Transferring \cup Comparing

(* A commit is named by itself, in a staging that is resumed as well.      *)
CommitsNamed ==
    /\ \A s \in retained : s.revision \in Commit => s.commit = s.revision
    /\ \A f \in Caller :
         /\ step[f] \in Early => commit[f] = None
         /\ step[f] \in {"fetching", "claiming"} \cup Claimed => commit[f] # None
         /\ step[f] = "comparing" => found[f] # None
         /\ req[f].revision \in Commit =>
              /\ commit[f] \in {None, req[f].revision}
              /\ step[f] = "comparing" => found[f] = req[f].revision

(* Only a flight that cannot be cancelled any more changes the archive.    *)
ClaimsFirst ==
    \A f \in Caller : /\ step[f] \in Claimed => token[f] = "committing"
                      /\ step[f] = "none" => token[f] = "running"
                      /\ outcome[f].ok => step[f] = "retiring"
                      /\ step[f] \in Comparing => Reconciles(f)

(* Callers of each kind take their own way.                                *)
OwnWay ==
    \A w \in Caller :
        /\ at[w] = "looking" => req[w].op = "file"
        /\ at[w] \in {"describing", "inquiring", "naming", "adopting"} => req[w].op = "metadata"
        /\ at[w] = "ensuring" => req[w].op \in {"file", "metadata"}
        /\ answer[w].error = "pending" => req[w].op = "file"
        /\ outcome[w].error # "pending"
        /\ at[w] \in {"naming", "adopting"} => found[w] # None
        /\ req[w].op = "metadata" /\ step[w] # "none" => at[w] = "waiting" /\ joined[w] = w
        /\ at[w] = "waiting" => /\ joined[w] \in Caller /\ step[joined[w]] # "none"
                                /\ Key(req[joined[w]]) = Key(req[w])

(* What a request is satisfied by.                                         *)
Single(s) == \E path \in Path : s = Named({path})
Satisfied(asked, told) == told.ok =>
    /\ Single(asked.sel) => Covered(asked.sel, told.commit) \subseteq held[told.commit]
    /\ asked.revision \in Commit =>
         told.commit = asked.revision /\ Covered(asked.sel, told.commit) \subseteq held[told.commit]

(* A flight still wants whatever it was asked for and the archive lacks.   *)
WantedBy(f) ==
    step[f] # "none" /\ ~ Refreshes(f) =>
        /\ Single(req[f].sel) => wants[f] = req[f].sel
        /\ req[f].revision \in Commit =>
             Covered(req[f].sel, req[f].revision) \subseteq held[req[f].revision] \cup wants[f].paths
        /\ step[f] \in Archiving => Covered(wants[f], commit[f]) \subseteq held[commit[f]]
        /\ Satisfied(req[f], outcome[f])
Wanted == \A f \in Caller : WantedBy(f)

AnsweredRight(w) ==
    at[w] \in {"woken", "answered"} /\ req[w].op \in {"file", "prefetch"} =>
        Satisfied(req[w], answer[w])
Answered == \A w \in Caller : AnsweredRight(w)

(* Nobody else changes what a flight with the slot has compared with.      *)
RestBy(f) ==
    /\ Reconciles(f) /\ waited[f] /\ req[f].revision \in Commit
    /\ step[f] \in {"staging", "resolving", "fetching"}
    => Covered(wants[f], req[f].revision) \cap held[req[f].revision] = {}
RestOnly == \A f \in Caller : RestBy(f)

(* A name that could be adopted is about to be.                            *)
Learns(w, c) == \/ at[w] \in {"naming", "adopting"} /\ found[w] = c
                \/ step[w] \in Archiving /\ commit[w] = c
Learning ==
    named # None /\ Published(named) /\ ref = None => \E w \in Caller : Learns(w, named)

PullInv == Typed /\ SlotHeld /\ CommitsNamed /\ ClaimsFirst /\ OwnWay /\ Wanted /\ Answered
           /\ RestOnly /\ Learning

(* What a request is, and what upstream and the archive answer to it.      *)
LEMMA Requests ==
  ASSUME Typed, NEW w \in Caller
  PROVE  /\ req[w] \in Request
         /\ req[w].op \in Op /\ req[w].revision \in Commit \cup {Main} /\ req[w].sel \in Selection
         /\ Target(req[w].revision) \in Commit
         /\ Resolved(req[w].revision) \in Commit \cup {None}
         /\ req[w].revision \in Commit =>
              /\ Target(req[w].revision) = req[w].revision
              /\ Resolved(req[w].revision) = req[w].revision
BY NamesAssumption DEF Typed, CallersTyped, ArchiveTyped, Request, Target, Resolved

(* A file is asked for by its path.                                        *)
LEMMA FilesAskedFor ==
  ASSUME Typed, NEW w \in Caller
  PROVE  /\ req[w].op = "file" => PathOf(w) \in Path /\ req[w].sel = Named({PathOf(w)})
         /\ req[w].op \in {"metadata", "refresh", "dry_run"} => req[w].sel = All
<1>1. req[w].op = "file" => \E p \in Path : req[w].sel = Named({p})
  BY WishesAssumption DEF Typed, CallersTyped
<1>2. req[w].op \in {"metadata", "refresh", "dry_run"} => req[w].sel = All
  BY WishesAssumption DEF Typed, CallersTyped
<1> QED
  BY <1>1, <1>2 DEF PathOf

(* Upstream holds files at each commit.                                    *)
LEMMA FilesTyped ==
  /\ 1 \in Commit /\ Commit \subseteq Nat
  /\ \A c \in Commit : Files[c] \subseteq Path /\ Files[c] # {}
BY FilesAssumption DEF Commit

(* What is covered are paths.                                              *)
LEMMA Selections ==
  /\ All \in Selection
  /\ \A P \in SUBSET Path : Named(P) \in Selection /\ Named(P).kind = "named" /\ Named(P).paths = P
  /\ \A s \in Selection, c \in Commit : Covered(s, c) \in SUBSET Path /\ s.paths \in SUBSET Path
BY DEF Selection, Named, All, Covered, Kind

(* What a flight lacks is a selection of its own.                          *)
LEMMA Narrowing ==
  ASSUME Typed, NEW f \in Caller, NEW c \in Commit
  PROVE  /\ Lacking(f, c) = (Files[c] \cap wants[f].paths) \ held[c]
         /\ Named(Lacking(f, c)) \in Selection
         /\ Named(Lacking(f, c)).kind = "named" /\ Named(Lacking(f, c)).paths = Lacking(f, c)
<1>1. Lacking(f, c) \in SUBSET Path
  BY FilesTyped DEF Lacking, Covered
<1> QED
  BY <1>1, Selections DEF Lacking, Covered

(* What is published under a name.                                         *)
LEMMA PublishedNames ==
  ASSUME Typed, NEW w \in Caller
  PROVE  PublishedCommit(req[w].revision) \in Commit \cup {None}
BY Requests DEF PublishedCommit

(* A comparison ends the flight, or narrows what it wants and sends it on. *)
LEMMA ComparedEnds ==
  ASSUME Typed, NEW f \in Caller, NEW c \in Commit, Compared(f, c)
  PROVE  \/ /\ Lacking(f, c) = {}
            /\ UNCHANGED wants
            /\ step' = [step EXCEPT ![f] = "retiring"]
            /\ outcome' = [outcome EXCEPT ![f] = Ok(c)]
            /\ slot' = IF slot = f THEN None ELSE slot
         \/ /\ Lacking(f, c) # {}
            /\ wants' = [wants EXCEPT ![f] = Named(Lacking(f, c))]
            /\ step' = [step EXCEPT ![f] = IF slot = f THEN "staging" ELSE "checking"]
            /\ UNCHANGED <<outcome, slot>>
BY DEF Compared, Ends, Moves, AfterReconcile

(* Leaving a queue, from its front or from within.                         *)
LEMMA Leaving ==
  ASSUME NEW Q \in Seq(Caller), Q # <<>>
  PROVE  /\ Tail(Q) \in Seq(Caller)
         /\ \A i \in DOMAIN Q : RemoveAt(Q, i) \in Seq(Caller)
<1>1. ASSUME NEW i \in DOMAIN Q PROVE RemoveAt(Q, i) \in Seq(Caller)
  <2>1. i \in 1 .. Len(Q) /\ Len(Q) \in Nat
    OBVIOUS
  <2>2. SubSeq(Q, 1, i - 1) \in Seq(Caller) /\ SubSeq(Q, i + 1, Len(Q)) \in Seq(Caller)
    BY <2>1
  <2> QED
    BY <2>2 DEF RemoveAt
<1> QED
  BY <1>1

(* What a caller may be told.                                              *)
LEMMA Outcomes ==
  /\ \A e \in Error : Err(e) \in Outcome /\ ~ Err(e).ok /\ Err(e).error = e
  /\ \A c \in Commit : Ok(c) \in Outcome /\ Ok(c).ok /\ Ok(c).commit = c /\ Ok(c).error = "none"
  /\ NoOutcome \in Outcome /\ ~ NoOutcome.ok /\ NoOutcome.error = "none"
  /\ Error = {"none", "unavailable", "cancelled", "invalid_output", "pending", "not_found"}
<1>1. ASSUME NEW e \in Error PROVE Err(e) \in Outcome /\ ~ Err(e).ok /\ Err(e).error = e
  <2>1. Err(e) \in [ok : BOOLEAN, commit : Commit \cup {None}, error : Error] /\ ~ Err(e).ok
    BY DEF Err
  <2> QED
    BY <2>1 DEF Outcome, Err
<1>2. ASSUME NEW c \in Commit
      PROVE  Ok(c) \in Outcome /\ Ok(c).ok /\ Ok(c).commit = c /\ Ok(c).error = "none"
  <2>1. Ok(c) \in [ok : BOOLEAN, commit : Commit \cup {None}, error : Error] /\ Ok(c).commit = c
    BY DEF Ok, Error
  <2> QED
    BY <2>1 DEF Outcome, Ok
<1> QED
  BY <1>1, <1>2 DEF NoOutcome, Error

(* A staging is kept with the commit it was resolved to.                   *)
LEMMA PreservedTyped ==
  ASSUME Typed, NEW f \in Caller, Preserved(f)
  PROVE  retained' \subseteq [revision : Commit \cup {Main}, sel : Selection, commit : Commit]
<1>1. CASE commit[f] = None
  BY <1>1 DEF Preserved, Typed, ArchiveTyped
<1>2. CASE commit[f] # None
  <2>1. [revision |-> req[f].revision, sel |-> wants[f], commit |-> commit[f]]
           \in [revision : Commit \cup {Main}, sel : Selection, commit : Commit]
    BY <1>2, Requests DEF Typed, FlightsTyped
  <2> QED
    BY <1>2, <2>1 DEF Preserved, Typed, ArchiveTyped
<1> QED
  BY <1>1, <1>2

(* Most of what a caller does is between it and the archive it reads, and  *)
(* a flight says nothing to callers before it retires.                     *)
LEMMA CallersOnlyAsk ==
  ASSUME NEW w \in Caller, Calls(w) \/ AskAgain(w), ~ Inquire(w), ~ AdoptFor(w), ~ Join(w)
  PROVE  CallerOnly /\ UNCHANGED <<req, joined, named>>
BY DEF Calls, AskAgain, Ask, LookUp, Describe, Name, Ensure, Served

LEMMA FlightsAreQuiet ==
  ASSUME NEW w \in Caller, Works(w), ~ Retire(w)
  PROVE  Quiet
BY DEF Works, Register, Reconcile, Inventory, Compare, Check, Enter, Admit, LeaveQueue, Stage,
    FetchResolve, FetchDone, FetchCancelled, Claim, Publish, Record, Point, NameAfter, AdoptAfter

(* The slot passes from transfer to transfer.                              *)
LEMMA SlotNext ==
  ASSUME PullInv, [Next]_vars
  PROVE  SlotHeld'
<1> USE NamesAssumption DEF PullInv, Typed, ArchiveTyped, CallersTyped, FlightsTyped, GateTyped,
    SlotHeld, ClaimsFirst, Transferring, Claimed, Archiving, Comparing, archive, callers,
    flights, gate
<1>1. ASSUME NEW w \in Caller, Calls(w) PROVE SlotHeld'
  <2>1. CASE Inquire(w)
    BY <2>1 DEF Inquire, Told, Goes, Target
  <2>2. CASE AdoptFor(w)
    BY <2>2 DEF AdoptFor, Told, Goes
  <2>3. CASE Join(w)
    BY <2>3 DEF Join, Goes, Same, Running
  <2>4. CASE ~ Inquire(w) /\ ~ AdoptFor(w) /\ ~ Join(w)
    BY <1>1, <2>4, CallersOnlyAsk DEF CallerOnly
  <2> QED
    BY <1>1, <2>1, <2>2, <2>3, <2>4
<1>2. ASSUME NEW w \in Caller, Works(w) PROVE SlotHeld'
  <2>1. CASE Register(w)
    BY <2>1 DEF Register, Moves, Quiet
  <2>2. CASE Reconcile(w)
    BY <2>2 DEF Reconcile, Compared, Moves, Quiet, SelectionSame, Ends, AfterReconcile
  <2>3. CASE Inventory(w)
    BY <2>3 DEF Inventory, Moves, Quiet, Target
  <2>4. CASE Compare(w)
    BY <2>4 DEF Compare, Compared, Moves, Quiet, SelectionSame, Ends, AfterReconcile
  <2>5. CASE Check(w)
    BY <2>5 DEF Check, Moves, Quiet, Ends
  <2>6. CASE Enter(w)
    BY <2>6 DEF Enter, Moves, Quiet
  <2>7. CASE Admit(w)
    BY <2>7 DEF Admit, Moves, Quiet, Ends, AfterWait
  <2>8. CASE LeaveQueue(w)
    BY <2>8 DEF LeaveQueue, Quiet, Ends, Moves
  <2>9. CASE Stage(w)
    BY <2>9 DEF Stage, Moves, Quiet, Resumable
  <2>10. CASE FetchResolve(w)
    BY <2>10 DEF FetchResolve, Moves, Quiet, Pinned, Target
  <2>11. CASE FetchDone(w)
    BY <2>11 DEF FetchDone, Moves, Quiet, Ends
  <2>12. CASE FetchCancelled(w)
    BY <2>12 DEF FetchCancelled, Preserved, Moves, Quiet, Ends
  <2>13. CASE Claim(w)
    BY <2>13 DEF Claim, Preserved, Moves, Quiet, Ends, AfterClaim
  <2>14. CASE Publish(w)
    BY <2>14 DEF Publish, Moves, Quiet
  <2>15. CASE Record(w)
    BY <2>15 DEF Record, Moves, Quiet
  <2>16. CASE Point(w)
    BY <2>16 DEF Point, Moves, Quiet, Ends
  <2>17. CASE NameAfter(w)
    BY <2>17 DEF NameAfter, Moves, Quiet, Ends
  <2>18. CASE AdoptAfter(w)
    BY <2>18 DEF AdoptAfter, Moves, Quiet, Ends
  <2>19. CASE Retire(w)
    BY <2>19 DEF Retire, Moves, Woken
  <2> QED
    BY <1>2, <2>1, <2>2, <2>3, <2>4, <2>5, <2>6, <2>7, <2>8, <2>9, <2>10, <2>11, <2>12, <2>13,
        <2>14, <2>15, <2>16, <2>17, <2>18, <2>19 DEF Works
<1>3. ASSUME NEW w \in Caller, Happens(w) PROVE SlotHeld'
  <2>1. CASE GiveUp(w)
    BY <2>1 DEF GiveUp, Told, Goes, Mishap
  <2>2. CASE AskAgain(w)
    BY <2>2 DEF AskAgain, Goes, CallerOnly
  <2>3. CASE InquireFails(w)
    BY <2>3 DEF InquireFails, Told, Goes, Mishap
  <2>4. CASE InventoryFails(w)
    BY <2>4 DEF InventoryFails, Ends, Moves, Mishap
  <2>5. CASE FetchFails(w)
    BY <2>5 DEF FetchFails, Preserved, Ends, Moves, Mishap
  <2>6. CASE Cancel(w)
    BY <2>6 DEF Cancel, Stops, Mishap
  <2> QED
    BY <1>3, <2>1, <2>2, <2>3, <2>4, <2>5, <2>6 DEF Happens
<1>4. CASE Advance
  BY <1>4 DEF Advance
<1>5. CASE UNCHANGED vars
  BY <1>5 DEF vars
<1> QED
  BY <1>1, <1>2, <1>3, <1>4, <1>5 DEF Next

(* A commit stays what it is called, in flights and in stagings.           *)
LEMMA CommitsNext ==
  ASSUME PullInv, [Next]_vars
  PROVE  CommitsNamed'
<1> USE NamesAssumption DEF PullInv, Typed, ArchiveTyped, CallersTyped, FlightsTyped, GateTyped,
    CommitsNamed, ClaimsFirst, Early, Claimed, Archiving, Comparing, archive, callers, flights,
    gate
<1>1. ASSUME NEW w \in Caller, Calls(w) PROVE CommitsNamed'
  <2>1. CASE Inquire(w)
    BY <2>1, Requests DEF Inquire, Told, Goes, Target, OwnWay, Reconciles
  <2>2. CASE AdoptFor(w)
    BY <2>2 DEF AdoptFor, Told, Goes
  <2>3. CASE Join(w)
    BY SMTT(60), <2>3 DEF Join, Goes, Same, Running
  <2>4. CASE ~ Inquire(w) /\ ~ AdoptFor(w) /\ ~ Join(w)
    BY SMTT(60), <1>1, <2>4, CallersOnlyAsk DEF CallerOnly
  <2> QED
    BY <1>1, <2>1, <2>2, <2>3, <2>4
<1>2. ASSUME NEW w \in Caller, Works(w) PROVE CommitsNamed'
  <2>1. CASE Register(w)
    BY <2>1 DEF Register, Moves, Quiet
  <2>2. CASE Reconcile(w)
    BY <2>2 DEF Reconcile, Compared, Moves, Quiet, SelectionSame, Ends, AfterReconcile
  <2>3. CASE Inventory(w)
    BY <2>3, Requests DEF Inventory, Moves, Quiet, Target
  <2>4. CASE Compare(w)
    BY <2>4 DEF Compare, Compared, Moves, Quiet, SelectionSame, Ends, AfterReconcile
  <2>5. CASE Check(w)
    BY <2>5 DEF Check, Moves, Quiet, Ends
  <2>6. CASE Enter(w)
    BY <2>6 DEF Enter, Moves, Quiet
  <2>7. CASE Admit(w)
    BY <2>7 DEF Admit, Moves, Quiet, Ends, AfterWait
  <2>8. CASE LeaveQueue(w)
    BY <2>8 DEF LeaveQueue, Quiet, Ends, Moves
  <2>9. CASE Stage(w)
    BY <2>9 DEF Stage, Moves, Quiet, Resumable
  <2>10. CASE FetchResolve(w)
    BY <2>10, Requests DEF FetchResolve, Moves, Quiet, Pinned, Target
  <2>11. CASE FetchDone(w)
    BY <2>11 DEF FetchDone, Moves, Quiet, Ends
  <2>12. CASE FetchCancelled(w)
    BY <2>12 DEF FetchCancelled, Preserved, Moves, Quiet, Ends
  <2>13. CASE Claim(w)
    BY <2>13 DEF Claim, Preserved, Moves, Quiet, Ends, AfterClaim
  <2>14. CASE Publish(w)
    BY <2>14 DEF Publish, Moves, Quiet
  <2>15. CASE Record(w)
    BY <2>15 DEF Record, Moves, Quiet
  <2>16. CASE Point(w)
    BY <2>16 DEF Point, Moves, Quiet, Ends
  <2>17. CASE NameAfter(w)
    BY <2>17 DEF NameAfter, Moves, Quiet, Ends
  <2>18. CASE AdoptAfter(w)
    BY <2>18 DEF AdoptAfter, Moves, Quiet, Ends
  <2>19. CASE Retire(w)
    BY <2>19 DEF Retire, Moves, Woken
  <2> QED
    BY <1>2, <2>1, <2>2, <2>3, <2>4, <2>5, <2>6, <2>7, <2>8, <2>9, <2>10, <2>11, <2>12, <2>13,
        <2>14, <2>15, <2>16, <2>17, <2>18, <2>19 DEF Works
<1>3. ASSUME NEW w \in Caller, Happens(w) PROVE CommitsNamed'
  <2>1. CASE GiveUp(w)
    BY <2>1 DEF GiveUp, Told, Goes, Mishap
  <2>2. CASE AskAgain(w)
    BY <2>2 DEF AskAgain, Goes, CallerOnly
  <2>3. CASE InquireFails(w)
    BY <2>3 DEF InquireFails, Told, Goes, Mishap
  <2>4. CASE InventoryFails(w)
    BY <2>4 DEF InventoryFails, Ends, Moves, Mishap
  <2>5. CASE FetchFails(w)
    BY <2>5 DEF FetchFails, Preserved, Ends, Moves, Mishap
  <2>6. CASE Cancel(w)
    BY <2>6 DEF Cancel, Stops, Mishap
  <2> QED
    BY <1>3, <2>1, <2>2, <2>3, <2>4, <2>5, <2>6 DEF Happens
<1>4. CASE Advance
  BY <1>4 DEF Advance
<1>5. CASE UNCHANGED vars
  BY <1>5 DEF vars
<1> QED
  BY <1>1, <1>2, <1>3, <1>4, <1>5 DEF Next

(* Every change of the archive comes after the claim.                      *)
LEMMA ClaimsNext ==
  ASSUME PullInv, [Next]_vars
  PROVE  ClaimsFirst'
<1> USE NamesAssumption DEF PullInv, Typed, ArchiveTyped, CallersTyped, FlightsTyped, GateTyped,
    ClaimsFirst, Claimed, Archiving, Comparing, Wins, Err, Ok, NoOutcome, InFlight, Reconciles,
    archive, callers, flights, gate
<1>1. ASSUME NEW w \in Caller, Calls(w) PROVE ClaimsFirst'
  <2>1. CASE Inquire(w)
    BY <2>1 DEF Inquire, Told, Goes, Target
  <2>2. CASE AdoptFor(w)
    BY <2>2 DEF AdoptFor, Told, Goes
  <2>3. CASE Join(w)
    BY <2>3 DEF Join, Goes, Same, Running
  <2>4. CASE ~ Inquire(w) /\ ~ AdoptFor(w) /\ ~ Join(w)
    BY <1>1, <2>4, CallersOnlyAsk DEF CallerOnly
  <2> QED
    BY <1>1, <2>1, <2>2, <2>3, <2>4
<1>2. ASSUME NEW w \in Caller, Works(w) PROVE ClaimsFirst'
  <2>1. CASE Register(w)
    BY <2>1 DEF Register, Moves, Quiet
  <2>2. CASE Reconcile(w)
    BY <2>2 DEF Reconcile, Compared, Moves, Quiet, SelectionSame, Ends, AfterReconcile
  <2>3. CASE Inventory(w)
    BY <2>3 DEF Inventory, Moves, Quiet, Target
  <2>4. CASE Compare(w)
    BY <2>4 DEF Compare, Compared, Moves, Quiet, SelectionSame, Ends, AfterReconcile
  <2>5. CASE Check(w)
    BY <2>5 DEF Check, Moves, Quiet, Ends
  <2>6. CASE Enter(w)
    BY <2>6 DEF Enter, Moves, Quiet
  <2>7. CASE Admit(w)
    BY <2>7 DEF Admit, Moves, Quiet, Ends, AfterWait
  <2>8. CASE LeaveQueue(w)
    BY <2>8 DEF LeaveQueue, Quiet, Ends, Moves
  <2>9. CASE Stage(w)
    BY <2>9 DEF Stage, Moves, Quiet, Resumable
  <2>10. CASE FetchResolve(w)
    BY <2>10 DEF FetchResolve, Moves, Quiet, Pinned, Target
  <2>11. CASE FetchDone(w)
    BY <2>11 DEF FetchDone, Moves, Quiet, Ends
  <2>12. CASE FetchCancelled(w)
    BY <2>12 DEF FetchCancelled, Preserved, Moves, Quiet, Ends
  <2>13. CASE Claim(w)
    BY <2>13 DEF Claim, Preserved, Moves, Quiet, Ends, AfterClaim
  <2>14. CASE Publish(w)
    BY <2>14 DEF Publish, Moves, Quiet
  <2>15. CASE Record(w)
    BY <2>15 DEF Record, Moves, Quiet
  <2>16. CASE Point(w)
    BY <2>16 DEF Point, Moves, Quiet, Ends
  <2>17. CASE NameAfter(w)
    BY <2>17 DEF NameAfter, Moves, Quiet, Ends
  <2>18. CASE AdoptAfter(w)
    BY <2>18 DEF AdoptAfter, Moves, Quiet, Ends
  <2>19. CASE Retire(w)
    BY <2>19 DEF Retire, Moves, Woken
  <2> QED
    BY <1>2, <2>1, <2>2, <2>3, <2>4, <2>5, <2>6, <2>7, <2>8, <2>9, <2>10, <2>11, <2>12, <2>13,
        <2>14, <2>15, <2>16, <2>17, <2>18, <2>19 DEF Works
<1>3. ASSUME NEW w \in Caller, Happens(w) PROVE ClaimsFirst'
  <2>1. CASE GiveUp(w)
    BY <2>1 DEF GiveUp, Told, Goes, Mishap
  <2>2. CASE AskAgain(w)
    BY <2>2 DEF AskAgain, Goes, CallerOnly
  <2>3. CASE InquireFails(w)
    BY <2>3 DEF InquireFails, Told, Goes, Mishap
  <2>4. CASE InventoryFails(w)
    BY <2>4 DEF InventoryFails, Ends, Moves, Mishap
  <2>5. CASE FetchFails(w)
    BY <2>5 DEF FetchFails, Preserved, Ends, Moves, Mishap
  <2>6. CASE Cancel(w)
    BY <2>6 DEF Cancel, Stops, Mishap
  <2> QED
    BY <1>3, <2>1, <2>2, <2>3, <2>4, <2>5, <2>6 DEF Happens
<1>4. CASE Advance
  BY <1>4 DEF Advance
<1>5. CASE UNCHANGED vars
  BY <1>5 DEF vars
<1> QED
  BY <1>1, <1>2, <1>3, <1>4, <1>5 DEF Next

(* Types, one group of variables at a time.                                *)
LEMMA ArchiveTypedNext ==
  ASSUME PullInv, [Next]_vars
  PROVE  ArchiveTyped'
<1> USE NamesAssumption DEF PullInv, Typed, ArchiveTyped, CallersTyped, FlightsTyped, GateTyped,
    archive, callers, flights, gate
<1>1. ASSUME NEW w \in Caller, Calls(w) PROVE ArchiveTyped'
  <2>1. CASE Inquire(w)
    BY <2>1, Requests DEF Inquire, Told, Goes, Target
  <2>2. CASE AdoptFor(w)
    BY <2>2 DEF AdoptFor, Told, Goes, OwnWay, Adopted
  <2>3. CASE Join(w)
    BY <2>3 DEF Join, Goes, Same, Running
  <2>4. CASE ~ Inquire(w) /\ ~ AdoptFor(w) /\ ~ Join(w)
    BY <1>1, <2>4, CallersOnlyAsk DEF CallerOnly
  <2> QED
    BY <1>1, <2>1, <2>2, <2>3, <2>4
<1>2. ASSUME NEW w \in Caller, Works(w) PROVE ArchiveTyped'
  <2>1. CASE Register(w)
    BY <2>1 DEF Register, Moves, Quiet
  <2>2. CASE Reconcile(w)
    BY <2>2 DEF Reconcile, Compared, Moves, Quiet, SelectionSame, Ends, AfterReconcile
  <2>3. CASE Inventory(w)
    BY <2>3, Requests DEF Inventory, Moves, Quiet, Target
  <2>4. CASE Compare(w)
    BY <2>4 DEF Compare, Compared, Moves, Quiet, SelectionSame, Ends, AfterReconcile
  <2>5. CASE Check(w)
    BY <2>5 DEF Check, Moves, Quiet, Ends
  <2>6. CASE Enter(w)
    BY <2>6 DEF Enter, Moves, Quiet
  <2>7. CASE Admit(w)
    BY <2>7 DEF Admit, Moves, Quiet, Ends, AfterWait
  <2>8. CASE LeaveQueue(w)
    BY <2>8 DEF LeaveQueue, Quiet, Ends, Moves
  <2>9. CASE Stage(w)
    BY <2>9 DEF Stage, Moves, Quiet, Resumable
  <2>10. CASE FetchResolve(w)
    BY <2>10, Requests DEF FetchResolve, Moves, Quiet, Pinned, Target
  <2>11. CASE FetchDone(w)
    BY <2>11 DEF FetchDone, Moves, Quiet, Ends
  <2>12. CASE FetchCancelled(w)
    BY <2>12, PreservedTyped DEF FetchCancelled, Preserved, Moves, Quiet, Ends
  <2>13. CASE Claim(w)
    BY <2>13, PreservedTyped DEF Claim, Preserved, Moves, Quiet, Ends, AfterClaim
  <2>14. CASE Publish(w)
    BY <2>14, Selections DEF Publish, Moves, Quiet, CommitsNamed, Claimed, Archiving, Extended
  <2>15. CASE Record(w)
    BY <2>15 DEF Record, Moves, Quiet, CommitsNamed, Claimed, Archiving, Recordable, Recorded
  <2>16. CASE Point(w)
    BY <2>16 DEF Point, Moves, Quiet, Ends, CommitsNamed, Claimed, Archiving
  <2>17. CASE NameAfter(w)
    BY <2>17 DEF NameAfter, Moves, Quiet, Ends
  <2>18. CASE AdoptAfter(w)
    BY <2>18 DEF AdoptAfter, Moves, Quiet, Ends, CommitsNamed, Claimed, Archiving
  <2>19. CASE Retire(w)
    BY <2>19 DEF Retire, Moves, Woken
  <2> QED
    BY <1>2, <2>1, <2>2, <2>3, <2>4, <2>5, <2>6, <2>7, <2>8, <2>9, <2>10, <2>11, <2>12, <2>13,
        <2>14, <2>15, <2>16, <2>17, <2>18, <2>19 DEF Works
<1>3. ASSUME NEW w \in Caller, Happens(w) PROVE ArchiveTyped'
  <2>1. CASE GiveUp(w)
    BY <2>1 DEF GiveUp, Told, Goes, Mishap
  <2>2. CASE AskAgain(w)
    BY <2>2 DEF AskAgain, Goes, CallerOnly
  <2>3. CASE InquireFails(w)
    BY <2>3 DEF InquireFails, Told, Goes, Mishap
  <2>4. CASE InventoryFails(w)
    BY <2>4 DEF InventoryFails, Ends, Moves, Mishap
  <2>5. CASE FetchFails(w)
    BY SMTT(60), <2>5, PreservedTyped DEF FetchFails, Preserved, Ends, Moves, Mishap
  <2>6. CASE Cancel(w)
    BY <2>6 DEF Cancel, Stops, Mishap
  <2> QED
    BY <1>3, <2>1, <2>2, <2>3, <2>4, <2>5, <2>6 DEF Happens
<1>4. CASE Advance
  BY <1>4 DEF Advance
<1>5. CASE UNCHANGED vars
  BY <1>5 DEF vars
<1> QED
  BY <1>1, <1>2, <1>3, <1>4, <1>5 DEF Next

LEMMA CallersTypedNext ==
  ASSUME PullInv, [Next]_vars
  PROVE  CallersTyped'
<1> USE NamesAssumption DEF PullInv, Typed, ArchiveTyped, CallersTyped, FlightsTyped, GateTyped,
    archive, callers, flights, gate
<1>1. ASSUME NEW w \in Caller, Calls(w) PROVE CallersTyped'
  <2>1. CASE Ask(w)
    BY <2>1 DEF Ask, Goes, CallerOnly
  <2>2. CASE LookUp(w)
    <3>1. Resolved(req[w].revision) \in Commit \cup {None}
      BY Requests
    <3>2. /\ UNCHANGED <<archive, req, joined, flights>>
          /\ \/ at' = [at EXCEPT ![w] = "answered"] /\ Resolved(req[w].revision) # None /\ answer' = [answer EXCEPT ![w] = Ok(Resolved(req[w].revision))]
             \/ at' = [at EXCEPT ![w] = "ensuring"] /\ UNCHANGED answer
      BY <2>2 DEF LookUp, Told, Goes, CallerOnly
    <3> QED
      BY SMTT(60), <3>1, <3>2, Outcomes
  <2>3. CASE Describe(w)
    BY SMTT(60), <2>3, Outcomes, PublishedNames DEF Describe, Told, Goes, CallerOnly
  <2>4. CASE Inquire(w)
    <3>1. Target(req[w].revision) \in Commit
      BY Requests
    <3> QED
      BY <2>4, <3>1, Outcomes DEF Inquire, Told, Goes, Target
  <2>5. CASE Name(w)
    <3>1. found[w] \in Commit
      BY <2>5 DEF Name, OwnWay
    <3>2. /\ UNCHANGED <<archive, req, joined, flights>>
          /\ \/ at' = [at EXCEPT ![w] = "answered"] /\ answer' = [answer EXCEPT ![w] = Ok(found[w])]
             \/ at' = [at EXCEPT ![w] = "adopting"] /\ UNCHANGED answer
      BY <2>5 DEF Name, Told, Goes, CallerOnly
    <3> QED
      BY SMTT(60), <3>1, <3>2, Outcomes
  <2>6. CASE AdoptFor(w)
    BY <2>6, Outcomes DEF AdoptFor, Told, Goes, OwnWay
  <2>7. CASE Ensure(w)
    <3>1. Resolved(req[w].revision) \in Commit \cup {None}
      BY Requests
    <3>2. /\ UNCHANGED <<archive, req, joined, flights>>
          /\ \/ at' = [at EXCEPT ![w] = "woken"] /\ Resolved(req[w].revision) # None /\ answer' = [answer EXCEPT ![w] = Ok(Resolved(req[w].revision))]
             \/ at' = [at EXCEPT ![w] = "joining"] /\ UNCHANGED answer
      BY <2>7 DEF Ensure, Goes, CallerOnly
    <3> QED
      BY SMTT(60), <3>1, <3>2, Outcomes
  <2>8. CASE Join(w)
    BY <2>8 DEF Join, Goes, Same, Running
  <2>9. CASE Served(w)
    BY <2>9, Outcomes DEF Served, Told, Goes, CallerOnly
  <2> QED
    BY <1>1, <2>1, <2>2, <2>3, <2>4, <2>5, <2>6, <2>7, <2>8, <2>9 DEF Calls
<1>2. ASSUME NEW w \in Caller, Works(w) PROVE CallersTyped'
  <2>1. CASE Retire(w)
    BY <2>1 DEF Retire, Moves, Woken
  <2>2. CASE ~ Retire(w)
    BY <1>2, <2>2, FlightsAreQuiet DEF Quiet
  <2> QED
    BY <1>2, <2>1, <2>2
<1>3. ASSUME NEW w \in Caller, Happens(w) PROVE CallersTyped'
  <2>1. CASE GiveUp(w)
    BY <2>1, Outcomes DEF GiveUp, Told, Goes, Mishap
  <2>2. CASE AskAgain(w)
    BY <2>2, Outcomes DEF AskAgain, Goes, CallerOnly
  <2>3. CASE InquireFails(w)
    BY <2>3, Outcomes DEF InquireFails, Told, Goes, Mishap
  <2>4. CASE InventoryFails(w)
    BY <2>4, Outcomes DEF InventoryFails, Ends, Moves, Mishap
  <2>5. CASE FetchFails(w)
    BY <2>5, Outcomes DEF FetchFails, Preserved, Ends, Moves, Mishap
  <2>6. CASE Cancel(w)
    BY <2>6, Outcomes DEF Cancel, Stops, Mishap
  <2> QED
    BY <1>3, <2>1, <2>2, <2>3, <2>4, <2>5, <2>6 DEF Happens
<1>4. CASE Advance
  BY <1>4 DEF Advance
<1>5. CASE UNCHANGED vars
  BY <1>5 DEF vars
<1> QED
  BY <1>1, <1>2, <1>3, <1>4, <1>5 DEF Next

LEMMA FlightsTypedNext ==
  ASSUME PullInv, [Next]_vars
  PROVE  FlightsTyped'
<1> USE NamesAssumption DEF PullInv, Typed, FlightsTyped, archive, callers, flights, gate
<1>1. ASSUME NEW w \in Caller, Calls(w) PROVE FlightsTyped'
  <2>1. CASE Inquire(w)
    BY <2>1, Requests DEF Inquire, Told, Goes, Target
  <2>2. CASE AdoptFor(w)
    BY <2>2 DEF AdoptFor, Told, Goes
  <2>3. CASE Join(w)
    BY <2>3, Requests DEF Join, Goes, Same, Running
  <2>4. CASE ~ Inquire(w) /\ ~ AdoptFor(w) /\ ~ Join(w)
    BY <1>1, <2>4, CallersOnlyAsk DEF CallerOnly
  <2> QED
    BY <1>1, <2>1, <2>2, <2>3, <2>4
<1>2. ASSUME NEW w \in Caller, Works(w) PROVE FlightsTyped'
  <2>1. CASE Register(w)
    BY <2>1 DEF Register, Moves, Quiet
  <2>2. CASE Reconcile(w)
    <3>1. PublishedCommit(req[w].revision) \in Commit \cup {None}
      BY PublishedNames
    <3>2. ASSUME NEW c \in Commit, c = PublishedCommit(req[w].revision), Compared(w, c)
          PROVE  FlightsTyped'
      <4>1. /\ step[w] # "none"
            /\ UNCHANGED <<archive, callers, named, head, retained, found, commit, waited, token, queue>>
        BY <2>2 DEF Reconcile, Quiet
      <4>2. Named(Lacking(w, c)) \in Selection /\ Ok(c) \in Outcome /\ Ok(c).error = "none"
        BY Narrowing, Outcomes
      <4>3. \/ /\ Lacking(w, c) = {} /\ UNCHANGED wants
               /\ step' = [step EXCEPT ![w] = "retiring"]
               /\ outcome' = [outcome EXCEPT ![w] = Ok(c)]
               /\ slot' = IF slot = w THEN None ELSE slot
            \/ /\ Lacking(w, c) # {} /\ wants' = [wants EXCEPT ![w] = Named(Lacking(w, c))]
               /\ step' = [step EXCEPT ![w] = IF slot = w THEN "staging" ELSE "checking"]
               /\ UNCHANGED <<outcome, slot>>
        BY <3>2, ComparedEnds
      <4> QED
        BY <4>1, <4>2, <4>3
    <3>3. ASSUME ~ (PublishedCommit(req[w].revision) \in Commit /\ Compared(w, PublishedCommit(req[w].revision)))
          PROVE  FlightsTyped'
      BY <2>2, <3>1, <3>3, Outcomes DEF Reconcile, Quiet, SelectionSame, Ends, Moves,
         AfterReconcile
    <3> QED
      BY <2>2, <3>1, <3>2, <3>3
  <2>3. CASE Inventory(w)
    BY <2>3, Requests DEF Inventory, Moves, Quiet, Target
  <2>4. CASE Compare(w)
    <3>1. found[w] \in Commit
      BY <2>4 DEF Compare, CommitsNamed
    <3>2. ASSUME NEW c \in Commit, c = found[w], Compared(w, c) PROVE FlightsTyped'
      <4>1. /\ step[w] # "none"
            /\ UNCHANGED <<archive, callers, named, head, retained, found, commit, waited, token, queue>>
        BY <2>4 DEF Compare, Quiet
      <4>2. Named(Lacking(w, c)) \in Selection /\ Ok(c) \in Outcome /\ Ok(c).error = "none"
        BY Narrowing, Outcomes
      <4>3. \/ /\ Lacking(w, c) = {} /\ UNCHANGED wants
               /\ step' = [step EXCEPT ![w] = "retiring"]
               /\ outcome' = [outcome EXCEPT ![w] = Ok(c)]
               /\ slot' = IF slot = w THEN None ELSE slot
            \/ /\ Lacking(w, c) # {} /\ wants' = [wants EXCEPT ![w] = Named(Lacking(w, c))]
               /\ step' = [step EXCEPT ![w] = IF slot = w THEN "staging" ELSE "checking"]
               /\ UNCHANGED <<outcome, slot>>
        BY <3>2, ComparedEnds
      <4> QED
        BY <4>1, <4>2, <4>3
    <3>3. ASSUME ~ (found[w] \in Commit /\ Compared(w, found[w])) PROVE FlightsTyped'
      BY <2>4, <3>1, <3>3, Outcomes DEF Compare, Quiet, SelectionSame, Ends, Moves, AfterReconcile
    <3> QED
      BY <2>4, <3>1, <3>2, <3>3
  <2>5. CASE Check(w)
    BY <2>5, Outcomes DEF Check, Moves, Quiet, Ends, ArchiveTyped
  <2>6. CASE Enter(w)
    BY <2>6 DEF Enter, Moves, Quiet
  <2>7. CASE Admit(w)
    BY <2>7, Outcomes DEF Admit, Moves, Quiet, Ends, AfterWait
  <2>8. CASE LeaveQueue(w)
    BY <2>8, Outcomes DEF LeaveQueue, Quiet, Ends, Moves
  <2>9. CASE Stage(w)
    BY <2>9 DEF Stage, Moves, Quiet, Resumable, ArchiveTyped
  <2>10. CASE FetchResolve(w)
    BY <2>10, Requests DEF FetchResolve, Moves, Quiet, Pinned, Target
  <2>11. CASE FetchDone(w)
    BY <2>11, Outcomes DEF FetchDone, Moves, Quiet, Ends
  <2>12. CASE FetchCancelled(w)
    BY <2>12, Outcomes DEF FetchCancelled, Preserved, Moves, Quiet, Ends
  <2>13. CASE Claim(w)
    BY <2>13, Outcomes DEF Claim, Preserved, Moves, Quiet, Ends, AfterClaim, CommitsNamed,
        Claimed, Archiving
  <2>14. CASE Publish(w)
    BY <2>14 DEF Publish, Moves, Quiet
  <2>15. CASE Record(w)
    BY <2>15 DEF Record, Moves, Quiet
  <2>16. CASE Point(w)
    BY <2>16, Outcomes DEF Point, Moves, Quiet, Ends, CommitsNamed, Claimed, Archiving
  <2>17. CASE NameAfter(w)
    BY <2>17, Outcomes DEF NameAfter, Moves, Quiet, Ends, CommitsNamed, Claimed, Archiving
  <2>18. CASE AdoptAfter(w)
    BY <2>18, Outcomes DEF AdoptAfter, Moves, Quiet, Ends, CommitsNamed, Claimed, Archiving
  <2>19. CASE Retire(w)
    BY <2>19, Outcomes, Selections DEF Retire, Moves, Woken
  <2> QED
    BY <1>2, <2>1, <2>2, <2>3, <2>4, <2>5, <2>6, <2>7, <2>8, <2>9, <2>10, <2>11, <2>12, <2>13,
        <2>14, <2>15, <2>16, <2>17, <2>18, <2>19 DEF Works
<1>3. ASSUME NEW w \in Caller, Happens(w) PROVE FlightsTyped'
  <2>1. CASE GiveUp(w)
    BY <2>1 DEF GiveUp, Told, Goes, Mishap
  <2>2. CASE AskAgain(w)
    BY <2>2 DEF AskAgain, Goes, CallerOnly
  <2>3. CASE InquireFails(w)
    BY <2>3 DEF InquireFails, Told, Goes, Mishap
  <2>4. CASE InventoryFails(w)
    BY <2>4, Outcomes DEF InventoryFails, Ends, Moves, Mishap
  <2>5. CASE FetchFails(w)
    BY <2>5, Outcomes DEF FetchFails, Preserved, Ends, Moves, Mishap
  <2>6. CASE Cancel(w)
    BY <2>6 DEF Cancel, Stops, Mishap
  <2> QED
    BY <1>3, <2>1, <2>2, <2>3, <2>4, <2>5, <2>6 DEF Happens
<1>4. CASE Advance
  BY <1>4 DEF Advance
<1>5. CASE UNCHANGED vars
  BY SMTT(60), <1>5 DEF vars
<1> QED
  BY <1>1, <1>2, <1>3, <1>4, <1>5 DEF Next

(* Each kind of caller keeps to its own steps.                             *)
LEMMA OwnWayNext ==
  ASSUME PullInv, [Next]_vars
  PROVE  OwnWay'
<1> USE NamesAssumption DEF PullInv, Typed, CallersTyped, FlightsTyped, OwnWay, archive, callers,
    flights, gate
<1>1. ASSUME NEW w \in Caller, Calls(w) PROVE OwnWay'
  <2>1. CASE Ask(w)
    BY <2>1 DEF Ask, Goes, CallerOnly
  <2>2. CASE LookUp(w)
    BY <2>2, Outcomes, Requests DEF LookUp, Told, Goes, CallerOnly
  <2>3. CASE Describe(w)
    BY <2>3, Outcomes, PublishedNames DEF Describe, Told, Goes, CallerOnly
  <2>4. CASE Inquire(w)
    BY <2>4, Outcomes, Requests DEF Inquire, Told, Goes, Target
  <2>5. CASE Name(w)
    BY <2>5, Outcomes DEF Name, Told, Goes, CallerOnly
  <2>6. CASE AdoptFor(w)
    BY <2>6, Outcomes DEF AdoptFor, Told, Goes
  <2>7. CASE Ensure(w)
    BY <2>7, Outcomes, Requests DEF Ensure, Goes, CallerOnly
  <2>8. CASE Join(w)
    BY SMTT(60), <2>8, Requests DEF Join, Goes, Same, Running
  <2>9. CASE Served(w)
    BY SMTT(60), <2>9, Outcomes DEF Served, Told, Goes, CallerOnly
  <2> QED
    BY <1>1, <2>1, <2>2, <2>3, <2>4, <2>5, <2>6, <2>7, <2>8, <2>9 DEF Calls
<1>2. ASSUME NEW w \in Caller, Works(w) PROVE OwnWay'
  <2>1. CASE Register(w)
    BY <2>1 DEF Register, Moves, Quiet
  <2>2. CASE Reconcile(w)
    <3>1. PublishedCommit(req[w].revision) \in Commit \cup {None}
      BY PublishedNames
    <3>2. ASSUME NEW c \in Commit, c = PublishedCommit(req[w].revision), Compared(w, c)
          PROVE  OwnWay'
      <4>1. /\ step[w] # "none"
            /\ UNCHANGED <<archive, callers, named, head, retained, found, commit, waited, token, queue>>
        BY <2>2 DEF Reconcile, Quiet
      <4>2. Named(Lacking(w, c)) \in Selection /\ Ok(c) \in Outcome /\ Ok(c).error = "none"
        BY Narrowing, Outcomes
      <4>3. \/ /\ Lacking(w, c) = {} /\ UNCHANGED wants
               /\ step' = [step EXCEPT ![w] = "retiring"]
               /\ outcome' = [outcome EXCEPT ![w] = Ok(c)]
               /\ slot' = IF slot = w THEN None ELSE slot
            \/ /\ Lacking(w, c) # {} /\ wants' = [wants EXCEPT ![w] = Named(Lacking(w, c))]
               /\ step' = [step EXCEPT ![w] = IF slot = w THEN "staging" ELSE "checking"]
               /\ UNCHANGED <<outcome, slot>>
        BY <3>2, ComparedEnds
      <4> QED
        BY <4>1, <4>2, <4>3
    <3>3. ASSUME ~ (PublishedCommit(req[w].revision) \in Commit /\ Compared(w, PublishedCommit(req[w].revision)))
          PROVE  OwnWay'
      BY <2>2, <3>1, <3>3, Outcomes DEF Reconcile, Quiet, SelectionSame, Ends, Moves,
         AfterReconcile
    <3> QED
      BY <2>2, <3>1, <3>2, <3>3
  <2>3. CASE Inventory(w)
    BY <2>3 DEF Inventory, Moves, Quiet, Target, ClaimsFirst, Comparing, Reconciles
  <2>4. CASE Compare(w)
    <3>1. found[w] \in Commit
      BY <2>4 DEF Compare, CommitsNamed
    <3>2. ASSUME NEW c \in Commit, c = found[w], Compared(w, c) PROVE OwnWay'
      <4>1. /\ step[w] # "none"
            /\ UNCHANGED <<archive, callers, named, head, retained, found, commit, waited, token, queue>>
        BY <2>4 DEF Compare, Quiet
      <4>2. Named(Lacking(w, c)) \in Selection /\ Ok(c) \in Outcome /\ Ok(c).error = "none"
        BY Narrowing, Outcomes
      <4>3. \/ /\ Lacking(w, c) = {} /\ UNCHANGED wants
               /\ step' = [step EXCEPT ![w] = "retiring"]
               /\ outcome' = [outcome EXCEPT ![w] = Ok(c)]
               /\ slot' = IF slot = w THEN None ELSE slot
            \/ /\ Lacking(w, c) # {} /\ wants' = [wants EXCEPT ![w] = Named(Lacking(w, c))]
               /\ step' = [step EXCEPT ![w] = IF slot = w THEN "staging" ELSE "checking"]
               /\ UNCHANGED <<outcome, slot>>
        BY <3>2, ComparedEnds
      <4> QED
        BY <4>1, <4>2, <4>3
    <3>3. ASSUME ~ (found[w] \in Commit /\ Compared(w, found[w])) PROVE OwnWay'
      BY <2>4, <3>1, <3>3, Outcomes DEF Compare, Quiet, SelectionSame, Ends, Moves, AfterReconcile
    <3> QED
      BY <2>4, <3>1, <3>2, <3>3
  <2>5. CASE Check(w)
    BY <2>5, Outcomes DEF Check, Moves, Quiet, Ends, ArchiveTyped
  <2>6. CASE Enter(w)
    BY <2>6 DEF Enter, Moves, Quiet
  <2>7. CASE Admit(w)
    BY <2>7, Outcomes DEF Admit, Moves, Quiet, Ends, AfterWait
  <2>8. CASE LeaveQueue(w)
    BY <2>8, Outcomes DEF LeaveQueue, Quiet, Ends, Moves
  <2>9. CASE Stage(w)
    BY <2>9 DEF Stage, Moves, Quiet, Resumable, ArchiveTyped
  <2>10. CASE FetchResolve(w)
    BY <2>10 DEF FetchResolve, Moves, Quiet, Pinned, Target
  <2>11. CASE FetchDone(w)
    BY <2>11, Outcomes DEF FetchDone, Moves, Quiet, Ends
  <2>12. CASE FetchCancelled(w)
    BY <2>12, Outcomes DEF FetchCancelled, Preserved, Moves, Quiet, Ends
  <2>13. CASE Claim(w)
    BY <2>13, Outcomes DEF Claim, Preserved, Moves, Quiet, Ends, AfterClaim, CommitsNamed,
        Claimed, Archiving
  <2>14. CASE Publish(w)
    BY <2>14 DEF Publish, Moves, Quiet
  <2>15. CASE Record(w)
    BY <2>15 DEF Record, Moves, Quiet
  <2>16. CASE Point(w)
    BY <2>16, Outcomes DEF Point, Moves, Quiet, Ends, CommitsNamed, Claimed, Archiving
  <2>17. CASE NameAfter(w)
    BY <2>17, Outcomes DEF NameAfter, Moves, Quiet, Ends, CommitsNamed, Claimed, Archiving
  <2>18. CASE AdoptAfter(w)
    BY SMTT(60), <2>18, Outcomes DEF AdoptAfter, Moves, Quiet, Ends, CommitsNamed, Claimed,
       Archiving
  <2>19. CASE Retire(w)
    BY <2>19, Outcomes DEF Retire, Moves, Woken
  <2> QED
    BY <1>2, <2>1, <2>2, <2>3, <2>4, <2>5, <2>6, <2>7, <2>8, <2>9, <2>10, <2>11, <2>12, <2>13,
        <2>14, <2>15, <2>16, <2>17, <2>18, <2>19 DEF Works
<1>3. ASSUME NEW w \in Caller, Happens(w) PROVE OwnWay'
  <2>1. CASE GiveUp(w)
    BY <2>1, Outcomes DEF GiveUp, Told, Goes, Mishap
  <2>2. CASE AskAgain(w)
    BY <2>2, Outcomes DEF AskAgain, Goes, CallerOnly
  <2>3. CASE InquireFails(w)
    BY <2>3, Outcomes DEF InquireFails, Told, Goes, Mishap
  <2>4. CASE InventoryFails(w)
    BY <2>4, Outcomes DEF InventoryFails, Ends, Moves, Mishap
  <2>5. CASE FetchFails(w)
    BY <2>5, Outcomes DEF FetchFails, Preserved, Ends, Moves, Mishap
  <2>6. CASE Cancel(w)
    BY <2>6 DEF Cancel, Stops, Mishap
  <2> QED
    BY <1>3, <2>1, <2>2, <2>3, <2>4, <2>5, <2>6 DEF Happens
<1>4. CASE Advance
  BY <1>4 DEF Advance
<1>5. CASE UNCHANGED vars
  BY <1>5 DEF vars
<1> QED
  BY <1>1, <1>2, <1>3, <1>4, <1>5 DEF Next

LEMMA GateTypedNext ==
  ASSUME PullInv, [Next]_vars
  PROVE  GateTyped'
<1> USE NamesAssumption DEF PullInv, Typed, GateTyped, archive, callers, flights, gate
<1>1. ASSUME NEW w \in Caller, Calls(w) PROVE GateTyped'
  <2>1. CASE Inquire(w)
    BY <2>1 DEF Inquire, Told, Goes, Target
  <2>2. CASE AdoptFor(w)
    BY <2>2 DEF AdoptFor, Told, Goes
  <2>3. CASE Join(w)
    BY <2>3 DEF Join, Goes, Same, Running
  <2>4. CASE ~ Inquire(w) /\ ~ AdoptFor(w) /\ ~ Join(w)
    BY <1>1, <2>4, CallersOnlyAsk DEF CallerOnly
  <2> QED
    BY <1>1, <2>1, <2>2, <2>3, <2>4
<1>2. ASSUME NEW w \in Caller, Works(w) PROVE GateTyped'
  <2>1. CASE Register(w)
    BY <2>1 DEF Register, Moves, Quiet
  <2>2. CASE Reconcile(w)
    BY <2>2 DEF Reconcile, Compared, Moves, Quiet, SelectionSame, Ends, AfterReconcile
  <2>3. CASE Inventory(w)
    BY <2>3 DEF Inventory, Moves, Quiet, Target
  <2>4. CASE Compare(w)
    BY <2>4 DEF Compare, Compared, Moves, Quiet, SelectionSame, Ends, AfterReconcile
  <2>5. CASE Check(w)
    BY <2>5 DEF Check, Moves, Quiet, Ends
  <2>6. CASE Enter(w)
    BY <2>6 DEF Enter, Moves, Quiet
  <2>7. CASE Admit(w)
    BY <2>7, Leaving DEF Admit, Moves, Quiet, Ends, AfterWait
  <2>8. CASE LeaveQueue(w)
    BY <2>8, Leaving DEF LeaveQueue, Quiet, Ends, Moves
  <2>9. CASE Stage(w)
    BY <2>9 DEF Stage, Moves, Quiet, Resumable
  <2>10. CASE FetchResolve(w)
    BY <2>10 DEF FetchResolve, Moves, Quiet, Pinned, Target
  <2>11. CASE FetchDone(w)
    BY <2>11 DEF FetchDone, Moves, Quiet, Ends
  <2>12. CASE FetchCancelled(w)
    BY <2>12 DEF FetchCancelled, Preserved, Moves, Quiet, Ends
  <2>13. CASE Claim(w)
    BY <2>13 DEF Claim, Preserved, Moves, Quiet, Ends, AfterClaim
  <2>14. CASE Publish(w)
    BY <2>14 DEF Publish, Moves, Quiet
  <2>15. CASE Record(w)
    BY <2>15 DEF Record, Moves, Quiet
  <2>16. CASE Point(w)
    BY <2>16 DEF Point, Moves, Quiet, Ends
  <2>17. CASE NameAfter(w)
    BY <2>17 DEF NameAfter, Moves, Quiet, Ends
  <2>18. CASE AdoptAfter(w)
    BY <2>18 DEF AdoptAfter, Moves, Quiet, Ends
  <2>19. CASE Retire(w)
    BY <2>19 DEF Retire, Moves, Woken
  <2> QED
    BY <1>2, <2>1, <2>2, <2>3, <2>4, <2>5, <2>6, <2>7, <2>8, <2>9, <2>10, <2>11, <2>12, <2>13,
        <2>14, <2>15, <2>16, <2>17, <2>18, <2>19 DEF Works
<1>3. ASSUME NEW w \in Caller, Happens(w) PROVE GateTyped'
  <2>1. CASE GiveUp(w)
    BY <2>1 DEF GiveUp, Told, Goes, Mishap
  <2>2. CASE AskAgain(w)
    BY <2>2 DEF AskAgain, Goes, CallerOnly
  <2>3. CASE InquireFails(w)
    BY <2>3 DEF InquireFails, Told, Goes, Mishap
  <2>4. CASE InventoryFails(w)
    BY <2>4 DEF InventoryFails, Ends, Moves, Mishap
  <2>5. CASE FetchFails(w)
    BY <2>5 DEF FetchFails, Preserved, Ends, Moves, Mishap
  <2>6. CASE Cancel(w)
    BY <2>6 DEF Cancel, Stops, Mishap
  <2> QED
    BY <1>3, <2>1, <2>2, <2>3, <2>4, <2>5, <2>6 DEF Happens
<1>4. CASE Advance
  BY <1>4 DEF Advance
<1>5. CASE UNCHANGED vars
  BY <1>5 DEF vars
<1> QED
  BY <1>1, <1>2, <1>3, <1>4, <1>5 DEF Next

(* What is archived stays, and a reference that is there stays.            *)
LEMMA ArchiveGrows ==
  ASSUME PullInv, [Next]_vars
  PROVE  /\ req' = req
         /\ \A c \in Commit : held[c] \subseteq held'[c]
         /\ ref # None => ref' # None
<1> DEFINE Grows == /\ req' = req
                    /\ \A c \in Commit : held[c] \subseteq held'[c]
                    /\ ref # None => ref' # None
<1> USE NamesAssumption DEF PullInv, Typed, ArchiveTyped, archive, callers, flights, gate
<1>1. ASSUME NEW w \in Caller, Calls(w) PROVE Grows
  <2>1. CASE Inquire(w)
    BY <2>1 DEF Inquire, Told, Goes, Target
  <2>2. CASE AdoptFor(w)
    BY <2>2 DEF AdoptFor, Told, Goes, Adopted, Published, OwnWay, FlightsTyped
  <2>3. CASE Join(w)
    BY <2>3 DEF Join, Goes, Same, Running
  <2>4. CASE ~ Inquire(w) /\ ~ AdoptFor(w) /\ ~ Join(w)
    BY <1>1, <2>4, CallersOnlyAsk DEF CallerOnly
  <2> QED
    BY <1>1, <2>1, <2>2, <2>3, <2>4
<1>2. ASSUME NEW w \in Caller, Works(w) PROVE Grows
  <2>1. CASE Register(w)
    BY <2>1 DEF Register, Moves, Quiet
  <2>2. CASE Reconcile(w)
    BY <2>2 DEF Reconcile, Compared, Moves, Quiet, SelectionSame, Ends, AfterReconcile
  <2>3. CASE Inventory(w)
    BY <2>3 DEF Inventory, Moves, Quiet, Target
  <2>4. CASE Compare(w)
    BY <2>4 DEF Compare, Compared, Moves, Quiet, SelectionSame, Ends, AfterReconcile
  <2>5. CASE Check(w)
    BY <2>5 DEF Check, Moves, Quiet, Ends
  <2>6. CASE Enter(w)
    BY <2>6 DEF Enter, Moves, Quiet
  <2>7. CASE Admit(w)
    BY <2>7 DEF Admit, Moves, Quiet, Ends, AfterWait
  <2>8. CASE LeaveQueue(w)
    BY <2>8 DEF LeaveQueue, Quiet, Ends, Moves
  <2>9. CASE Stage(w)
    BY <2>9 DEF Stage, Moves, Quiet, Resumable
  <2>10. CASE FetchResolve(w)
    BY <2>10 DEF FetchResolve, Moves, Quiet, Pinned, Target
  <2>11. CASE FetchDone(w)
    BY <2>11 DEF FetchDone, Moves, Quiet, Ends
  <2>12. CASE FetchCancelled(w)
    BY <2>12 DEF FetchCancelled, Preserved, Moves, Quiet, Ends
  <2>13. CASE Claim(w)
    BY <2>13 DEF Claim, Preserved, Moves, Quiet, Ends, AfterClaim
  <2>14. CASE Publish(w)
    BY <2>14 DEF Publish, Moves, Quiet, FlightsTyped, CommitsNamed, Claimed,
        Extended
  <2>15. CASE Record(w)
    BY <2>15 DEF Record, Moves, Quiet
  <2>16. CASE Point(w)
    BY <2>16 DEF Point, Moves, Quiet, Ends, CommitsNamed, Claimed, Archiving
  <2>17. CASE NameAfter(w)
    BY <2>17 DEF NameAfter, Moves, Quiet, Ends
  <2>18. CASE AdoptAfter(w)
    BY <2>18 DEF AdoptAfter, Moves, Quiet, Ends, CommitsNamed, Claimed, Archiving
  <2>19. CASE Retire(w)
    BY <2>19 DEF Retire, Moves, Woken
  <2> QED
    BY <1>2, <2>1, <2>2, <2>3, <2>4, <2>5, <2>6, <2>7, <2>8, <2>9, <2>10, <2>11, <2>12, <2>13,
        <2>14, <2>15, <2>16, <2>17, <2>18, <2>19 DEF Works
<1>3. ASSUME NEW w \in Caller, Happens(w) PROVE Grows
  <2>1. CASE GiveUp(w)
    BY <2>1 DEF GiveUp, Told, Goes, Mishap
  <2>2. CASE AskAgain(w)
    BY <2>2 DEF AskAgain, Goes, CallerOnly
  <2>3. CASE InquireFails(w)
    BY <2>3 DEF InquireFails, Told, Goes, Mishap
  <2>4. CASE InventoryFails(w)
    BY <2>4 DEF InventoryFails, Ends, Moves, Mishap
  <2>5. CASE FetchFails(w)
    BY <2>5 DEF FetchFails, Preserved, Ends, Moves, Mishap
  <2>6. CASE Cancel(w)
    BY <2>6 DEF Cancel, Stops, Mishap
  <2> QED
    BY <1>3, <2>1, <2>2, <2>3, <2>4, <2>5, <2>6 DEF Happens
<1>4. CASE Advance
  BY <1>4 DEF Advance
<1>5. CASE UNCHANGED vars
  BY <1>5 DEF vars
<1> QED
  BY <1>1, <1>2, <1>3, <1>4, <1>5 DEF Next

(* Only its own steps, its start and its failures move a flight.           *)
LEMMA FlightsOwn ==
  ASSUME PullInv, [Next]_vars, NEW f \in Caller
  PROVE  \/ /\ step'[f] = step[f] /\ wants'[f] = wants[f] /\ commit'[f] = commit[f]
            /\ waited'[f] = waited[f] /\ outcome'[f] = outcome[f]
         \/ Join(f) \/ Works(f) \/ InventoryFails(f) \/ FetchFails(f)
<1> DEFINE Moved == \/ /\ step'[f] = step[f] /\ wants'[f] = wants[f] /\ commit'[f] = commit[f]
                       /\ waited'[f] = waited[f] /\ outcome'[f] = outcome[f]
                    \/ Join(f) \/ Works(f) \/ InventoryFails(f) \/ FetchFails(f)
<1> USE NamesAssumption DEF PullInv, Typed, FlightsTyped, archive, callers, flights, gate
<1>1. ASSUME NEW w \in Caller, Calls(w) PROVE Moved
  <2>1. CASE Inquire(w)
    BY <2>1 DEF Inquire, Told, Goes, Target
  <2>2. CASE AdoptFor(w)
    BY <2>2 DEF AdoptFor, Told, Goes
  <2>3. CASE Join(w)
    <3>1. CASE w = f
      BY <2>3, <3>1
    <3>2. CASE w # f
      BY <2>3, <3>2 DEF Join, Goes
    <3> QED
      BY <3>1, <3>2
  <2>4. CASE ~ Inquire(w) /\ ~ AdoptFor(w) /\ ~ Join(w)
    BY SMTT(60), <1>1, <2>4, CallersOnlyAsk DEF CallerOnly
  <2> QED
    BY <1>1, <2>1, <2>2, <2>3, <2>4
<1>2. ASSUME NEW w \in Caller, Works(w) PROVE Moved
  <2>1. CASE Register(w)
    BY <2>1, <1>2 DEF Register, Moves, Quiet
  <2>2. CASE Reconcile(w)
    BY <2>2, <1>2 DEF Reconcile, Compared, Moves, Quiet, SelectionSame, Ends, AfterReconcile
  <2>3. CASE Inventory(w)
    BY <2>3, <1>2 DEF Inventory, Moves, Quiet, Target
  <2>4. CASE Compare(w)
    BY <2>4, <1>2 DEF Compare, Compared, Moves, Quiet, SelectionSame, Ends, AfterReconcile
  <2>5. CASE Check(w)
    BY <2>5, <1>2 DEF Check, Moves, Quiet, Ends
  <2>6. CASE Enter(w)
    BY <2>6, <1>2 DEF Enter, Moves, Quiet
  <2>7. CASE Admit(w)
    BY <2>7, <1>2 DEF Admit, Moves, Quiet, Ends, AfterWait
  <2>8. CASE LeaveQueue(w)
    BY <2>8, <1>2 DEF LeaveQueue, Quiet, Ends, Moves
  <2>9. CASE Stage(w)
    BY <2>9, <1>2 DEF Stage, Moves, Quiet, Resumable
  <2>10. CASE FetchResolve(w)
    BY <2>10, <1>2 DEF FetchResolve, Moves, Quiet, Pinned, Target
  <2>11. CASE FetchDone(w)
    BY <2>11, <1>2 DEF FetchDone, Moves, Quiet, Ends
  <2>12. CASE FetchCancelled(w)
    BY <2>12, <1>2 DEF FetchCancelled, Preserved, Moves, Quiet, Ends
  <2>13. CASE Claim(w)
    BY <2>13, <1>2 DEF Claim, Preserved, Moves, Quiet, Ends, AfterClaim
  <2>14. CASE Publish(w)
    BY <2>14, <1>2 DEF Publish, Moves, Quiet
  <2>15. CASE Record(w)
    BY <2>15, <1>2 DEF Record, Moves, Quiet
  <2>16. CASE Point(w)
    BY <2>16, <1>2 DEF Point, Moves, Quiet, Ends
  <2>17. CASE NameAfter(w)
    BY <2>17, <1>2 DEF NameAfter, Moves, Quiet, Ends
  <2>18. CASE AdoptAfter(w)
    BY <2>18, <1>2 DEF AdoptAfter, Moves, Quiet, Ends
  <2>19. CASE Retire(w)
    BY <2>19, <1>2 DEF Retire, Moves, Woken
  <2> QED
    BY <1>2, <2>1, <2>2, <2>3, <2>4, <2>5, <2>6, <2>7, <2>8, <2>9, <2>10, <2>11, <2>12, <2>13,
        <2>14, <2>15, <2>16, <2>17, <2>18, <2>19 DEF Works
<1>3. ASSUME NEW w \in Caller, Happens(w) PROVE Moved
  <2>1. CASE GiveUp(w)
    BY <2>1 DEF GiveUp, Told, Goes, Mishap
  <2>2. CASE AskAgain(w)
    BY <2>2 DEF AskAgain, Goes, CallerOnly
  <2>3. CASE InquireFails(w)
    BY <2>3 DEF InquireFails, Told, Goes, Mishap
  <2>4. CASE InventoryFails(w)
    BY <2>4 DEF InventoryFails, Ends, Moves, Mishap
  <2>5. CASE FetchFails(w)
    BY <2>5 DEF FetchFails, Preserved, Ends, Moves, Mishap
  <2>6. CASE Cancel(w)
    BY <2>6 DEF Cancel, Stops, Mishap
  <2> QED
    BY <1>3, <2>1, <2>2, <2>3, <2>4, <2>5, <2>6 DEF Happens
<1>4. CASE Advance
  BY <1>4 DEF Advance
<1>5. CASE UNCHANGED vars
  BY <1>5 DEF vars
<1> QED
  BY <1>1, <1>2, <1>3, <1>4, <1>5 DEF Next

(* Only a publication adds to what is archived.                            *)
LEMMA OnlyPublishing ==
  ASSUME PullInv, [Next]_vars, held' # held
  PROVE  \E g \in Caller : Publish(g)
<1> DEFINE Pub == \E g \in Caller : Publish(g)
<1> USE NamesAssumption DEF archive, callers, flights, gate
<1>1. ASSUME NEW w \in Caller, Calls(w) PROVE Pub
  <2>1. CASE Inquire(w)
    BY <2>1 DEF Inquire, Told, Goes, Target
  <2>2. CASE AdoptFor(w)
    BY <2>2 DEF AdoptFor, Told, Goes
  <2>3. CASE Join(w)
    BY <2>3 DEF Join, Goes, Same, Running
  <2>4. CASE ~ Inquire(w) /\ ~ AdoptFor(w) /\ ~ Join(w)
    BY <1>1, <2>4, CallersOnlyAsk DEF CallerOnly
  <2> QED
    BY <1>1, <2>1, <2>2, <2>3, <2>4
<1>2. ASSUME NEW w \in Caller, Works(w) PROVE Pub
  <2>1. CASE Register(w)
    BY <2>1 DEF Register, Moves, Quiet
  <2>2. CASE Reconcile(w)
    BY <2>2 DEF Reconcile, Compared, Moves, Quiet, SelectionSame, Ends, AfterReconcile
  <2>3. CASE Inventory(w)
    BY <2>3 DEF Inventory, Moves, Quiet, Target
  <2>4. CASE Compare(w)
    BY <2>4 DEF Compare, Compared, Moves, Quiet, SelectionSame, Ends, AfterReconcile
  <2>5. CASE Check(w)
    BY <2>5 DEF Check, Moves, Quiet, Ends
  <2>6. CASE Enter(w)
    BY <2>6 DEF Enter, Moves, Quiet
  <2>7. CASE Admit(w)
    BY <2>7 DEF Admit, Moves, Quiet, Ends, AfterWait
  <2>8. CASE LeaveQueue(w)
    BY <2>8 DEF LeaveQueue, Quiet, Ends, Moves
  <2>9. CASE Stage(w)
    BY <2>9 DEF Stage, Moves, Quiet, Resumable
  <2>10. CASE FetchResolve(w)
    BY <2>10 DEF FetchResolve, Moves, Quiet, Pinned, Target
  <2>11. CASE FetchDone(w)
    BY <2>11 DEF FetchDone, Moves, Quiet, Ends
  <2>12. CASE FetchCancelled(w)
    BY <2>12 DEF FetchCancelled, Preserved, Moves, Quiet, Ends
  <2>13. CASE Claim(w)
    BY <2>13 DEF Claim, Preserved, Moves, Quiet, Ends, AfterClaim
  <2>14. CASE Publish(w)
    BY <2>14 DEF Publish, Moves, Quiet
  <2>15. CASE Record(w)
    BY <2>15 DEF Record, Moves, Quiet
  <2>16. CASE Point(w)
    BY <2>16 DEF Point, Moves, Quiet, Ends
  <2>17. CASE NameAfter(w)
    BY <2>17 DEF NameAfter, Moves, Quiet, Ends
  <2>18. CASE AdoptAfter(w)
    BY <2>18 DEF AdoptAfter, Moves, Quiet, Ends
  <2>19. CASE Retire(w)
    BY <2>19 DEF Retire, Moves, Woken
  <2> QED
    BY <1>2, <2>1, <2>2, <2>3, <2>4, <2>5, <2>6, <2>7, <2>8, <2>9, <2>10, <2>11, <2>12, <2>13,
        <2>14, <2>15, <2>16, <2>17, <2>18, <2>19 DEF Works
<1>3. ASSUME NEW w \in Caller, Happens(w) PROVE Pub
  <2>1. CASE GiveUp(w)
    BY <2>1 DEF GiveUp, Told, Goes, Mishap
  <2>2. CASE AskAgain(w)
    BY <2>2 DEF AskAgain, Goes, CallerOnly
  <2>3. CASE InquireFails(w)
    BY <2>3 DEF InquireFails, Told, Goes, Mishap
  <2>4. CASE InventoryFails(w)
    BY <2>4 DEF InventoryFails, Ends, Moves, Mishap
  <2>5. CASE FetchFails(w)
    BY <2>5 DEF FetchFails, Preserved, Ends, Moves, Mishap
  <2>6. CASE Cancel(w)
    BY <2>6 DEF Cancel, Stops, Mishap
  <2> QED
    BY <1>3, <2>1, <2>2, <2>3, <2>4, <2>5, <2>6 DEF Happens
<1>4. CASE Advance
  BY <1>4 DEF Advance
<1>5. CASE UNCHANGED vars
  BY <1>5 DEF vars
<1> QED
  BY <1>1, <1>2, <1>3, <1>4, <1>5 DEF Next

(* Who was satisfied stays so.                                             *)
LEMMA SatisfiedStays ==
  ASSUME PullInv, [Next]_vars, NEW asked \in Request, NEW told \in Outcome, Satisfied(asked, told)
  PROVE  Satisfied(asked, told)'
<1>1. told.ok => told.commit \in Commit /\ held[told.commit] \subseteq held'[told.commit]
  BY ArchiveGrows DEF Outcome
<1> QED
  BY <1>1 DEF Satisfied, Covered

(* What has been archived for a flight is what it was asked for.           *)
LEMMA ArchivedIsWanted ==
  ASSUME PullInv, NEW f \in Caller, ~ Refreshes(f), step[f] \in Archiving
  PROVE  Satisfied(req[f], Ok(commit[f]))
<1>1. commit[f] \in Commit /\ (req[f].revision \in Commit => commit[f] = req[f].revision)
  BY DEF PullInv, Typed, FlightsTyped, CommitsNamed, Claimed
<1>2. /\ Single(req[f].sel) => wants[f] = req[f].sel
      /\ req[f].revision \in Commit =>
           Covered(req[f].sel, req[f].revision) \subseteq held[req[f].revision] \cup wants[f].paths
      /\ Covered(wants[f], commit[f]) \subseteq held[commit[f]]
  BY DEF PullInv, Wanted, WantedBy, Archiving
<1>3. Ok(commit[f]).commit = commit[f]
  BY DEF Ok
<1> QED
  BY <1>1, <1>2, <1>3 DEF Satisfied, Covered

(* Where nothing is lacking, what was asked for is archived.               *)
LEMMA NothingLacks ==
  ASSUME PullInv, NEW f \in Caller, ~ Refreshes(f), step[f] # "none", NEW c \in Commit,
         req[f].revision \in Commit => c = req[f].revision, Lacking(f, c) = {}
  PROVE  Satisfied(req[f], Ok(c))
<1>1. /\ Single(req[f].sel) => wants[f] = req[f].sel
      /\ req[f].revision \in Commit =>
           Covered(req[f].sel, req[f].revision) \subseteq held[req[f].revision] \cup wants[f].paths
  BY DEF PullInv, Wanted, WantedBy
<1>2. Ok(c).commit = c
  BY DEF Ok
<1> QED
  BY <1>1, <1>2 DEF Satisfied, Covered, Lacking

(* What is lacking is what the flight wants from now on.                   *)
LEMMA LackingIsWanted ==
  ASSUME PullInv, NEW f \in Caller, ~ Refreshes(f), step[f] # "none", NEW c \in Commit,
         req[f].revision \in Commit => c = req[f].revision, Lacking(f, c) # {}
  PROVE  /\ Single(req[f].sel) => Named(Lacking(f, c)) = req[f].sel
         /\ req[f].revision \in Commit =>
              /\ Covered(req[f].sel, c) \subseteq held[c] \cup Named(Lacking(f, c)).paths
              /\ Covered(Named(Lacking(f, c)), c) \cap held[c] = {}
<1>1. /\ Single(req[f].sel) => wants[f] = req[f].sel
      /\ req[f].revision \in Commit =>
           Covered(req[f].sel, req[f].revision) \subseteq held[req[f].revision] \cup wants[f].paths
  BY DEF PullInv, Wanted, WantedBy
<1>2. Lacking(f, c) = (Files[c] \cap wants[f].paths) \ held[c]
      /\ Named(Lacking(f, c)).paths = Lacking(f, c)
  BY Narrowing DEF PullInv
<1>3. ASSUME NEW p \in Path, req[f].sel = Named({p}) PROVE Lacking(f, c) = {p}
  <2>1. wants[f] = req[f].sel
    BY <1>1, <1>3 DEF Single
  <2>2. wants[f].paths = {p}
    BY <1>3, <2>1, Selections
  <2> QED
    BY <1>2, <2>2
<1> QED
  BY ZenonT(60), <1>1, <1>2, <1>3 DEF Single, Covered

(* Comparing leads to a flight that wants what is lacking, or needs        *)
(* nothing.                                                                *)
LEMMA ComparedFlight ==
  ASSUME PullInv, [Next]_vars, NEW f \in Caller, NEW c \in Commit, Compared(f, c), step[f] # "none",
         req[f].revision \in Commit => c = req[f].revision,
         UNCHANGED <<req, held, commit, waited>>
  PROVE  WantedBy(f)' /\ RestBy(f)'
<1>1. CASE Lacking(f, c) = {}
  <2>1. step'[f] = "retiring" /\ outcome'[f] = Ok(c) /\ wants' = wants
    BY <1>1, ComparedEnds DEF PullInv, Typed, FlightsTyped
  <2>2. ~ Refreshes(f) => Satisfied(req[f], Ok(c))
    BY <1>1, NothingLacks
  <2> QED
    BY <2>1, <2>2 DEF PullInv, Wanted, WantedBy, RestBy, Refreshes, Satisfied, Archiving, Covered
<1>2. CASE Lacking(f, c) # {}
  <2>1. /\ step'[f] \in {"staging", "checking"} /\ outcome' = outcome
        /\ wants'[f] = Named(Lacking(f, c))
    BY <1>2, ComparedEnds DEF PullInv, Typed, FlightsTyped
  <2>2. ~ Refreshes(f) =>
          /\ Single(req[f].sel) => Named(Lacking(f, c)) = req[f].sel
          /\ req[f].revision \in Commit =>
               /\ Covered(req[f].sel, c) \subseteq held[c] \cup Named(Lacking(f, c)).paths
               /\ Covered(Named(Lacking(f, c)), c) \cap held[c] = {}
    BY <1>2, LackingIsWanted
  <2> QED
    BY <2>1, <2>2 DEF PullInv, Wanted, WantedBy, RestBy, Refreshes, Reconciles, Satisfied,
       Archiving,
       Covered
<1> QED
  BY <1>1, <1>2

(* A flight that starts wants what it was asked for.                       *)
LEMMA JoinedFlight ==
  ASSUME PullInv, [Next]_vars, NEW f \in Caller, Join(f)
  PROVE  WantedBy(f)' /\ RestBy(f)'
<1>1. UNCHANGED <<req, held, commit, waited, outcome>>
  BY DEF Join, archive, gate
<1>2. CASE Same(f) # {}
  <2>1. UNCHANGED <<step, wants>>
    BY <1>2 DEF Join
  <2> QED
    BY <1>1, <2>1 DEF PullInv, Wanted, RestOnly, WantedBy, RestBy, Refreshes, Reconciles,
       Satisfied,
       Covered
<1>3. CASE Same(f) = {}
  <2>1. step[f] = "none" /\ ~ outcome[f].ok
    BY <1>3 DEF Same, Running, PullInv, ClaimsFirst
  <2>2. step'[f] = "registering" /\ wants'[f] = req[f].sel
    BY SMTT(60), <1>3 DEF Join, PullInv, Typed, FlightsTyped
  <2> QED
    BY <1>1, <2>1, <2>2 DEF WantedBy, RestBy, Refreshes, Satisfied, Archiving, Covered
<1> QED
  BY <1>2, <1>3

(* A step of a flight that is no refresh keeps what it is for.             *)
LEMMA WantedFlight ==
  ASSUME PullInv, [Next]_vars, NEW w \in Caller,
         Works(w) \/ InventoryFails(w) \/ FetchFails(w)
  PROVE  WantedBy(w)'
<1> USE DEF PullInv, Typed, FlightsTyped, Wanted, WantedBy, Refreshes, Satisfied, Covered,
    Archiving, archive, callers, flights, gate
<1>1. CASE Register(w)
  BY <1>1 DEF Register, Moves, Quiet
<1>2. CASE Reconcile(w)
  <2>1. PublishedCommit(req[w].revision) \in Commit \cup {None}
    BY Requests, PublishedNames DEF PublishedCommit
  <2>2. req[w].revision \in Commit /\ PublishedCommit(req[w].revision) # None => PublishedCommit(req[w].revision) = req[w].revision
    BY SMTT(60), Requests, PublishedNames DEF PublishedCommit
  <2>3. ASSUME NEW c \in Commit, c = PublishedCommit(req[w].revision), Compared(w, c)
        PROVE  WantedBy(w)'
    <3>1. step[w] # "none" /\ UNCHANGED <<req, held, commit, waited>>
      BY <1>2 DEF Reconcile, Quiet
    <3> QED
      BY <2>2, <2>3, <3>1, ComparedFlight, NamesAssumption
  <2>4. ASSUME ~ (PublishedCommit(req[w].revision) \in Commit /\ Compared(w, PublishedCommit(req[w].revision)))
        PROVE  WantedBy(w)'
    BY SMTT(60), <1>2, <2>1, <2>2, <2>4, Outcomes DEF Reconcile, Quiet, SelectionSame, Ends,
       Moves, AfterReconcile
  <2> QED
    BY <1>2, <2>1, <2>3, <2>4
<1>3. CASE Inventory(w)
  BY <1>3 DEF Inventory, Moves, Quiet, Target
<1>4. CASE Compare(w)
  <2>1. found[w] \in Commit
    BY <1>4 DEF Compare, CommitsNamed
  <2>2. req[w].revision \in Commit /\ found[w] # None => found[w] = req[w].revision
    BY <1>4 DEF Compare, CommitsNamed
  <2>3. ASSUME NEW c \in Commit, c = found[w], Compared(w, c) PROVE WantedBy(w)'
    <3>1. step[w] # "none" /\ UNCHANGED <<req, held, commit, waited>>
      BY <1>4 DEF Compare, Quiet
    <3> QED
      BY <2>2, <2>3, <3>1, ComparedFlight, NamesAssumption
  <2>4. ASSUME ~ (found[w] \in Commit /\ Compared(w, found[w])) PROVE WantedBy(w)'
    BY <1>4, <2>1, <2>2, <2>4, Outcomes DEF Compare, Quiet, SelectionSame, Ends, Moves,
       AfterReconcile
  <2> QED
    BY <1>4, <2>1, <2>3, <2>4
<1>5. CASE Check(w)
  <2>1. \/ step'[w] = "entering" /\ outcome' = outcome
        \/ /\ step'[w] = "retiring" /\ outcome'[w] = Ok(ref) /\ req[w].revision = Main
           /\ ref # None /\ Ready(ref, Required(wants[w]))
    BY <1>5 DEF Check, Moves, Ends
  <2>2. UNCHANGED <<req, held, wants, commit>> /\ step[w] = "checking"
    BY <1>5 DEF Check, Quiet
  <2>3. ASSUME Ready(ref, Required(wants[w])), Single(wants[w])
        PROVE  Covered(wants[w], ref) \subseteq held[ref]
    <3>1. PICK p \in Path : wants[w] = Named({p})
      BY <2>3 DEF Single
    <3>2. Required(wants[w]) = {p} /\ wants[w].paths = {p}
      BY <3>1, Selections DEF Required
    <3> QED
      BY <2>3, <3>2 DEF Ready
  <2>4. Ok(ref).commit = ref
    BY DEF Ok
  <2> QED
    BY <2>1, <2>2, <2>3, <2>4, NamesAssumption
<1>6. CASE Enter(w)
  BY SMTT(60), <1>6 DEF Enter, Moves, Quiet
<1>7. CASE Admit(w)
  BY SMTT(60), <1>7, Outcomes DEF Admit, Moves, Quiet, Ends, AfterWait
<1>8. CASE LeaveQueue(w)
  BY <1>8, Outcomes DEF LeaveQueue, Quiet, Ends, Moves
<1>9. CASE Stage(w)
  BY <1>9 DEF Stage, Moves, Quiet, Resumable
<1>10. CASE FetchResolve(w)
  BY <1>10 DEF FetchResolve, Moves, Quiet, Pinned, Target
<1>11. CASE FetchDone(w)
  BY <1>11, Outcomes DEF FetchDone, Moves, Quiet, Ends
<1>12. CASE FetchCancelled(w)
  BY <1>12, Outcomes DEF FetchCancelled, Preserved, Moves, Quiet, Ends
<1>13. CASE Claim(w)
  BY SMTT(60), <1>13, Outcomes DEF Claim, Preserved, Moves, Quiet, Ends, AfterClaim
<1>14. CASE Publish(w)
  BY <1>14 DEF Publish, Moves, Quiet, CommitsNamed, Claimed, Archiving, ArchiveTyped, Extended
<1>15. CASE Record(w)
  BY <1>15 DEF Record, Moves, Quiet
<1>16. CASE Point(w)
  BY <1>16, ArchivedIsWanted DEF Point, Moves, Quiet, Ends
<1>17. CASE NameAfter(w)
  BY SMTT(60), <1>17, ArchivedIsWanted DEF NameAfter, Moves, Quiet, Ends
<1>18. CASE AdoptAfter(w)
  BY <1>18, ArchivedIsWanted DEF AdoptAfter, Moves, Quiet, Ends
<1>19. CASE Retire(w)
  BY SMTT(60), <1>19 DEF Retire, Moves, Woken
<1>20. CASE InventoryFails(w)
  BY <1>20, Outcomes DEF InventoryFails, Ends, Moves, Mishap
<1>21. CASE FetchFails(w)
  BY SMTT(60), <1>21, Outcomes DEF FetchFails, Preserved, Ends, Moves, Mishap
<1> QED
  BY <1>1, <1>2, <1>3, <1>4, <1>5, <1>6, <1>7, <1>8, <1>9, <1>10, <1>11, <1>12, <1>13, <1>14,
      <1>15, <1>16, <1>17, <1>18, <1>19, <1>20, <1>21 DEF Works

(* What a flight of a prefetch that waited wants is not archived.          *)
LEMMA RestFlight ==
  ASSUME PullInv, [Next]_vars, NEW w \in Caller,
         Works(w) \/ InventoryFails(w) \/ FetchFails(w)
  PROVE  RestBy(w)'
<1> USE DEF PullInv, Typed, FlightsTyped, RestOnly, RestBy, Reconciles, Covered, archive,
    callers, flights, gate
<1>1. CASE Register(w)
  BY <1>1 DEF Register, Moves, Quiet
<1>2. CASE Reconcile(w)
  <2>1. PublishedCommit(req[w].revision) \in Commit \cup {None}
    BY Requests, PublishedNames DEF PublishedCommit
  <2>2. req[w].revision \in Commit /\ PublishedCommit(req[w].revision) # None => PublishedCommit(req[w].revision) = req[w].revision
    BY Requests, PublishedNames DEF PublishedCommit
  <2>3. ASSUME NEW c \in Commit, c = PublishedCommit(req[w].revision), Compared(w, c)
        PROVE  RestBy(w)'
    <3>1. step[w] # "none" /\ UNCHANGED <<req, held, commit, waited>>
      BY <1>2 DEF Reconcile, Quiet
    <3> QED
      BY <2>2, <2>3, <3>1, ComparedFlight, NamesAssumption
  <2>5. req[w].revision \in Commit /\ step'[w] \in {"staging", "resolving", "fetching"}
          /\ ~ (PublishedCommit(req[w].revision) \in Commit /\ Compared(w, PublishedCommit(req[w].revision))) => held[req[w].revision] = {}
    BY <1>2, <2>1, <2>2, Requests, NamesAssumption DEF Reconcile, Moves, Ends, Published,
       PublishedCommit
  <2>4. ASSUME ~ (PublishedCommit(req[w].revision) \in Commit /\ Compared(w, PublishedCommit(req[w].revision)))
        PROVE  RestBy(w)'
    BY <1>2, <2>1, <2>2, <2>4, <2>5, Outcomes DEF Reconcile, Quiet, SelectionSame, Ends, Moves,
       AfterReconcile
  <2> QED
    BY <1>2, <2>1, <2>3, <2>4
<1>3. CASE Inventory(w)
  BY <1>3 DEF Inventory, Moves, Quiet, Target
<1>4. CASE Compare(w)
  <2>1. found[w] \in Commit
    BY <1>4 DEF Compare, CommitsNamed
  <2>2. req[w].revision \in Commit /\ found[w] # None => found[w] = req[w].revision
    BY <1>4 DEF Compare, CommitsNamed
  <2>3. ASSUME NEW c \in Commit, c = found[w], Compared(w, c) PROVE RestBy(w)'
    <3>1. step[w] # "none" /\ UNCHANGED <<req, held, commit, waited>>
      BY <1>4 DEF Compare, Quiet
    <3> QED
      BY <2>2, <2>3, <3>1, ComparedFlight, NamesAssumption
  <2>5. req[w].revision \in Commit /\ step'[w] \in {"staging", "resolving", "fetching"}
          /\ ~ (found[w] \in Commit /\ Compared(w, found[w])) => held[req[w].revision] = {}
    BY SMTT(60), <1>4, <2>1, <2>2, Requests, NamesAssumption DEF Compare, Moves, Ends, Published,
       PublishedCommit
  <2>4. ASSUME ~ (found[w] \in Commit /\ Compared(w, found[w])) PROVE RestBy(w)'
    BY <1>4, <2>1, <2>2, <2>4, <2>5, Outcomes DEF Compare, Quiet, SelectionSame, Ends, Moves,
       AfterReconcile
  <2> QED
    BY <1>4, <2>1, <2>3, <2>4
<1>5. CASE Check(w)
  BY <1>5, Outcomes DEF Check, Moves, Quiet, Ends
<1>6. CASE Enter(w)
  BY <1>6 DEF Enter, Moves, Quiet
<1>7. CASE Admit(w)
  BY <1>7, Outcomes DEF Admit, Moves, Quiet, Ends, AfterWait
<1>8. CASE LeaveQueue(w)
  BY <1>8, Outcomes DEF LeaveQueue, Quiet, Ends, Moves
<1>9. CASE Stage(w)
  BY <1>9 DEF Stage, Moves, Quiet, Resumable
<1>10. CASE FetchResolve(w)
  BY <1>10 DEF FetchResolve, Moves, Quiet, Pinned, Target
<1>11. CASE FetchDone(w)
  BY <1>11, Outcomes DEF FetchDone, Moves, Quiet, Ends
<1>12. CASE FetchCancelled(w)
  BY <1>12, Outcomes DEF FetchCancelled, Preserved, Moves, Quiet, Ends
<1>13. CASE Claim(w)
  BY <1>13, Outcomes DEF Claim, Preserved, Moves, Quiet, Ends, AfterClaim
<1>14. CASE Publish(w)
  BY <1>14 DEF Publish, Moves, Quiet, CommitsNamed, Claimed, Archiving, ArchiveTyped, Extended
<1>15. CASE Record(w)
  BY <1>15 DEF Record, Moves, Quiet
<1>16. CASE Point(w)
  BY <1>16 DEF Point, Moves, Quiet, Ends
<1>17. CASE NameAfter(w)
  BY <1>17 DEF NameAfter, Moves, Quiet, Ends
<1>18. CASE AdoptAfter(w)
  BY <1>18 DEF AdoptAfter, Moves, Quiet, Ends
<1>19. CASE Retire(w)
  BY <1>19 DEF Retire, Moves, Woken
<1>20. CASE InventoryFails(w)
  BY <1>20, Outcomes DEF InventoryFails, Ends, Moves, Mishap
<1>21. CASE FetchFails(w)
  BY <1>21, Outcomes DEF FetchFails, Preserved, Ends, Moves, Mishap
<1> QED
  BY <1>1, <1>2, <1>3, <1>4, <1>5, <1>6, <1>7, <1>8, <1>9, <1>10, <1>11, <1>12, <1>13, <1>14,
      <1>15, <1>16, <1>17, <1>18, <1>19, <1>20, <1>21 DEF Works

(* Nobody else publishes while a flight has the slot.                      *)
LEMMA RestNext ==
  ASSUME PullInv, [Next]_vars
  PROVE  RestOnly'
<1> SUFFICES ASSUME NEW f \in Caller PROVE RestBy(f)'
  BY DEF RestOnly
<1>1. req' = req
  BY ArchiveGrows
<1>2. CASE Join(f) \/ Works(f) \/ InventoryFails(f) \/ FetchFails(f)
  BY <1>2, JoinedFlight, RestFlight
<1>3. CASE ~ (Join(f) \/ Works(f) \/ InventoryFails(f) \/ FetchFails(f))
  <2>1. /\ step'[f] = step[f] /\ wants'[f] = wants[f] /\ commit'[f] = commit[f]
        /\ waited'[f] = waited[f] /\ outcome'[f] = outcome[f]
    BY <1>3, FlightsOwn
  <2>2. CASE held' = held
    BY <1>1, <2>1, <2>2 DEF PullInv, RestOnly, RestBy, Reconciles, Covered
  <2>3. CASE held' # held
    <3>1. PICK g \in Caller : Publish(g)
      BY <2>3, OnlyPublishing
    <3>2. slot = g /\ g # f
      BY <1>3, <3>1 DEF Works, Publish, PullInv, SlotHeld, Transferring, Claimed
    <3> QED
      BY <2>1, <3>2 DEF PullInv, SlotHeld, Transferring, RestBy
  <2> QED
    BY <2>2, <2>3
<1> QED
  BY <1>2, <1>3

(* A flight keeps what it is for, whoever takes the step.                 *)
LEMMA WantedNext ==
  ASSUME PullInv, [Next]_vars
  PROVE  Wanted'
<1> SUFFICES ASSUME NEW f \in Caller PROVE WantedBy(f)'
  BY DEF Wanted
<1>1. req' = req /\ \A c \in Commit : held[c] \subseteq held'[c]
  BY ArchiveGrows
<1>2. CASE Join(f) \/ Works(f) \/ InventoryFails(f) \/ FetchFails(f)
  BY <1>2, JoinedFlight, WantedFlight
<1>3. CASE ~ (Join(f) \/ Works(f) \/ InventoryFails(f) \/ FetchFails(f))
  <2>1. /\ step'[f] = step[f] /\ wants'[f] = wants[f] /\ commit'[f] = commit[f]
        /\ waited'[f] = waited[f] /\ outcome'[f] = outcome[f]
    BY <1>3, FlightsOwn
  <2>2. ASSUME step[f] # "none", ~ Refreshes(f) PROVE Satisfied(req[f], outcome[f])'
    <3>1. Satisfied(req[f], outcome[f]) /\ req[f] \in Request /\ outcome[f] \in Outcome
      BY <2>2 DEF PullInv, Wanted, WantedBy, Typed, CallersTyped, FlightsTyped
    <3>2. PICK asked \in Request : asked = req[f]
      BY <3>1
    <3>3. PICK told \in Outcome : told = outcome[f]
      BY <3>1
    <3>4. Satisfied(asked, told)'
      BY <3>1, <3>2, <3>3, SatisfiedStays
    <3> QED
      BY <1>1, <2>1, <3>2, <3>3, <3>4 DEF Satisfied, Covered
  <2>3. step[f] \in Archiving => commit[f] \in Commit
    BY DEF PullInv, Typed, FlightsTyped, CommitsNamed, Claimed
  <2> QED
    BY <1>1, <2>1, <2>2, <2>3 DEF PullInv, Wanted, WantedBy, Refreshes, Covered
<1> QED
  BY <1>2, <1>3

(* Only its own calls and the flight it waits for move a caller.           *)
LEMMA CallersOwn ==
  ASSUME PullInv, [Next]_vars, NEW v \in Caller
  PROVE  \/ at'[v] = at[v] /\ answer'[v] = answer[v]
         \/ Calls(v) \/ GiveUp(v) \/ AskAgain(v) \/ InquireFails(v)
         \/ \E f \in Caller : Retire(f) /\ v \in Woken(f)
<1> DEFINE Moved == \/ at'[v] = at[v] /\ answer'[v] = answer[v]
                    \/ Calls(v) \/ GiveUp(v) \/ AskAgain(v) \/ InquireFails(v)
                    \/ \E f \in Caller : Retire(f) /\ v \in Woken(f)
<1> USE NamesAssumption DEF PullInv, Typed, CallersTyped, archive, callers, flights, gate
<1>1. ASSUME NEW w \in Caller, Calls(w) PROVE Moved
  <2>1. CASE Ask(w)
    BY <2>1, <1>1 DEF Ask, Goes, CallerOnly
  <2>2. CASE LookUp(w)
    BY <2>2, <1>1 DEF LookUp, Told, Goes, CallerOnly
  <2>3. CASE Describe(w)
    BY <2>3, <1>1 DEF Describe, Told, Goes, CallerOnly
  <2>4. CASE Inquire(w)
    BY <2>4, <1>1 DEF Inquire, Told, Goes, Target
  <2>5. CASE Name(w)
    BY <2>5, <1>1 DEF Name, Told, Goes, CallerOnly
  <2>6. CASE AdoptFor(w)
    BY <2>6, <1>1 DEF AdoptFor, Told, Goes
  <2>7. CASE Ensure(w)
    BY <2>7, <1>1 DEF Ensure, Goes, CallerOnly
  <2>8. CASE Join(w)
    BY <2>8, <1>1 DEF Join, Goes, Same, Running
  <2>9. CASE Served(w)
    BY <2>9, <1>1 DEF Served, Told, Goes, CallerOnly
  <2> QED
    BY <1>1, <2>1, <2>2, <2>3, <2>4, <2>5, <2>6, <2>7, <2>8, <2>9 DEF Calls
<1>2. ASSUME NEW w \in Caller, Works(w) PROVE Moved
  <2>1. CASE Retire(w)
    BY <2>1 DEF Retire, Moves, Woken
  <2>2. CASE ~ Retire(w)
    BY <1>2, <2>2, FlightsAreQuiet DEF Quiet
  <2> QED
    BY <1>2, <2>1, <2>2
<1>3. ASSUME NEW w \in Caller, Happens(w) PROVE Moved
  <2>1. CASE GiveUp(w)
    BY <2>1 DEF GiveUp, Told, Goes, Mishap
  <2>2. CASE AskAgain(w)
    BY <2>2 DEF AskAgain, Goes, CallerOnly
  <2>3. CASE InquireFails(w)
    BY <2>3 DEF InquireFails, Told, Goes, Mishap
  <2>4. CASE InventoryFails(w)
    BY <2>4 DEF InventoryFails, Ends, Moves, Mishap
  <2>5. CASE FetchFails(w)
    BY <2>5 DEF FetchFails, Preserved, Ends, Moves, Mishap
  <2>6. CASE Cancel(w)
    BY <2>6 DEF Cancel, Stops, Mishap
  <2> QED
    BY <1>3, <2>1, <2>2, <2>3, <2>4, <2>5, <2>6 DEF Happens
<1>4. CASE Advance
  BY <1>4 DEF Advance
<1>5. CASE UNCHANGED vars
  BY <1>5 DEF vars
<1> QED
  BY <1>1, <1>2, <1>3, <1>4, <1>5 DEF Next

(* Whoever was told was told right, and stays so.                          *)
LEMMA AnsweredNext ==
  ASSUME PullInv, [Next]_vars
  PROVE  Answered'
<1> SUFFICES ASSUME NEW v \in Caller PROVE AnsweredRight(v)'
  BY DEF Answered
<1> USE DEF PullInv, Typed, CallersTyped
<1>1. req' = req
  BY ArchiveGrows
<1>r. req[v] \in Request /\ answer[v] \in Outcome
  OBVIOUS
<1>2. CASE at'[v] = at[v] /\ answer'[v] = answer[v]
  <2>1. ASSUME Satisfied(req[v], answer[v]) PROVE Satisfied(req[v], answer[v])'
    <3>1. PICK asked \in Request : asked = req[v]
      BY <1>r
    <3>2. PICK told \in Outcome : told = answer[v]
      BY <1>r
    <3>3. Satisfied(asked, told)'
      BY <2>1, <3>1, <3>2, SatisfiedStays
    <3> QED
      BY <1>1, <1>2, <3>1, <3>2, <3>3 DEF Satisfied, Covered
  <2> QED
    BY <1>1, <1>2, <2>1 DEF Answered, AnsweredRight
<1>3. CASE Calls(v)
  <2>1. CASE Ask(v) \/ Join(v)
    <3>1. at'[v] \notin {"woken", "answered"}
      BY <2>1 DEF Ask, Join, Goes
    <3> QED
      BY <3>1 DEF AnsweredRight
  <2>2. CASE Describe(v) \/ Inquire(v) \/ Name(v) \/ AdoptFor(v)
    <3>1. req[v].op = "metadata"
      BY <2>2 DEF Describe, Inquire, Name, AdoptFor, OwnWay
    <3> QED
      BY <1>1, <3>1 DEF AnsweredRight
  <2>3. CASE LookUp(v) \/ Ensure(v)
    <3> DEFINE c == Resolved(req[v].revision)
    <3>1. held' = held /\ req[v].op \in {"file", "metadata"}
      BY <2>3 DEF LookUp, Ensure, CallerOnly, archive, OwnWay
    <3>2. \/ at'[v] \notin {"woken", "answered"}
          \/ /\ c # None /\ answer'[v] = Ok(c)
             /\ PathOf(v) \in held[c] \/ Ready(c, Required(req[v].sel))
      BY <2>3 DEF LookUp, Ensure, Told, Goes
    <3>3. c \in Commit \cup {None} /\ (req[v].revision \in Commit => c = req[v].revision)
      BY Requests
    <3>4. req[v].op = "file" => PathOf(v) \in Path /\ req[v].sel = Named({PathOf(v)})
      BY FilesAskedFor
    <3>5. ASSUME req[v].op = "file", c # None, PathOf(v) \in held[c] \/ Ready(c, Required(req[v].sel))
          PROVE  Covered(req[v].sel, c) \subseteq held[c]
      <4>1. Required(req[v].sel) = {PathOf(v)} /\ req[v].sel.paths = {PathOf(v)}
        BY <3>4, <3>5, Selections DEF Required
      <4> QED
        BY <3>5, <4>1 DEF Ready, Covered
    <3>6. Ok(c).commit = c
      BY DEF Ok
    <3> QED
      BY <1>1, <3>1, <3>2, <3>3, <3>5, <3>6 DEF AnsweredRight, Satisfied, Covered
  <2>4. CASE Served(v)
    <3>1. /\ held' = held /\ at[v] = "woken"
          /\ answer'[v] = answer[v] \/ answer'[v] = Err("not_found")
      BY <2>4 DEF Served, CallerOnly, archive, Told, Goes
    <3> QED
      BY <1>1, <3>1 DEF Answered, AnsweredRight, Satisfied, Covered, Err
  <2> QED
    BY <1>3, <2>1, <2>2, <2>3, <2>4 DEF Calls
<1>4. CASE GiveUp(v) \/ AskAgain(v) \/ InquireFails(v)
  <2>1. ~ answer'[v].ok
    BY <1>4, Outcomes DEF GiveUp, AskAgain, InquireFails, Told, Goes, NoOutcome
  <2> QED
    BY <2>1 DEF AnsweredRight, Satisfied
<1>5. ASSUME NEW f \in Caller, Retire(f), v \in Woken(f) PROVE AnsweredRight(v)'
  <2>1. /\ step[f] = "retiring" /\ held' = held /\ answer'[v] = outcome[f]
        /\ Key(req[f]) = Key(req[v])
    BY <1>5 DEF Retire, Woken, archive, OwnWay
  <2>2. ASSUME req[v].op \in {"file", "prefetch"}
        PROVE  ~ Refreshes(f) /\ req[f].revision = req[v].revision /\ req[f].sel = req[v].sel
    BY <2>1, <2>2 DEF Key, Refreshes
  <2>3. ~ Refreshes(f) => Satisfied(req[f], outcome[f])
    BY <2>1 DEF Wanted, WantedBy
  <2> QED
    BY <1>1, <2>1, <2>2, <2>3 DEF AnsweredRight, Satisfied, Covered
<1> QED
  BY <1>2, <1>3, <1>4, <1>5, CallersOwn

(* Who is about to adopt the name the archive lacks goes on until it has.  *)
LEMMA LearnsStays ==
  ASSUME PullInv, [Next]_vars, NEW u \in Caller, Learns(u, named), Published(named), ref = None,
         named \in Commit
  PROVE  Learns(u, named)' \/ named' # named \/ ref' # None
<1> DEFINE Stays == Learns(u, named)' \/ named' # named \/ ref' # None
<1> USE NamesAssumption DEF PullInv, Typed, FlightsTyped, CallersTyped, Learns, Archiving,
    archive, callers, flights, gate
<1>1. ASSUME NEW w \in Caller, Calls(w) PROVE Stays
  <2>1. CASE Ask(w)
    BY <2>1 DEF Ask, Goes, CallerOnly
  <2>2. CASE LookUp(w)
    BY <2>2 DEF LookUp, Told, Goes, CallerOnly
  <2>3. CASE Describe(w)
    BY <2>3 DEF Describe, Told, Goes, CallerOnly
  <2>4. CASE Inquire(w)
    BY <2>4 DEF Inquire, Told, Goes, Target
  <2>5. CASE Name(w)
    BY <2>5 DEF Name, Told, Goes, CallerOnly, Adoptive
  <2>6. CASE AdoptFor(w)
    BY <2>6 DEF AdoptFor, Told, Goes, Adopted
  <2>7. CASE Ensure(w)
    BY <2>7 DEF Ensure, Goes, CallerOnly
  <2>8. CASE Join(w)
    BY <2>8 DEF Join, Goes, Same, Running
  <2>9. CASE Served(w)
    BY <2>9 DEF Served, Told, Goes, CallerOnly
  <2> QED
    BY <1>1, <2>1, <2>2, <2>3, <2>4, <2>5, <2>6, <2>7, <2>8, <2>9 DEF Calls
<1>2. ASSUME NEW w \in Caller, Works(w) PROVE Stays
  <2>1. CASE Register(w)
    BY <2>1 DEF Register, Moves, Quiet
  <2>2. CASE Reconcile(w)
    BY <2>2 DEF Reconcile, Compared, Moves, Quiet, SelectionSame, Ends, AfterReconcile
  <2>3. CASE Inventory(w)
    BY <2>3 DEF Inventory, Moves, Quiet, Target, Reconciles, OwnWay, ClaimsFirst, Comparing
  <2>4. CASE Compare(w)
    BY <2>4 DEF Compare, Compared, Moves, Quiet, SelectionSame, Ends, AfterReconcile
  <2>5. CASE Check(w)
    BY <2>5 DEF Check, Moves, Quiet, Ends
  <2>6. CASE Enter(w)
    BY <2>6 DEF Enter, Moves, Quiet
  <2>7. CASE Admit(w)
    BY <2>7 DEF Admit, Moves, Quiet, Ends, AfterWait
  <2>8. CASE LeaveQueue(w)
    BY <2>8 DEF LeaveQueue, Quiet, Ends, Moves
  <2>9. CASE Stage(w)
    BY <2>9 DEF Stage, Moves, Quiet, Resumable
  <2>10. CASE FetchResolve(w)
    BY <2>10 DEF FetchResolve, Moves, Quiet, Pinned, Target
  <2>11. CASE FetchDone(w)
    BY <2>11 DEF FetchDone, Moves, Quiet, Ends
  <2>12. CASE FetchCancelled(w)
    BY <2>12 DEF FetchCancelled, Preserved, Moves, Quiet, Ends
  <2>13. CASE Claim(w)
    BY <2>13 DEF Claim, Preserved, Moves, Quiet, Ends, AfterClaim
  <2>14. CASE Publish(w)
    BY <2>14 DEF Publish, Moves, Quiet
  <2>15. CASE Record(w)
    BY <2>15 DEF Record, Moves, Quiet
  <2>16. CASE Point(w)
    BY <2>16 DEF Point, Moves, Quiet, Ends, CommitsNamed, Claimed, Archiving
  <2>17. CASE NameAfter(w)
    BY <2>17 DEF NameAfter, Moves, Quiet, Ends, Adoptive
  <2>18. CASE AdoptAfter(w)
    BY <2>18 DEF AdoptAfter, Moves, Quiet, Ends, CommitsNamed, Claimed, Archiving
  <2>19. CASE Retire(w)
    BY <2>19 DEF Retire, Moves, Woken, OwnWay
  <2> QED
    BY <1>2, <2>1, <2>2, <2>3, <2>4, <2>5, <2>6, <2>7, <2>8, <2>9, <2>10, <2>11, <2>12, <2>13,
        <2>14, <2>15, <2>16, <2>17, <2>18, <2>19 DEF Works
<1>3. ASSUME NEW w \in Caller, Happens(w) PROVE Stays
  <2>1. CASE GiveUp(w)
    BY <2>1 DEF GiveUp, Told, Goes, Mishap
  <2>2. CASE AskAgain(w)
    BY <2>2 DEF AskAgain, Goes, CallerOnly
  <2>3. CASE InquireFails(w)
    BY <2>3 DEF InquireFails, Told, Goes, Mishap
  <2>4. CASE InventoryFails(w)
    BY <2>4 DEF InventoryFails, Ends, Moves, Mishap
  <2>5. CASE FetchFails(w)
    BY <2>5 DEF FetchFails, Preserved, Ends, Moves, Mishap
  <2>6. CASE Cancel(w)
    BY <2>6 DEF Cancel, Stops, Mishap
  <2> QED
    BY <1>3, <2>1, <2>2, <2>3, <2>4, <2>5, <2>6 DEF Happens
<1>4. CASE Advance
  BY <1>4 DEF Advance
<1>5. CASE UNCHANGED vars
  BY <1>5 DEF vars
<1> QED
  BY <1>1, <1>2, <1>3, <1>4, <1>5 DEF Next

(* Only an answer of upstream names a commit.                              *)
LEMMA OnlyInquiring ==
  ASSUME PullInv, [Next]_vars, named' # named
  PROVE  \E w \in Caller : Inquire(w)
<1> DEFINE Inq == \E w \in Caller : Inquire(w)
<1> USE NamesAssumption DEF archive, callers, flights, gate
<1>1. ASSUME NEW w \in Caller, Calls(w) PROVE Inq
  <2>1. CASE Ask(w)
    BY <2>1 DEF Ask, Goes, CallerOnly
  <2>2. CASE LookUp(w)
    BY <2>2 DEF LookUp, Told, Goes, CallerOnly
  <2>3. CASE Describe(w)
    BY <2>3 DEF Describe, Told, Goes, CallerOnly
  <2>4. CASE Inquire(w)
    BY <2>4 DEF Inquire, Told, Goes, Target
  <2>5. CASE Name(w)
    BY <2>5 DEF Name, Told, Goes, CallerOnly
  <2>6. CASE AdoptFor(w)
    BY <2>6 DEF AdoptFor, Told, Goes
  <2>7. CASE Ensure(w)
    BY <2>7 DEF Ensure, Goes, CallerOnly
  <2>8. CASE Join(w)
    BY <2>8 DEF Join, Goes, Same, Running
  <2>9. CASE Served(w)
    BY <2>9 DEF Served, Told, Goes, CallerOnly
  <2> QED
    BY <1>1, <2>1, <2>2, <2>3, <2>4, <2>5, <2>6, <2>7, <2>8, <2>9 DEF Calls
<1>2. ASSUME NEW w \in Caller, Works(w) PROVE Inq
  <2>1. CASE Retire(w)
    BY <2>1 DEF Retire, Moves, Woken
  <2>2. CASE ~ Retire(w)
    BY <1>2, <2>2, FlightsAreQuiet DEF Quiet
  <2> QED
    BY <1>2, <2>1, <2>2
<1>3. ASSUME NEW w \in Caller, Happens(w) PROVE Inq
  <2>1. CASE GiveUp(w)
    BY <2>1 DEF GiveUp, Told, Goes, Mishap
  <2>2. CASE AskAgain(w)
    BY <2>2 DEF AskAgain, Goes, CallerOnly
  <2>3. CASE InquireFails(w)
    BY <2>3 DEF InquireFails, Told, Goes, Mishap
  <2>4. CASE InventoryFails(w)
    BY <2>4 DEF InventoryFails, Ends, Moves, Mishap
  <2>5. CASE FetchFails(w)
    BY <2>5 DEF FetchFails, Preserved, Ends, Moves, Mishap
  <2>6. CASE Cancel(w)
    BY <2>6 DEF Cancel, Stops, Mishap
  <2> QED
    BY <1>3, <2>1, <2>2, <2>3, <2>4, <2>5, <2>6 DEF Happens
<1>4. CASE Advance
  BY <1>4 DEF Advance
<1>5. CASE UNCHANGED vars
  BY <1>5 DEF vars
<1> QED
  BY <1>1, <1>2, <1>3, <1>4, <1>5 DEF Next

(* A flight that was cancelled has staged nothing, or ends in vain.        *)
LEMMA CancelledFlight ==
  ASSUME PullInv, [Next]_vars, NEW w \in Caller,
         Works(w) \/ InventoryFails(w) \/ FetchFails(w), token[w] = "cancelled"
  PROVE  UNCHANGED archive /\ (outcome'[w].ok => commit[w] = None)
<1> DEFINE Spared == UNCHANGED archive /\ (outcome'[w].ok => commit[w] = None)
<1> USE DEF PullInv, Typed, FlightsTyped, CommitsNamed, Early, ClaimsFirst, Claimed, Archiving,
    Spared, archive, callers, flights, gate
<1>1. CASE Register(w)
  BY <1>1 DEF Register, Moves, Quiet
<1>2. CASE Reconcile(w)
  BY <1>2 DEF Reconcile, Compared, Moves, Quiet, SelectionSame, Ends, AfterReconcile
<1>3. CASE Inventory(w)
  BY <1>3 DEF Inventory, Moves, Quiet, Target
<1>4. CASE Compare(w)
  BY <1>4 DEF Compare, Compared, Moves, Quiet, SelectionSame, Ends, AfterReconcile
<1>5. CASE Check(w)
  BY <1>5, Outcomes DEF Check, Moves, Quiet, Ends
<1>6. CASE Enter(w)
  BY <1>6 DEF Enter, Moves, Quiet
<1>7. CASE Admit(w)
  BY <1>7, Outcomes DEF Admit, Moves, Quiet, Ends, AfterWait
<1>8. CASE LeaveQueue(w)
  BY <1>8, Outcomes DEF LeaveQueue, Quiet, Ends, Moves
<1>9. CASE Stage(w)
  BY <1>9 DEF Stage, Moves, Quiet, Resumable
<1>10. CASE FetchResolve(w)
  BY <1>10 DEF FetchResolve, Moves, Quiet, Pinned, Target
<1>11. CASE FetchDone(w)
  BY <1>11, Outcomes DEF FetchDone, Moves, Quiet, Ends
<1>12. CASE FetchCancelled(w)
  BY <1>12, Outcomes DEF FetchCancelled, Preserved, Moves, Quiet, Ends
<1>13. CASE Claim(w)
  BY <1>13, Outcomes DEF Claim, Preserved, Moves, Quiet, Ends, AfterClaim, Wins
<1>14. CASE Publish(w)
  BY <1>14 DEF Publish, Moves, Quiet
<1>15. CASE Record(w)
  BY <1>15 DEF Record, Moves, Quiet
<1>16. CASE Point(w)
  BY <1>16 DEF Point, Moves, Quiet, Ends
<1>17. CASE NameAfter(w)
  BY <1>17 DEF NameAfter, Moves, Quiet, Ends
<1>18. CASE AdoptAfter(w)
  BY <1>18 DEF AdoptAfter, Moves, Quiet, Ends
<1>19. CASE Retire(w)
  BY <1>19, Outcomes DEF Retire, Moves, Woken
<1>20. CASE InventoryFails(w)
  BY <1>20, Outcomes DEF InventoryFails, Ends, Moves, Mishap
<1>21. CASE FetchFails(w)
  BY <1>21, Outcomes DEF FetchFails, Preserved, Ends, Moves, Mishap
<1> QED
  BY <1>1, <1>2, <1>3, <1>4, <1>5, <1>6, <1>7, <1>8, <1>9, <1>10, <1>11, <1>12, <1>13, <1>14,
      <1>15, <1>16, <1>17, <1>18, <1>19, <1>20, <1>21 DEF Works

(* What is published, or named, anew is named by somebody who will adopt   *)
(* it.                                                                     *)
LEMMA LearningNext ==
  ASSUME PullInv, [Next]_vars
  PROVE  Learning'
<1> SUFFICES ASSUME named' # None, Published(named)', ref' = None
             PROVE  \E w \in Caller : Learns(w, named)'
  BY DEF Learning
<1>1. ref = None /\ named' \in Commit /\ named \in Commit \cup {None}
  <2>1. ArchiveTyped'
    BY ArchiveTypedNext
  <2> QED
    BY <2>1, ArchiveGrows DEF ArchiveTyped, PullInv, Typed
<1>2. CASE named' # named
  <2>1. PICK w \in Caller : Inquire(w)
    BY <1>2, OnlyInquiring
  <2>2. at'[w] = "naming" /\ found'[w] = named'
    BY <1>2, <2>1 DEF Inquire, Told, Goes, PullInv, Typed, CallersTyped, FlightsTyped
  <2> QED
    BY <2>2 DEF Learns
<1>3. CASE named' = named /\ ~ Published(named)
  <2>1. PICK g \in Caller : Publish(g)
    BY <1>3, OnlyPublishing DEF Published
  <2>2. commit[g] \in Commit
    BY <2>1 DEF Publish, PullInv, Typed, FlightsTyped, CommitsNamed, Claimed
  <2>3. held' = [held EXCEPT ![commit[g]] = Extended(g)] /\ step'[g] = "recording" /\ commit' = commit
    BY <2>1 DEF Publish, Moves, PullInv, Typed, FlightsTyped
  <2>4. commit[g] = named
    BY <1>1, <1>3, <2>2, <2>3 DEF Published, PullInv, Typed, ArchiveTyped
  <2> QED
    BY <1>3, <2>3, <2>4 DEF Learns, Archiving
<1>4. CASE named' = named /\ Published(named)
  <2>1. PICK u \in Caller : Learns(u, named)
    BY <1>1, <1>4 DEF PullInv, Learning
  <2> QED
    BY <1>1, <1>4, <2>1, LearnsStays
<1> QED
  BY <1>2, <1>3, <1>4

-----------------------------------------------------------------------------
(* The invariant holds at first, and every step keeps it.                  *)
LEMMA PullInit ==
  ASSUME Init
  PROVE  PullInv
<1> USE FilesTyped, NamesAssumption DEF Init
<1>1. ArchiveTyped /\ GateTyped
  BY DEF ArchiveTyped, GateTyped
<1>2. CallersTyped
  BY WishesAssumption, Outcomes DEF CallersTyped
<1>3. FlightsTyped
  BY Selections, Outcomes DEF FlightsTyped
<1>4. SlotHeld /\ CommitsNamed
  BY DEF SlotHeld, CommitsNamed, Transferring, Claimed, Archiving
<1>5. ClaimsFirst /\ Wanted /\ RestOnly
  BY Outcomes DEF ClaimsFirst, Wanted, WantedBy, RestOnly, RestBy, Claimed, Archiving, Comparing
<1>6. OwnWay /\ Answered
  BY Outcomes DEF OwnWay, Answered, AnsweredRight
<1>7. Learning
  BY DEF Learning
<1> QED
  BY <1>1, <1>2, <1>3, <1>4, <1>5, <1>6, <1>7 DEF PullInv, Typed

LEMMA PullNext ==
  ASSUME PullInv, [Next]_vars
  PROVE  PullInv'
<1>1. Typed'
  BY ArchiveTypedNext, CallersTypedNext, FlightsTypedNext, GateTypedNext DEF Typed
<1> QED
  BY <1>1, SlotNext, CommitsNext, ClaimsNext, OwnWayNext, WantedNext, AnsweredNext, RestNext,
     LearningNext DEF PullInv

(* Every reachable state satisfies the invariant, whatever upstream        *)
(* answers, whoever is cancelled and whichever callers share a flight.     *)
THEOREM PullInvariant == Spec => []PullInv
  BY PullInit, PullNext, PTL DEF Spec

(* Every variable keeps its type.                                          *)
THEOREM TypeCorrect == Spec => []TypeOK
<1>1. PullInv => TypeOK
  BY DEF PullInv, Typed, ArchiveTyped, CallersTyped, FlightsTyped, GateTyped, TypeOK
<1> QED
  BY <1>1, PullInvariant, PTL

(* A success tells the truth: a file that a client is told is missing does *)
(* not exist at the commit it was given, and a prefetch of a commit has    *)
(* archived all that its selection covers there, though the flight was     *)
(* shared, narrowed, resumed, or preceded by others.                       *)
THEOREM SuccessIsTrue == Spec => []AskedIsArchived
<1>1. ASSUME PullInv PROVE AskedIsArchived
  <2> SUFFICES ASSUME NEW w \in Caller, answer[w].ok
               PROVE  /\ at[w] = "woken" /\ req[w].op = "file" =>
                           \/ PathOf(w) \in held[answer[w].commit]
                           \/ PathOf(w) \notin Files[answer[w].commit]
                      /\ at[w] = "answered" /\ req[w].op = "prefetch" /\ req[w].revision # Main =>
                           Covered(req[w].sel, answer[w].commit) \subseteq held[answer[w].commit]
    BY DEF AskedIsArchived, Succeeded
  <2>1. ASSUME at[w] \in {"woken", "answered"}, req[w].op \in {"file", "prefetch"}
        PROVE  /\ Single(req[w].sel) =>
                    Covered(req[w].sel, answer[w].commit) \subseteq held[answer[w].commit]
               /\ req[w].revision \in Commit =>
                    Covered(req[w].sel, answer[w].commit) \subseteq held[answer[w].commit]
    BY <1>1, <2>1 DEF PullInv, Answered, AnsweredRight, Satisfied
  <2>2. req[w].op = "file" =>
          Single(req[w].sel) /\ Covered(req[w].sel, answer[w].commit) = Files[answer[w].commit] \cap {PathOf(w)}
    BY <1>1, FilesAskedFor, Selections DEF PullInv, Single, Covered
  <2>3. req[w].revision \in Commit \cup {Main}
    BY <1>1, Requests DEF PullInv
  <2> QED
    BY <2>1, <2>2, <2>3
<1> QED
  BY <1>1, PullInvariant, PTL

(* The second look at the archive is worth its while: a prefetch that      *)
(* waited for the slot transfers nothing that was archived meanwhile.      *)
THEOREM NothingTwice == Spec => []WaitedTransfersTheRest
<1>1. ASSUME PullInv PROVE WaitedTransfersTheRest
  <2> SUFFICES ASSUME NEW f \in Caller, Reconciles(f), waited[f], req[f].revision # Main,
                      step[f] = "fetching"
               PROVE  Covered(wants[f], commit[f]) \cap held[commit[f]] = {}
    BY DEF WaitedTransfersTheRest
  <2>1. req[f].revision \in Commit
    BY <1>1, Requests DEF PullInv
  <2>2. commit[f] = req[f].revision
    BY <1>1, <2>1 DEF PullInv, CommitsNamed
  <2> QED
    BY <1>1, <2>1, <2>2 DEF PullInv, RestOnly, RestBy
<1> QED
  BY <1>1, PullInvariant, PTL

(* Once a commit that upstream called by the name is published, and nobody *)
(* is about to see to it, the name has a reference in the archive.         *)
THEOREM NamesAreLearned == Spec => []NameIsLearned
<1>1. PullInv => NameIsLearned
  BY DEF PullInv, Learning, Learns, Archiving, NameIsLearned, Adopting
<1> QED
  BY <1>1, PullInvariant, PTL

(* What is cancelled changes nothing: cancellation and the claim that      *)
(* precedes every change of the archive exclude each other.                *)
THEOREM CancellationExcludes == Spec => CancelledChangesNothing
<1>1. ASSUME PullInv, [Next]_vars
      PROVE  \A f \in Caller : token[f] = "cancelled" /\ step'[f] # step[f] =>
                 UNCHANGED archive /\ (outcome'[f].ok => commit[f] = None)
  <2> SUFFICES ASSUME NEW f \in Caller, token[f] = "cancelled", step'[f] # step[f]
               PROVE  UNCHANGED archive /\ (outcome'[f].ok => commit[f] = None)
    OBVIOUS
  <2>1. CASE Works(f) \/ InventoryFails(f) \/ FetchFails(f)
    BY <1>1, <2>1, CancelledFlight
  <2>2. CASE Join(f)
    <3>1. step[f] = "none"
      BY <1>1, <2>2 DEF Join, Same, Running, PullInv, Typed, FlightsTyped
    <3> QED
      BY <1>1, <3>1 DEF PullInv, ClaimsFirst
  <2> QED
    BY <1>1, <2>1, <2>2, FlightsOwn
<1> QED
  BY <1>1, PullInvariant, PTL DEF Spec, CancelledChangesNothing

-----------------------------------------------------------------------------
(* What a flight brings to the archive has a file, and what it goes on to  *)
(* name is there; so is what the reference names.                          *)
ThereBy(f) ==
    /\ step[f] \in {"claiming", "publishing"} => Covered(wants[f], commit[f]) # {}
    /\ step[f] \in Archiving => Published(commit[f])
There == \A f \in Caller : ThereBy(f)
RefersThere == ref # None => Published(ref)
UseInv == PullInv /\ There /\ RefersThere

LEMMA ThereFlight ==
  ASSUME UseInv, [Next]_vars, NEW w \in Caller,
         Works(w) \/ InventoryFails(w) \/ FetchFails(w) \/ Join(w)
  PROVE  ThereBy(w)'
<1> USE DEF UseInv, PullInv, Typed, FlightsTyped, There, ThereBy, Published, Covered, Archiving,
    archive, callers, flights, gate
<1>1. CASE Register(w)
  BY <1>1 DEF Register, Moves, Quiet
<1>2. CASE Reconcile(w)
  BY <1>2 DEF Reconcile, Compared, Moves, Quiet, SelectionSame, Ends, AfterReconcile
<1>3. CASE Inventory(w)
  BY <1>3 DEF Inventory, Moves, Quiet
<1>4. CASE Compare(w)
  BY <1>4 DEF Compare, Compared, Moves, Quiet, SelectionSame, Ends, AfterReconcile
<1>5. CASE Check(w)
  BY <1>5 DEF Check, Moves, Quiet, Ends
<1>6. CASE Enter(w)
  BY <1>6 DEF Enter, Moves, Quiet
<1>7. CASE Admit(w)
  BY <1>7 DEF Admit, Moves, Quiet, Ends, AfterWait
<1>8. CASE LeaveQueue(w)
  BY <1>8 DEF LeaveQueue, Quiet, Ends, Moves
<1>9. CASE Stage(w)
  BY <1>9 DEF Stage, Moves, Quiet
<1>10. CASE FetchResolve(w)
  BY <1>10 DEF FetchResolve, Moves, Quiet
<1>11. CASE FetchDone(w)
  BY <1>11 DEF FetchDone, Moves, Quiet, Ends
<1>12. CASE FetchCancelled(w)
  BY <1>12 DEF FetchCancelled, Moves, Quiet, Ends
<1>13. CASE Claim(w)
  BY <1>13 DEF Claim, Moves, Quiet, Ends, AfterClaim
<1>14. CASE Publish(w)
  BY <1>14 DEF Publish, Moves, Quiet, CommitsNamed, Claimed, ArchiveTyped, Extended
<1>15. CASE Record(w)
  BY <1>15 DEF Record, Moves, Quiet
<1>16. CASE Point(w)
  BY <1>16 DEF Point, Moves, Quiet, Ends
<1>17. CASE NameAfter(w)
  BY <1>17 DEF NameAfter, Moves, Quiet, Ends
<1>18. CASE AdoptAfter(w)
  BY <1>18 DEF AdoptAfter, Moves, Quiet, Ends
<1>19. CASE Retire(w)
  BY <1>19 DEF Retire, Moves
<1>20. CASE InventoryFails(w)
  BY <1>20 DEF InventoryFails, Ends, Moves
<1>21. CASE FetchFails(w)
  BY <1>21 DEF FetchFails, Ends, Moves
<1>22. CASE Join(w)
  BY <1>22 DEF Join, Same, Running
<1> QED
  BY <1>1, <1>2, <1>3, <1>4, <1>5, <1>6, <1>7, <1>8, <1>9, <1>10, <1>11, <1>12, <1>13, <1>14,
      <1>15, <1>16, <1>17, <1>18, <1>19, <1>20, <1>21, <1>22 DEF Works

LEMMA ThereNext ==
  ASSUME UseInv, [Next]_vars
  PROVE  There'
<1> SUFFICES ASSUME NEW f \in Caller PROVE ThereBy(f)'
  BY DEF There
<1>1. \A c \in Commit : held[c] \subseteq held'[c]
  BY ArchiveGrows DEF UseInv
<1>2. CASE Join(f) \/ Works(f) \/ InventoryFails(f) \/ FetchFails(f)
  BY <1>2, ThereFlight
<1>3. CASE ~ (Join(f) \/ Works(f) \/ InventoryFails(f) \/ FetchFails(f))
  <2>1. step'[f] = step[f] /\ wants'[f] = wants[f] /\ commit'[f] = commit[f]
    BY <1>3, FlightsOwn DEF UseInv
  <2>2. step[f] \in Archiving => commit[f] \in Commit
    BY DEF UseInv, PullInv, Typed, FlightsTyped, CommitsNamed, Claimed
  <2> QED
    BY <1>1, <2>1, <2>2 DEF UseInv, There, ThereBy, Published, Covered
<1> QED
  BY <1>2, <1>3

(* Only these steps set the reference.                                     *)
LEMMA OnlyReferring ==
  ASSUME [Next]_vars, ref' # ref
  PROVE  \E g \in Caller : Point(g) \/ AdoptAfter(g) \/ AdoptFor(g)
<1> DEFINE Refers == \E g \in Caller : Point(g) \/ AdoptAfter(g) \/ AdoptFor(g)
<1> USE DEF archive, callers, flights, gate
<1>1. ASSUME NEW w \in Caller, Calls(w) PROVE Refers
  <2>1. CASE Inquire(w)
    BY <2>1 DEF Inquire
  <2>2. CASE AdoptFor(w)
    BY <2>2
  <2>3. CASE Join(w)
    BY <2>3 DEF Join
  <2>4. CASE ~ Inquire(w) /\ ~ AdoptFor(w) /\ ~ Join(w)
    BY <1>1, <2>4, CallersOnlyAsk DEF CallerOnly
  <2> QED
    BY <1>1, <2>1, <2>2, <2>3, <2>4
<1>2. ASSUME NEW w \in Caller, Works(w) PROVE Refers
  <2>1. CASE Point(w) \/ AdoptAfter(w)
    BY <2>1
  <2>2. CASE Register(w) \/ Reconcile(w) \/ Inventory(w) \/ Compare(w) \/ Check(w) \/ Enter(w)
    BY <2>2 DEF Register, Reconcile, Inventory, Compare, Check, Enter
  <2>3. CASE Admit(w) \/ LeaveQueue(w) \/ Stage(w) \/ FetchResolve(w) \/ FetchDone(w)
    BY <2>3 DEF Admit, LeaveQueue, Stage, FetchResolve, FetchDone
  <2>4. CASE FetchCancelled(w) \/ Claim(w) \/ Publish(w) \/ Record(w) \/ NameAfter(w) \/ Retire(w)
    BY <2>4 DEF FetchCancelled, Claim, Publish, Record, NameAfter, Retire
  <2> QED
    BY <1>2, <2>1, <2>2, <2>3, <2>4 DEF Works
<1>3. ASSUME NEW w \in Caller, Happens(w) PROVE Refers
  BY <1>3 DEF Happens, GiveUp, AskAgain, CallerOnly, InquireFails, InventoryFails, FetchFails, Cancel
<1>4. CASE Advance
  BY <1>4 DEF Advance
<1>5. CASE UNCHANGED vars
  BY <1>5 DEF vars
<1> QED
  BY <1>1, <1>2, <1>3, <1>4, <1>5 DEF Next

(* It is set to a revision that is there, by a step that does nothing else *)
(* to the archive.                                                         *)
LEMMA Referring ==
  ASSUME UseInv, [Next]_vars, ref' # ref
  PROVE  ref' \in Commit /\ Published(ref') /\ held' = held
<1>1. PICK g \in Caller : Point(g) \/ AdoptAfter(g) \/ AdoptFor(g)
  BY OnlyReferring
<1>2. CASE Point(g) \/ AdoptAfter(g)
  <2>1. ref' = commit[g] /\ held' = held /\ step[g] \in Archiving
    BY <1>2 DEF Point, AdoptAfter, Archiving
  <2>2. commit[g] \in Commit /\ Published(commit[g])
    BY <2>1 DEF UseInv, There, ThereBy, PullInv, CommitsNamed, Claimed, Typed, FlightsTyped
  <2> QED
    BY <2>1, <2>2
<1>3. CASE AdoptFor(g)
  <2>1. held' = held /\ ref' = Adopted(found[g]) /\ at[g] = "adopting"
    BY <1>3 DEF AdoptFor
  <2>2. found[g] \in Commit
    BY <2>1 DEF UseInv, PullInv, OwnWay, Typed, FlightsTyped
  <2> QED
    BY <2>1, <2>2 DEF Adopted
<1> QED
  BY <1>1, <1>2, <1>3

LEMMA UseNext ==
  ASSUME UseInv, [Next]_vars
  PROVE  UseInv'
<1>1. PullInv' /\ There'
  BY PullNext, ThereNext DEF UseInv
<1>2. RefersThere'
  <2>1. CASE ref' = ref
    <3>1. \A c \in Commit : held[c] \subseteq held'[c]
      BY ArchiveGrows DEF UseInv
    <3> QED
      BY <2>1, <3>1 DEF UseInv, RefersThere, Published, PullInv, Typed, ArchiveTyped
  <2>2. CASE ref' # ref
    BY <2>2, Referring DEF RefersThere, Published
  <2> QED
    BY <2>1, <2>2
<1> QED
  BY <1>1, <1>2 DEF UseInv

(* On the way to the archive every flight carries a file, and what is to   *)
(* be named, or is, is published.                                          *)
THEOREM UseInvariant == Spec => []UseInv
<1>1. Init => UseInv
  BY PullInit DEF Init, UseInv, There, ThereBy, RefersThere, Archiving
<1> QED
  BY <1>1, UseNext, PTL DEF Spec

(* What readers find of a revision is nothing exactly if it is not there.  *)
LEMMA ViewThere ==
  ASSUME NEW c \in Commit, NEW paths \in SUBSET Path, paths # {}
  PROVE  /\ View(paths, c) = [p \in Path |-> IF p \in paths THEN c ELSE None]
         /\ View(paths, c) # None
<1>1. View(paths, c) = [p \in Path |-> IF p \in paths THEN c ELSE None]
  BY DEF View
<1>2. View(paths, c) \in [Path -> Commit \cup {None}]
  BY <1>1
<1> QED
  BY <1>1, <1>2, NoneAssumption

(* A publication is one of module Archive, or an extension.                *)
LEMMA PublishUses ==
  ASSUME UseInv, [Next]_vars, NEW g \in Caller, Publish(g)
  PROVE  [Abstract!Next]_(Abstract!vars)
<1> PICK c : c = commit[g]
  OBVIOUS
<1> PICK more : more = Covered(wants[g], c)
  OBVIOUS
<1>1. /\ c \in Commit /\ more # {} /\ more \in SUBSET Path /\ c # None
      /\ held \in [Commit -> SUBSET Path] /\ step[g] = "publishing"
  <2>1. step[g] = "publishing"
    BY DEF Publish
  <2>2. c \in Commit /\ c # None
    BY <2>1, NamesAssumption DEF UseInv, PullInv, CommitsNamed, Claimed, Typed, FlightsTyped
  <2>3. more # {}
    BY <2>1 DEF UseInv, There, ThereBy
  <2>4. more \in SUBSET Path
    BY <2>2, FilesTyped DEF Covered
  <2> QED
    BY <2>1, <2>2, <2>3, <2>4 DEF UseInv, PullInv, Typed, ArchiveTyped
<1>2. held' = [held EXCEPT ![c] = held[c] \cup more] /\ ref' = ref
  BY DEF Publish, Extended
<1> DEFINE H == [d \in Commit |-> View(held[d], d)]
           E == [d \in Commit |-> {}]
<1>3. H' = [H EXCEPT ![c] = View(held[c] \cup more, c)]
  <2>1. \A d \in Commit : held'[d] = IF d = c THEN held[c] \cup more ELSE held[d]
    BY <1>1, <1>2
  <2>2. \A d \in Commit : View(held'[d], d) = IF d = c THEN View(held[c] \cup more, c) ELSE H[d]
    BY <2>1
  <2>3. H' = [d \in Commit |-> View(held'[d], d)] /\ H = [d \in Commit |-> H[d]]
    OBVIOUS
  <2> HIDE DEF H
  <2> QED
    BY <1>1, <2>2, <2>3
<1>4. {} \in SUBSET {None} /\ E = [E EXCEPT ![c] = {}]
  BY <1>1
<1>5. CASE held[c] = {}
  <2> DEFINE files == [p \in Path |-> IF p \in more THEN c ELSE None]
  <2>1. View(held[c] \cup more, c) = files /\ H[c] = None
    BY <1>1, <1>5 DEF View
  <2>2. files \in Abstract!FileSet /\ \E p \in Path : files[p] # None
    BY <1>1 DEF Abstract!FileSet
  <2>3. Abstract!Publish(c)
    <3> HIDE DEF files
    <3>1. H' = [H EXCEPT ![c] = files]
      BY <1>3, <2>1
    <3> QED
      BY <1>1, <1>2, <1>4, <2>1, <2>2, <3>1 DEF Abstract!Publish
  <2> QED
    BY <1>1, <2>3 DEF Abstract!Next
<1>6. CASE held[c] # {}
  <2> DEFINE added == [p \in Path |-> IF p \in more THEN c ELSE None]
             grown == [p \in Path |-> IF H[c][p] # None THEN H[c][p] ELSE added[p]]
  <2>1. H[c] # None /\ H[c] = [p \in Path |-> IF p \in held[c] THEN c ELSE None]
    <3>1. H[c] = View(held[c], c) /\ held[c] \in SUBSET Path
      BY <1>1
    <3> HIDE DEF H
    <3> QED
      BY <1>1, <1>6, <3>1, ViewThere
  <2>2. View(held[c] \cup more, c) = grown
    BY <1>1, <2>1 DEF View
  <2>3. added \in Abstract!FileSet
    BY <1>1 DEF Abstract!FileSet
  <2>4. Abstract!Extend(c)
    <3> HIDE DEF added
    <3>1. H' = [H EXCEPT ![c] = grown]
      BY <1>3, <2>2
    <3> QED
      BY <1>1, <1>2, <1>4, <2>1, <2>3, <3>1 DEF Abstract!Extend
  <2> QED
    BY <1>1, <2>4 DEF Abstract!Next
<1> QED
  BY <1>5, <1>6

LEMMA StepUses ==
  ASSUME UseInv, [Next]_vars
  PROVE  [Abstract!Next]_(Abstract!vars)
<1>1. CASE held' # held
  BY <1>1, OnlyPublishing, PublishUses DEF UseInv
<1>2. CASE ref' # ref
  <2>1. ref' \in Commit /\ Published(ref') /\ held' = held
    BY <1>2, Referring
  <2>2. Abstract!SetRef(Main, ref')
    <3>1. View(held[ref'], ref') # None
      BY <2>1, ViewThere DEF UseInv, PullInv, Typed, ArchiveTyped, Published
    <3> QED
      BY <2>1, <3>1 DEF Abstract!SetRef
  <2> QED
    BY <2>1, <2>2 DEF Abstract!Next
<1>3. CASE held' = held /\ ref' = ref
  BY <1>3 DEF Abstract!vars
<1> QED
  BY <1>1, <1>2, <1>3

LEMMA InitUses == Init => Abstract!Init
BY DEF Init, Abstract!Init, View

(* Whatever the flights and the callers do, they use the archive as module *)
(* Archive allows, which RevisionStore is proved to implement: a revision  *)
(* appears with a file and keeps what it has, and a reference is only made *)
(* to name what is there.                                                  *)
THEOREM PullUsesArchive == Spec => UsesArchive
BY UseInvariant, InitUses, StepUses, PTL DEF Spec, UsesArchive, Abstract!Spec
====
