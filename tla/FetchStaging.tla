---------------------------- MODULE FetchStaging ----------------------------
(***************************************************************************)
(* The staging directories of one repository and revision: how an          *)
(* acquisition takes one, keeps it with a lease that a heartbeat thread    *)
(* renews, gives it up for a later one to resume, or publishes it; what    *)
(* startup recovery and an operator's removal do to the others             *)
(* (src/src/lib.rs 815-957, 1947-2044, 2117-2347, 3433-3635, and their     *)
(* callers in src/src/pullthrough.rs).                                     *)
(*                                                                         *)
(* A request stands for one process (the server, a command line) with the  *)
(* acquisition it runs: within a process the transfer gate admits one per  *)
(* repository.  A directory is addressed by name, and every rename gives   *)
(* it a new one that nobody else knows: a path is a directory and the      *)
(* number of its name.  Time passes by Tick, in heartbeat intervals.       *)
(***************************************************************************)
EXTENDS Integers, FiniteSets

CONSTANTS
    Request,        \* processes that acquire
    Dir,            \* directories that may exist at once
    Selection,      \* selections of files a request may ask for
    All,            \* the unrestricted selection: no list of files
    Operation,      \* of "pull_through", "refresh"
    Blocked,        \* may the revision be left half removed (BOOLEAN)
    None,
    Lease,          \* lease, in heartbeat intervals: 120 s of 30 s in the code
    MaxAdmitted,    \* bound: acquisitions admitted per request
    MaxFaults       \* bound: processes killed, fetches that fail or are
                    \* cancelled, renewals that fail, removals asked for

ASSUME SelectionAssumption == All \in Selection /\ None \notin Selection
ASSUME LeaseAssumption == Lease \in Nat /\ Lease >= 2
ASSUME OperationAssumption == /\ Operation \subseteq {"pull_through", "refresh"}
                              /\ Blocked \in BOOLEAN
ASSUME BoundsAssumption == MaxAdmitted \in Nat /\ MaxFaults \in Nat \ {0}

VARIABLES
    place,      \* [Dir -> "unused", "active", "abandoned", "published"]
    name,       \* [Dir -> Nat]: which of its names the directory has
    recorded,   \* [Dir -> Selection or None]: the identity file's selection
    commit,     \* [Dir -> BOOLEAN]: the identity file records a commit
    lease,      \* [Dir -> intervals left; 0 expired; -1 no lease file]
    heart,      \* [Dir -> "none", "asleep", "writing" (its `.part` is there)]
    by,         \* [Dir -> Request or None]: the process its heartbeat runs in
    pc, at,     \* per request: its step and the path it works on
    wants,      \* per request: the selection asked for
    loop, todo, \* per request: loop over the entries, paths it has yet to read
    removing,   \* the operator's removal: [step, at]
    admitted, crashes, removals, failures, missed

directories == <<place, name, recorded, commit, lease, heart, by>>
requests == <<pc, at, wants, loop, todo, admitted>>
faults == <<crashes, removals, failures, missed>>
FaultsLeft == crashes + removals + failures + missed < MaxFaults
vars == <<directories, requests, removing, faults>>

NoLease == -1
Path == Dir \X Nat
NoPath == <<None, 0>>
NotRemoving == [step |-> "none", at |-> NoPath]

Step == {"down", "recovering", "preserve", "discard",
         "idle", "refused", "look", "claim", "rename", "claimed",
         "made", "leased", "resolving", "transferring",
         "failed", "cancelled", "expiring",
         "publishing", "cleaning", "sealed", "leaseless", "dropping"}

(* From here on an acquisition takes the directory at its path for its     *)
(* own: it has created it, or renamed it to a name it chose.               *)
Owning == {"claimed", "made", "leased", "resolving", "transferring",
           "failed", "cancelled", "publishing", "cleaning", "sealed",
           "leaseless", "dropping"}

Entries(kinds) == {<<d, name[d]>> : d \in {e \in Dir : place[e] \in kinds}}
Present(p) == p \in Entries({"active", "abandoned"})
Here(w) == Present(at[w])
Own(w) == at[w][1]
Live(d) == lease[d] > 0
(* `staging_selection_is_adoptable`, with an identity that can be read.    *)
Adoptable(d, s) == recorded[d] \in {All, s}

(* Nothing is there, or one directory that an earlier process left, whose  *)
(* commit is known and whose lease has run out: a fault.                   *)
Init ==
    /\ \/ /\ crashes = 0
          /\ place = [d \in Dir |-> "unused"]
          /\ recorded = [d \in Dir |-> None]
          /\ commit = [d \in Dir |-> FALSE]
          /\ lease = [d \in Dir |-> NoLease]
       \/ \E kind \in {"active", "abandoned"}, s \in Selection :
          LET left == CHOOSE d \in Dir : TRUE
          IN  /\ crashes = 1
              /\ place = [d \in Dir |-> IF d = left THEN kind ELSE "unused"]
              /\ recorded = [d \in Dir |-> IF d = left THEN s ELSE None]
              /\ commit = [d \in Dir |-> d = left]
              /\ lease = [d \in Dir |-> IF d = left THEN 0 ELSE NoLease]
    /\ name = [d \in Dir |-> 0]
    /\ heart = [d \in Dir |-> "none"]
    /\ by = [d \in Dir |-> None]
    /\ pc = [w \in Request |-> "idle"]
    /\ at = [w \in Request |-> NoPath]
    /\ wants = [w \in Request |-> All]
    /\ loop = [w \in Request |-> "active"]
    /\ todo = [w \in Request |-> {}]
    /\ admitted = [w \in Request |-> 0]
    /\ removing = NotRemoving
    /\ removals = 0 /\ failures = 0 /\ missed = 0

-----------------------------------------------------------------------------
(* What a step does to one directory.  Renamed, it has a name that no      *)
(* heartbeat knows: the thread finds its path gone and ends.               *)
Goto(w, step) == pc' = [pc EXCEPT ![w] = step]

(* Mutant of SetLease: a lease of one interval more.                       *)
SetLeaseLate(d, l) == lease' = [lease EXCEPT ![d] = IF l > 0 THEN l + 1 ELSE l]

SetLease(d, l) == lease' = [lease EXCEPT ![d] = l]

Silenced(d) ==
    /\ heart' = [heart EXCEPT ![d] = "none"]
    /\ by' = [by EXCEPT ![d] = None]

Renamed(d, kind) ==
    /\ place' = [place EXCEPT ![d] = kind]
    /\ name' = [name EXCEPT ![d] = @ + 1]
    /\ Silenced(d)

(* The directory leaves the temporary area: removed, or published.         *)
Vanishes(d, kind) ==
    /\ place' = [place EXCEPT ![d] = kind]
    /\ recorded' = [recorded EXCEPT ![d] = None]
    /\ commit' = [commit EXCEPT ![d] = FALSE]
    /\ SetLease(d, NoLease)
    /\ Silenced(d)
    /\ UNCHANGED name

(* `remove_dir_all` of a path: nothing if the name is gone.                *)
RemoveAll(p) ==
    IF Present(p) THEN Vanishes(p[1], "unused") ELSE UNCHANGED directories

(* The lease is written and a heartbeat started.                           *)
Leased(w) ==
    /\ SetLease(Own(w), Lease)
    /\ heart' = [heart EXCEPT ![Own(w)] = "asleep"]
    /\ by' = [by EXCEPT ![Own(w)] = w]

Still == UNCHANGED <<removing, faults>>
Keep == UNCHANGED <<wants, loop, admitted>>

(* The acquisition is over, whatever became of its directory.              *)
Over(w) ==
    /\ Goto(w, "idle")
    /\ at' = [at EXCEPT ![w] = NoPath]
    /\ wants' = [wants EXCEPT ![w] = All]
    /\ loop' = [loop EXCEPT ![w] = "active"]
    /\ UNCHANGED <<todo, admitted>>

-----------------------------------------------------------------------------
(* Startup recovery: every entry of the temporary area is read, and then   *)
(* dealt with under the name it was read by.                               *)

Start(w) ==
    /\ pc[w] = "down"
    /\ Goto(w, "recovering")
    /\ todo' = [todo EXCEPT ![w] = Entries({"active", "abandoned"})]
    /\ UNCHANGED at /\ UNCHANGED directories /\ Keep /\ Still

(* Mutant of RecoverEntry: every expired directory goes.                   *)
RecoverEntryDiscards(w, p) ==
    /\ pc[w] = "recovering" /\ p \in todo[w]
    /\ todo' = [todo EXCEPT ![w] = @ \ {p}]
    /\ IF Present(p) /\ lease[p[1]] = 0
       THEN at' = [at EXCEPT ![w] = p] /\ Goto(w, "discard")
       ELSE UNCHANGED <<pc, at>>
    /\ UNCHANGED directories /\ Keep /\ Still

RecoverEntry(w, p) ==
    /\ pc[w] = "recovering" /\ p \in todo[w]
    /\ todo' = [todo EXCEPT ![w] = @ \ {p}]
    /\ IF Present(p) /\ lease[p[1]] = 0 /\ ~(commit[p[1]] /\ place[p[1]] = "abandoned")
       THEN /\ at' = [at EXCEPT ![w] = p]
            /\ Goto(w, IF commit[p[1]] THEN "preserve" ELSE "discard")
       ELSE UNCHANGED <<pc, at>>
    /\ UNCHANGED directories /\ Keep /\ Still

RecoverPreserve(w) ==
    /\ pc[w] = "preserve"
    /\ IF Here(w) THEN Renamed(Own(w), "abandoned")
                  ELSE UNCHANGED <<place, name, heart, by>>
    /\ Goto(w, "recovering")
    /\ at' = [at EXCEPT ![w] = NoPath]
    /\ UNCHANGED <<recorded, commit, lease, todo>> /\ Keep /\ Still

RecoverDiscard(w) ==
    /\ pc[w] = "discard"
    /\ RemoveAll(at[w])
    /\ Goto(w, "recovering")
    /\ at' = [at EXCEPT ![w] = NoPath]
    /\ UNCHANGED todo /\ Keep /\ Still

RecoverDone(w) ==
    /\ pc[w] = "recovering" /\ todo[w] = {}
    /\ Goto(w, "idle")
    /\ UNCHANGED <<at, todo>> /\ UNCHANGED directories /\ Keep /\ Still

-----------------------------------------------------------------------------
(* acquire_fetch_staging: the abandoned entries, then the active ones, then *)
(* a new directory.                                                        *)

Look(w) ==
    /\ Goto(w, "look")
    /\ loop' = [loop EXCEPT ![w] = "abandoned"]
    /\ todo' = [todo EXCEPT ![w] = Entries({"abandoned"})]
    /\ UNCHANGED <<at, admitted>> /\ UNCHANGED directories /\ Still

Ask(w, s) ==
    /\ pc[w] = "idle" /\ admitted[w] < MaxAdmitted
    /\ wants' = [wants EXCEPT ![w] = s]
    /\ Look(w)

Retry(w) == pc[w] = "refused" /\ Look(w) /\ UNCHANGED wants

(* Mutant of Refuses: an active marker refuses, expired or not.            *)
RefusesAnyMarker(w, d) ==
    IF loop[w] = "abandoned"
    THEN Live(d) /\ commit[d] /\ Adoptable(d, wants[w])
    ELSE recorded[d] = wants[w]

(* A live lease refuses: on any adoptable abandoned directory, but on an   *)
(* active one only of exactly this selection.                              *)
Refuses(w, d) ==
    /\ Live(d)
    /\ IF loop[w] = "abandoned"
       THEN commit[d] /\ Adoptable(d, wants[w])
       ELSE recorded[d] = wants[w]

Claimable(w, d) == lease[d] = 0 /\ commit[d] /\ Adoptable(d, wants[w])

Examine(w, p) ==
    /\ pc[w] = "look" /\ p \in todo[w]
    /\ \/ /\ Present(p) /\ Refuses(w, p[1])
          /\ Goto(w, "refused")
          /\ todo' = [todo EXCEPT ![w] = {}]
          /\ UNCHANGED at
       \/ /\ Present(p) /\ Claimable(w, p[1])
          /\ Goto(w, "claim")
          /\ todo' = [todo EXCEPT ![w] = @ \ {p}]
          /\ at' = [at EXCEPT ![w] = p]
       \/ /\ ~(Present(p) /\ (Refuses(w, p[1]) \/ Claimable(w, p[1])))
          /\ todo' = [todo EXCEPT ![w] = @ \ {p}]
          /\ UNCHANGED <<pc, at>>
    /\ UNCHANGED directories /\ Keep /\ Still

LookAtActive(w) ==
    /\ pc[w] = "look" /\ loop[w] = "abandoned" /\ todo[w] = {}
    /\ loop' = [loop EXCEPT ![w] = "active"]
    /\ todo' = [todo EXCEPT ![w] = Entries({"active"})]
    /\ UNCHANGED <<pc, at, wants, admitted>> /\ UNCHANGED directories /\ Still

(* claim_fetch_staging: renew the lease under the old name, rename, write  *)
(* the lease and the identity under the new one.  If the name is gone,     *)
(* another claim was first and the loop goes on.                           *)
Lost(w) == Goto(w, "look") /\ at' = [at EXCEPT ![w] = NoPath]

(* Mutant of ClaimRenew: the lease is left to the write under the new      *)
(* name.                                                                   *)
ClaimRenewLater(w) ==
    /\ pc[w] = "claim"
    /\ IF Here(w) THEN Goto(w, "rename") /\ UNCHANGED at ELSE Lost(w)
    /\ UNCHANGED directories /\ UNCHANGED todo /\ Keep /\ Still

ClaimRenew(w) ==
    /\ pc[w] = "claim"
    /\ IF Here(w) THEN SetLease(Own(w), Lease) /\ Goto(w, "rename") /\ UNCHANGED at
                  ELSE UNCHANGED lease /\ Lost(w)
    /\ UNCHANGED <<place, name, recorded, commit, heart, by, todo>> /\ Keep /\ Still

ClaimRename(w) ==
    /\ pc[w] = "rename"
    /\ IF Here(w)
       THEN /\ Renamed(Own(w), "active")
            /\ at' = [at EXCEPT ![w] = <<Own(w), name[Own(w)] + 1>>]
            /\ Goto(w, "claimed")
       ELSE UNCHANGED <<place, name, heart, by>> /\ Lost(w)
    /\ UNCHANGED <<recorded, commit, lease, todo>> /\ Keep /\ Still

Admitted(w) ==
    /\ Goto(w, "resolving")
    /\ admitted' = [admitted EXCEPT ![w] = @ + 1]
    /\ UNCHANGED <<at, wants, loop, todo>>

Fails(w) == ~Here(w) /\ Over(w) /\ UNCHANGED directories

(* The identity is rewritten if the selection read before the claim was    *)
(* not this one; of a directory emptied since, either may have been read.  *)
ClaimFinish(w) ==
    /\ pc[w] = "claimed"
    /\ \/ /\ Here(w)
          /\ Leased(w)
          /\ \/ /\ recorded[Own(w)] \in {wants[w], None}
                /\ UNCHANGED <<recorded, commit>>
             \/ /\ recorded[Own(w)] # wants[w]
                /\ recorded' = [recorded EXCEPT ![Own(w)] = wants[w]]
                /\ commit' = [commit EXCEPT ![Own(w)] = TRUE]
          /\ Admitted(w)
          /\ UNCHANGED <<place, name>>
       \/ Fails(w)
    /\ Still

(* A directory that is not there, nor opened by a removal while it was.    *)
Free == {d \in Dir : /\ place[d] \in {"unused", "published"}
                    /\ ~(removing.step = "deleting" /\ removing.at[1] = d)}

(* create_staging, and the identity of a new directory.                    *)
Make(w) ==
    /\ pc[w] = "look" /\ loop[w] = "active" /\ todo[w] = {}
    /\ Free # {}
    /\ LET d == CHOOSE d \in Free : TRUE
       IN  /\ Renamed(d, "active")
           /\ at' = [at EXCEPT ![w] = <<d, name[d] + 1>>]
    /\ Goto(w, "made")
    /\ UNCHANGED <<recorded, commit, lease, todo>> /\ Keep /\ Still

MakeLease(w) ==
    /\ pc[w] = "made"
    /\ \/ /\ Here(w)
          /\ Leased(w)
          /\ Goto(w, "leased")
          /\ UNCHANGED <<place, name, recorded, commit, at, todo>> /\ Keep
       \/ Fails(w)
    /\ Still

MakeIdentity(w) ==
    /\ pc[w] = "leased"
    /\ \/ /\ Here(w)
          /\ recorded' = [recorded EXCEPT ![Own(w)] = wants[w]]
          /\ Admitted(w)
          /\ UNCHANGED <<place, name, commit, lease, heart, by>>
       \/ Fails(w)
    /\ Still

-----------------------------------------------------------------------------
(* The transfer.  The helper reports the commit, which is recorded before  *)
(* any byte that depends on it; later it succeeds, fails or is cancelled.  *)

Resolve(w) ==
    /\ pc[w] = "resolving"
    /\ IF Here(w) /\ recorded[Own(w)] = wants[w]
       THEN commit' = [commit EXCEPT ![Own(w)] = TRUE] /\ Goto(w, "transferring")
       ELSE /\ UNCHANGED commit
            /\ Goto(w, IF Here(w) /\ recorded[Own(w)] # None THEN "dropping" ELSE "failed")
    /\ UNCHANGED <<place, name, recorded, lease, heart, by, at, todo>>
    /\ Keep /\ Still

Moves(w, from, to) ==
    /\ pc[w] \in from
    /\ Goto(w, to)
    /\ UNCHANGED <<at, todo>> /\ UNCHANGED directories /\ Keep

(* An interruption keeps the directory, any other failure drops it.        *)
FetchFails(w, to) ==
    /\ to \in {"failed", "dropping"} /\ FaultsLeft
    /\ Moves(w, {"resolving", "transferring"}, to)
    /\ failures' = failures + 1
    /\ UNCHANGED <<removing, crashes, removals, missed>>

(* Cancelled at the publication claim, with everything transferred.        *)
FetchCancelled(w) ==
    /\ FaultsLeft
    /\ Moves(w, {"transferring"}, "cancelled")
    /\ failures' = failures + 1
    /\ UNCHANGED <<removing, crashes, removals, missed>>

(* A new revision is published; a dry run, a revision that is complete and *)
(* one that was extended with the files of this directory drop the rest.   *)
FetchDone(w, to) ==
    /\ to \in {"publishing", "dropping"}
    /\ Moves(w, {"transferring"}, to) /\ Still

(* Mutant of Drop: the directory is left where it is.                      *)
DropForgets(w) ==
    /\ pc[w] = "dropping"
    /\ UNCHANGED directories
    /\ Over(w) /\ Still

Drop(w) ==
    /\ pc[w] = "dropping"
    /\ RemoveAll(at[w])
    /\ Over(w) /\ Still

(* preserve_fetch_staging and what its callers do if it fails.             *)
Preserve(w) ==
    /\ pc[w] \in {"failed", "cancelled"}
    /\ LET known == Here(w) /\ recorded[Own(w)] # None
       IN  \/ /\ known /\ commit[Own(w)]
              /\ Renamed(Own(w), "abandoned")
              /\ at' = [at EXCEPT ![w] = <<Own(w), name[Own(w)] + 1>>]
              /\ Goto(w, "expiring")
              /\ UNCHANGED <<recorded, commit, lease, todo>> /\ Keep
           \/ /\ IF known THEN ~commit[Own(w)] ELSE pc[w] = "failed"
              /\ RemoveAll(at[w])
              /\ Over(w)
           \/ /\ ~known /\ pc[w] = "cancelled"
              /\ UNCHANGED directories
              /\ Over(w)
    /\ Still

Expire(w) ==
    /\ pc[w] = "expiring"
    /\ IF Here(w) THEN SetLease(Own(w), 0) ELSE UNCHANGED lease
    /\ UNCHANGED <<place, name, recorded, commit, heart, by>>
    /\ Over(w) /\ Still

-----------------------------------------------------------------------------
(* Publication: entries the manifest does not list are listed and removed, *)
(* the identity file among them; then the lease; then the rename out.      *)

(* What is in the way is a revision whose removal was interrupted.  Only   *)
(* here does it matter which operation this is; a refresh asks for         *)
(* everything.                                                             *)
PublishBlocked(w, operation) ==
    /\ Blocked /\ pc[w] = "publishing"
    /\ operation = "refresh" => wants[w] = All
    /\ IF operation = "refresh"
       THEN Over(w)
       ELSE Goto(w, "dropping") /\ UNCHANGED <<at, todo>> /\ Keep
    /\ UNCHANGED directories /\ Still

PublishList(w) ==
    /\ pc[w] = "publishing"
    /\ IF Here(w) /\ recorded[Own(w)] # None
       THEN /\ Goto(w, "cleaning")
            /\ todo' = [todo EXCEPT ![w] = IF heart[Own(w)] = "writing" THEN {at[w]} ELSE {}]
       ELSE Goto(w, "dropping") /\ UNCHANGED todo
    /\ UNCHANGED at /\ UNCHANGED directories /\ Keep /\ Still

(* A `.part` that was listed and has been renamed since fails the          *)
(* publication; one that is still there is removed, and ends its heartbeat. *)
PublishClean(w) ==
    /\ pc[w] = "cleaning"
    /\ IF Here(w) /\ (todo[w] = {} \/ heart[Own(w)] = "writing")
       THEN /\ recorded' = [recorded EXCEPT ![Own(w)] = None]
            /\ commit' = [commit EXCEPT ![Own(w)] = FALSE]
            /\ IF todo[w] = {} THEN UNCHANGED <<heart, by>> ELSE Silenced(Own(w))
            /\ Goto(w, "sealed")
       ELSE Goto(w, "dropping") /\ UNCHANGED <<recorded, commit, heart, by>>
    /\ todo' = [todo EXCEPT ![w] = {}]
    /\ UNCHANGED <<place, name, lease, at>> /\ Keep /\ Still

PublishUnlease(w) ==
    /\ pc[w] = "sealed"
    /\ IF Here(w) THEN SetLease(Own(w), NoLease) ELSE UNCHANGED lease
    /\ Goto(w, "leaseless")
    /\ UNCHANGED <<place, name, recorded, commit, heart, by, at, todo>> /\ Keep /\ Still

(* Another process may have published the revision first.                  *)
PublishRename(w, kind) ==
    /\ pc[w] = "leaseless" /\ kind \in {"published", "unused"}
    /\ IF Here(w) THEN Vanishes(Own(w), kind) ELSE UNCHANGED directories
    /\ Over(w) /\ Still

-----------------------------------------------------------------------------
(* spawn_lease_heartbeat, refresh_staging_lease: for as long as its        *)
(* directory has its name, its lease is there and no renewal fails.        *)

Beat(d) ==
    /\ heart[d] = "asleep"
    /\ IF lease[d] # NoLease
       THEN heart' = [heart EXCEPT ![d] = "writing"] /\ UNCHANGED by
       ELSE Silenced(d)
    /\ UNCHANGED <<place, name, recorded, commit, lease>>
    /\ UNCHANGED requests /\ Still

BeatLands(d) ==
    /\ heart[d] = "writing"
    /\ SetLease(d, Lease)
    /\ heart' = [heart EXCEPT ![d] = "asleep"]
    /\ UNCHANGED <<place, name, recorded, commit, by>>
    /\ UNCHANGED requests /\ Still

BeatFails(d) ==
    /\ heart[d] = "writing" /\ FaultsLeft
    /\ Silenced(d)
    /\ missed' = missed + 1
    /\ UNCHANGED <<place, name, recorded, commit, lease>> /\ UNCHANGED requests
    /\ UNCHANGED <<removing, crashes, removals, failures>>

Crash(w) ==
    /\ pc[w] # "down" /\ FaultsLeft
    /\ Goto(w, "down")
    /\ at' = [at EXCEPT ![w] = NoPath]
    /\ wants' = [wants EXCEPT ![w] = All]
    /\ loop' = [loop EXCEPT ![w] = "active"]
    /\ todo' = [todo EXCEPT ![w] = {}]
    /\ heart' = [d \in Dir |-> IF by[d] = w THEN "none" ELSE heart[d]]
    /\ by' = [d \in Dir |-> IF by[d] = w THEN None ELSE by[d]]
    /\ crashes' = crashes + 1
    /\ UNCHANGED <<place, name, recorded, commit, lease, admitted>>
    /\ UNCHANGED <<removing, removals, failures, missed>>

-----------------------------------------------------------------------------
(* remove_retained_staging: the lease is read, the directory measured, and *)
(* then removed: remove_dir_all opens it by name and empties what it has   *)
(* opened, wherever that is renamed to meanwhile.                          *)

(* StagingRemovalError: there is no directory, or its lease is live.       *)
Removable(p) == Present(p) /\ ~Live(p[1])

RemovalCheck(p) ==
    /\ removing.step = "none" /\ FaultsLeft
    /\ Removable(p)
    /\ removing' = [step |-> "checked", at |-> p]
    /\ removals' = removals + 1
    /\ UNCHANGED directories /\ UNCHANGED requests
    /\ UNCHANGED <<crashes, failures, missed>>

RemovalOpen ==
    /\ removing.step = "checked"
    /\ removing' = IF Present(removing.at)
                   THEN [removing EXCEPT !.step = "deleting"] ELSE NotRemoving
    /\ UNCHANGED directories /\ UNCHANGED requests /\ UNCHANGED faults

RemovalDone ==
    /\ removing.step = "deleting"
    /\ LET d == removing.at[1]
       IN  IF place[d] \in {"active", "abandoned"}
           THEN Vanishes(d, IF Present(removing.at) THEN "unused" ELSE place[d])
           ELSE UNCHANGED directories
    /\ removing' = NotRemoving
    /\ UNCHANGED requests /\ UNCHANGED faults

-----------------------------------------------------------------------------
(* A heartbeat comes, and a claim, a preservation or the end of a          *)
(* publication gets on, within a lease: the code's margin of 120 s, 30 s.  *)
Timely ==
    /\ \A d \in Dir : heart[d] # "none" => lease[d] # 1
    /\ \A w \in Request : pc[w] \in {"rename", "claimed", "expiring", "sealed"} /\ Here(w)
                            => lease[Own(w)] # 1

Tick ==
    /\ Timely /\ \E d \in Dir : Live(d)
    /\ lease' = [d \in Dir |-> IF Live(d) THEN lease[d] - 1 ELSE lease[d]]
    /\ UNCHANGED <<place, name, recorded, commit, heart, by>>
    /\ UNCHANGED requests /\ Still

Recovers(w) ==
    \/ Start(w) \/ RecoverPreserve(w) \/ RecoverDiscard(w) \/ RecoverDone(w)
    \/ \E p \in todo[w] : RecoverEntry(w, p)

Acquires(w) ==
    \/ Retry(w) \/ LookAtActive(w) \/ \E p \in todo[w] : Examine(w, p)
    \/ ClaimRenew(w) \/ ClaimRename(w) \/ ClaimFinish(w)
    \/ Make(w) \/ MakeLease(w) \/ MakeIdentity(w)

Ends(w) ==
    \/ Resolve(w) \/ \E to \in {"publishing", "dropping"} : FetchDone(w, to)
    \/ Drop(w) \/ Preserve(w) \/ Expire(w)
    \/ \E operation \in Operation : PublishBlocked(w, operation)
    \/ PublishList(w) \/ PublishClean(w) \/ PublishUnlease(w)
    \/ \E kind \in {"published", "unused"} : PublishRename(w, kind)

Proceeds(w) == Recovers(w) \/ Acquires(w) \/ Ends(w)

Renews(d) == Beat(d) \/ BeatLands(d)

Next ==
    \/ \E w \in Request :
        \/ Proceeds(w) \/ Crash(w) \/ FetchCancelled(w)
        \/ \E s \in Selection : Ask(w, s)
        \/ \E to \in {"failed", "dropping"} : FetchFails(w, to)
    \/ \E d \in Dir : Renews(d) \/ BeatFails(d) \/ RemovalCheck(<<d, name[d]>>)
    \/ RemovalOpen \/ RemovalDone
    \/ Tick

Spec == Init /\ [][Next]_vars

(* Threads run and helpers exit; a refused caller asks again; a removal    *)
(* gets to its end; time passes.  Nothing makes anyone ask, fail or die.   *)
Fairness ==
    /\ \A w \in Request : WF_vars(Proceeds(w))
    /\ \A d \in Dir : WF_vars(Renews(d))
    /\ WF_vars(RemovalOpen \/ RemovalDone)
    /\ WF_vars(Tick)

FairSpec == Spec /\ Fairness

-----------------------------------------------------------------------------
TypeOK ==
    /\ place \in [Dir -> {"unused", "active", "abandoned", "published"}]
    /\ name \in [Dir -> Nat]
    /\ recorded \in [Dir -> Selection \cup {None}]
    /\ commit \in [Dir -> BOOLEAN]
    /\ lease \in [Dir -> -1 .. Lease]
    /\ heart \in [Dir -> {"none", "asleep", "writing"}]
    /\ by \in [Dir -> Request \cup {None}]
    /\ pc \in [Request -> Step]
    /\ at \in [Request -> Path \cup {NoPath}]
    /\ wants \in [Request -> Selection]
    /\ loop \in [Request -> {"abandoned", "active"}]
    /\ todo \in [Request -> SUBSET Path]
    /\ removing \in [step : {"none", "checked", "deleting"}, at : Path \cup {NoPath}]
    /\ admitted \in [Request -> 0 .. MaxAdmitted]
    /\ {crashes, removals, failures, missed} \subseteq 0 .. MaxFaults

(* The lease protects its owner: no other process renames or removes the   *)
(* directory of an acquisition, nor ever reads it as expired               *)
(* (claim_fetch_staging: "an active marker is never observable with an     *)
(* expired lease").  Stated for when no renewal failed (a preservation of  *)
(* an expired directory may write its lease over a claimant's) and no      *)
(* operator removed anything: a removal that has read an expired lease     *)
(* takes the directory whoever has claimed it since.                       *)
LeaseProtects ==
    removals = 0 /\ missed = 0 =>
        \A w \in Request : pc[w] \in Owning =>
            Here(w) /\ (Live(Own(w)) \/ pc[w] \in {"made", "leaseless"})

(* What a resume could use is not lost: a directory that records a commit  *)
(* stops recording one only by the acquisition that owns it or by an       *)
(* operator's removal; recovery, claims and crashes only rename it.        *)
(* Stated while no heartbeat failed: the discard of an owner whose lease   *)
(* ran out is in the code.                                                 *)
CommittedKept ==
    [][\A d \in Dir : commit[d] /\ ~commit'[d] /\ missed = 0 =>
          \/ removing.step = "deleting" /\ removing.at[1] = d
          \/ \E w \in Request : pc[w] \in Owning /\ at[w] = <<d, name[d]>>
                                /\ pc'[w] # pc[w]]_vars

(* A directory whose lease is being renewed belongs to an acquisition that *)
(* is under way (docs/admin-api.md:364: "`active`: the lease has not       *)
(* expired, so a live acquisition owns the directory"), on every path of   *)
(* failure, cancellation, publication and death but one: a refresh whose   *)
(* revision is half removed returns without removing its directory.        *)
RenewedIsOwned ==
    \A d \in Dir : heart[d] # "none" =>
        \E w \in Request : by[d] = w /\ pc[w] \in Owning /\ at[w] = <<d, name[d]>>

Seeking == {"refused", "look", "claim", "rename", "claimed", "made", "leased"}

(* A refusal is temporary: a caller that asks again gets a directory,      *)
(* whoever held one died or not (the refusal of acquire_fetch_staging;     *)
(* docs/structured-operational-events.md:247 bounds it by the lease).      *)
(* Checked without refreshes, with which it is false if the revision is    *)
(* half removed: see RenewedIsOwned.                                       *)
EveryRetryAdmitted ==
    \A w \in Request : pc[w] \in Seeking ~> pc[w] \notin Seeking
=============================================================================
