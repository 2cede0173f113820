----------------------------- MODULE PullThrough -----------------------------
(***************************************************************************)
(* Acquisition of one repository on demand: what clients of the download   *)
(* routes, prefetch jobs and refreshes ask for, the single flights that    *)
(* serve them, the reconciliation of a selection with what is archived,    *)
(* the wait for the transfer slot, the transfer, and what it does to the   *)
(* revisions and to the mutable reference (src/src/pullthrough.rs,         *)
(* src/src/http.rs; the selections of src/src/upstream.rs).                *)
(*                                                                         *)
(* A flight carries the name of the caller that leads it.  The archive is  *)
(* what Archive promises: a publication or an extension is one step.  The  *)
(* commits of upstream are numbered in the order its reference named them. *)
(***************************************************************************)
EXTENDS Integers, Sequences, SequencesExt

CONSTANTS
    Caller,       \* clients and jobs
    Path,
    Files,        \* Files[c]: the paths upstream holds at commit c
    Wishes,       \* what the callers may come for: functions from Caller to Request
    Main,         \* the mutable reference
    None,
    MaxMishaps    \* bound: failures of upstream, cancellations and passed deadlines

Commit == DOMAIN Files
Kind == {"all", "named", "pattern"}
All == [kind |-> "all", paths |-> Path]
Named(P) == [kind |-> "named", paths |-> P]
Selection == [kind : Kind, paths : SUBSET Path]
Op == {"file", "metadata", "prefetch", "refresh", "dry_run"}
Request == [op : Op, revision : Commit \cup {Main}, sel : Selection]

ASSUME FilesAssumption ==
    /\ Files \in Seq((SUBSET Path) \ {{}})
    /\ Files # <<>>
ASSUME NamesAssumption == Main \notin Commit /\ None \notin Commit \cup Caller
ASSUME NoneAssumption == None \notin [Path -> Commit \cup {None}]
ASSUME WishesAssumption ==
    /\ Wishes \subseteq [Caller -> Request]
    /\ \A wish \in Wishes : \A w \in Caller : LET asked == wish[w] IN
        /\ asked.op = "file" => \E p \in Path : asked.sel = Named({p})
        /\ asked.op \in {"metadata", "refresh", "dry_run"} => asked.sel = All
        /\ asked.op \in {"refresh", "dry_run"} => asked.revision = Main
ASSUME BoundsAssumption == MaxMishaps \in Nat

VARIABLES
    held,       \* [Commit -> paths of its manifest; {} not published]
    recorded,   \* commits whose upstream file list is recorded
    ref,        \* the commit Main names in the archive, or None
    named,      \* resolved_refs: the commit metadata said Main names, or None;
                \* neither its bound nor its loss with the process is modelled
    retained,   \* staging kept to be resumed: [revision, sel, commit]
    head,       \* the commit Main names upstream
    at, req,    \* per caller: its step and its request
    joined,     \* per caller: the flight it waits for
    answer,     \* per caller: what it was told
    step,       \* per flight: its step, "none" when no flight is running
    wants,      \* per flight: its selection, narrowed to what is missing
    found,      \* per flight or metadata caller: the commit upstream named
    commit,     \* per flight: the commit it transfers, or None
    waited,     \* per flight: it waited for the slot
    token,      \* per flight: "running", "cancelled", "committing"
    outcome,    \* per flight: its result
    queue, slot,            \* the transfer gate of the repository
    mishaps

archive == <<held, recorded, ref>>
callers == <<at, req, joined, answer>>
flights == <<step, wants, found, commit, waited, token, outcome>>
gate == <<queue, slot>>
vars == <<archive, named, retained, head, callers, flights, gate, mishaps>>

Ok(c) == [ok |-> TRUE, commit |-> c, error |-> "none"]
Err(e) == [ok |-> FALSE, commit |-> None, error |-> e]
NoOutcome == Err("none")

Published(c) == held[c] # {}
Ready(c, required) == Published(c) /\ required \subseteq held[c]
Required(s) == IF s.kind = "named" THEN s.paths ELSE {}
Covered(s, c) == Files[c] \cap s.paths

(* What upstream answers to a revision.                                    *)
Target(r) == IF r = Main THEN head ELSE r
(* What the archive answers to a revision: None if it is not a commit.     *)
Resolved(r) == IF r = Main THEN ref ELSE r
PublishedCommit(r) ==
    IF Resolved(r) # None /\ Published(Resolved(r)) THEN Resolved(r) ELSE None
PathOf(w) == CHOOSE p \in Path : req[w].sel = Named({p})
Reconciles(f) == req[f].op = "prefetch"
Refreshes(f) == req[f].op \in {"refresh", "dry_run"}

(* Two maps of flights: acquisitions by revision and selection, refreshes  *)
(* by reference and dry run.  A client and a job may share a flight.       *)
Key(r) == IF r.op \in {"refresh", "dry_run"} THEN <<r.op, r.revision>>
                                             ELSE <<"pull", r.revision, r.sel>>

Init ==
    /\ held = [c \in Commit |-> {}]
    /\ recorded = {} /\ ref = None /\ named = None /\ retained = {} /\ head = 1
    /\ at = [w \in Caller |-> "idle"]
    /\ req \in Wishes
    /\ joined = [w \in Caller |-> None]
    /\ answer = [w \in Caller |-> NoOutcome]
    /\ step = [f \in Caller |-> "none"]
    /\ wants = [f \in Caller |-> All]
    /\ found = [f \in Caller |-> None]
    /\ commit = [f \in Caller |-> None]
    /\ waited = [f \in Caller |-> FALSE]
    /\ token = [f \in Caller |-> "running"]
    /\ outcome = [f \in Caller |-> NoOutcome]
    /\ queue = <<>> /\ slot = None
    /\ mishaps = 0

-----------------------------------------------------------------------------
(* A caller.                                                               *)

Goes(w, to) == at' = [at EXCEPT ![w] = to]
Told(w, a) == Goes(w, "answered") /\ answer' = [answer EXCEPT ![w] = a]
Mishap == mishaps < MaxMishaps /\ mishaps' = mishaps + 1
CallerOnly == UNCHANGED <<archive, retained, head, flights, gate, mishaps>>

Ask(w) ==
    /\ at[w] = "idle"
    /\ Goes(w, CASE req[w].op = "file" -> "looking"
                 [] req[w].op = "metadata" -> "describing"
                 [] OTHER -> "joining")
    /\ UNCHANGED <<req, joined, answer, named>> /\ CallerOnly

(* file_response: a file of the archive needs nobody else.                 *)
LookUp(w) ==
    /\ at[w] = "looking"
    /\ LET c == Resolved(req[w].revision)
       IN IF c # None /\ PathOf(w) \in held[c]
          THEN Told(w, Ok(c)) ELSE Goes(w, "ensuring") /\ UNCHANGED answer
    /\ UNCHANGED <<req, joined, named>> /\ CallerOnly

Describe(w) ==
    /\ at[w] = "describing"
    /\ LET c == PublishedCommit(req[w].revision)
       IN IF c # None THEN Told(w, Ok(c)) ELSE Goes(w, "inquiring") /\ UNCHANGED answer
    /\ UNCHANGED <<req, joined, named>> /\ CallerOnly

(* upstream_metadata: the answer of upstream, and its name remembered.     *)
(* Without a file list the revision is acquired.                           *)
Inquire(w) ==
    /\ at[w] = "inquiring"
    /\ LET c == Target(req[w].revision)
       IN \/ /\ found' = [found EXCEPT ![w] = c]
             /\ IF req[w].revision = Main
                THEN named' = c /\ Goes(w, "naming") /\ UNCHANGED answer
                ELSE UNCHANGED named /\ Told(w, Ok(c))
          \/ Goes(w, "ensuring") /\ UNCHANGED <<answer, named, found>>
    /\ UNCHANGED <<archive, retained, head, req, joined, gate, mishaps>>
    /\ UNCHANGED <<step, wants, commit, waited, token, outcome>>

InquireFails(w) ==
    /\ at[w] = "inquiring" /\ Mishap
    /\ Told(w, Err("unavailable"))
    /\ UNCHANGED <<archive, named, retained, head, req, joined, flights, gate>>

(* Mutant of Adoptive: a name is adopted for a recorded commit only.       *)
AdoptiveLate(c) == named = c /\ ref = None /\ c \in recorded

(* adopt_resolved_refs: a reference the archive lacks is made to name the  *)
(* commit, if it is published; the two are read one after the other, and   *)
(* what a refresh made the reference name in between is overwritten.       *)
Adoptive(c) == named = c /\ ref = None

Name(w) ==
    /\ at[w] = "naming"
    /\ IF Adoptive(found[w]) THEN Goes(w, "adopting") /\ UNCHANGED answer
                             ELSE Told(w, Ok(found[w]))
    /\ UNCHANGED <<req, joined, named>> /\ CallerOnly

Adopted(c) == IF Published(c) THEN c ELSE ref

AdoptFor(w) ==
    /\ at[w] = "adopting"
    /\ ref' = Adopted(found[w])
    /\ Told(w, Ok(found[w]))
    /\ UNCHANGED <<held, recorded, named, retained, head, req, joined, flights, gate, mishaps>>

(* ensure_bounded: a revision that is ready is enough.  A metadata request *)
(* names no file.                                                          *)
Ensure(w) ==
    /\ at[w] = "ensuring"
    /\ LET c == Resolved(req[w].revision)
       IN IF c # None /\ Ready(c, Required(req[w].sel))
          THEN Goes(w, "woken") /\ answer' = [answer EXCEPT ![w] = Ok(c)]
          ELSE Goes(w, "joining") /\ UNCHANGED answer
    /\ UNCHANGED <<req, joined, named>> /\ CallerOnly

Running(f) == step[f] # "none"

(* The flight that does this work already.                                 *)
Same(w) == {f \in Caller : Running(f) /\ Key(req[f]) = Key(req[w])}

Join(w) ==
    /\ at[w] = "joining"
    /\ IF Same(w) # {}
       THEN /\ joined' = [joined EXCEPT ![w] = CHOOSE f \in Same(w) : TRUE]
            /\ UNCHANGED <<step, wants>>
       ELSE /\ joined' = [joined EXCEPT ![w] = w]
            /\ step' = [step EXCEPT ![w] = "registering"]
            /\ wants' = [wants EXCEPT ![w] = req[w].sel]
    /\ Goes(w, "waiting")
    /\ UNCHANGED <<archive, named, retained, head, req, answer, gate, mishaps>>
    /\ UNCHANGED <<found, commit, waited, token, outcome>>

(* The cold-miss deadline of a file: 503, and the flight goes on.          *)
GiveUp(w) ==
    /\ at[w] = "waiting" /\ req[w].op = "file" /\ Mishap
    /\ Told(w, Err("pending"))
    /\ joined' = [joined EXCEPT ![w] = None]
    /\ UNCHANGED <<archive, named, retained, head, req, flights, gate>>

AskAgain(w) ==
    /\ at[w] = "answered" /\ answer[w].error = "pending"
    /\ Goes(w, "looking")
    /\ answer' = [answer EXCEPT ![w] = NoOutcome]
    /\ UNCHANGED <<req, joined, named>> /\ CallerOnly

(* What became of the flight: a file is looked up again.                   *)
Served(w) ==
    /\ at[w] = "woken"
    /\ Told(w, IF req[w].op = "file" /\ answer[w].ok /\ PathOf(w) \notin held[answer[w].commit]
               THEN Err("not_found") ELSE answer[w])
    /\ UNCHANGED <<req, joined, named>> /\ CallerOnly

-----------------------------------------------------------------------------
(* A flight.                                                               *)

Moves(f, to) == step' = [step EXCEPT ![f] = to]
Quiet == UNCHANGED <<callers, named, head, mishaps>>
SelectionSame == UNCHANGED <<wants, outcome, slot>>

(* It ends: its permit, if it has one, is dropped.                         *)
Ends(f, result) ==
    /\ Moves(f, "retiring")
    /\ outcome' = [outcome EXCEPT ![f] = result]
    /\ slot' = IF slot = f THEN None ELSE slot

Register(f) ==
    /\ step[f] = "registering"
    /\ Moves(f, IF Refreshes(f) THEN "entering"
                ELSE IF Reconciles(f) THEN "reconciling" ELSE "checking")
    /\ Quiet
    /\ UNCHANGED <<archive, retained, wants, found, commit, waited, token, outcome, gate>>

AfterReconcile(f) == IF slot = f THEN "staging" ELSE "checking"

Lacking(f, c) == Covered(wants[f], c) \ held[c]

Compared(f, c) ==
    IF Lacking(f, c) = {}
    THEN Ends(f, Ok(c)) /\ UNCHANGED wants
    ELSE /\ wants' = [wants EXCEPT ![f] = Named(Lacking(f, c))]
         /\ Moves(f, AfterReconcile(f))
         /\ UNCHANGED <<outcome, slot>>

(* upstream_files_for_type: the list recorded for a commit can be read.    *)
OnRecord(c) == c \in recorded

(* reconcile_from_record: a commit, its own list, and paths to compare.    *)
ByRecord(f) == OnRecord(req[f].revision) /\ wants[f].kind # "pattern"

(* reconcile_selection up to the call of upstream.                         *)
Reconcile(f) ==
    /\ step[f] = "reconciling"
    /\ LET c == PublishedCommit(req[f].revision)
       IN IF c = None THEN Moves(f, AfterReconcile(f)) /\ SelectionSame
          ELSE IF token[f] = "cancelled" THEN Ends(f, Err("cancelled")) /\ UNCHANGED wants
          ELSE IF ByRecord(f) THEN Compared(f, c)
          ELSE Moves(f, "inventory") /\ SelectionSame
    /\ Quiet
    /\ UNCHANGED <<archive, retained, found, commit, waited, token, queue>>

Inventory(f) ==
    /\ step[f] = "inventory"
    /\ found' = [found EXCEPT ![f] = Target(req[f].revision)]
    /\ Moves(f, "comparing")
    /\ Quiet
    /\ UNCHANGED <<archive, retained, wants, commit, waited, token, outcome, gate>>

InventoryFails(f) ==
    /\ step[f] = "inventory" /\ Mishap
    /\ Ends(f, Err("unavailable"))
    /\ UNCHANGED <<archive, callers, named, head, retained, wants, found, commit, waited, token>>
    /\ UNCHANGED queue

Compare(f) ==
    /\ step[f] = "comparing"
    /\ IF Published(found[f]) THEN Compared(f, found[f])
                              ELSE Moves(f, AfterReconcile(f)) /\ SelectionSame
    /\ Quiet
    /\ UNCHANGED <<archive, retained, found, commit, waited, token, queue>>

(* fetch_and_publish_selection: only a reference is looked up, and a       *)
(* selection that names no path requires none.                             *)
Check(f) ==
    /\ step[f] = "checking"
    /\ IF req[f].revision = Main /\ ref # None /\ Ready(ref, Required(wants[f]))
       THEN Ends(f, Ok(ref))
       ELSE Moves(f, "entering") /\ UNCHANGED <<outcome, slot>>
    /\ Quiet
    /\ UNCHANGED <<archive, retained, wants, found, commit, waited, token, queue>>

(* The gate admits one transfer of a repository, in the order of arrival   *)
(* (module TransferGate).                                                  *)
Enter(f) ==
    /\ step[f] = "entering"
    /\ queue' = Append(queue, f)
    /\ waited' = [waited EXCEPT ![f] = slot # None \/ queue # <<>>]
    /\ Moves(f, "queued")
    /\ Quiet
    /\ UNCHANGED <<archive, retained, wants, found, commit, token, outcome, slot>>

(* Mutant of AfterWait: a transfer that waited is made as it was asked for. *)
AfterWaitAsAsked(f) == "staging"

AfterWait(f) == IF Reconciles(f) /\ waited[f] THEN "reconciling" ELSE "staging"

Admit(f) ==
    /\ step[f] = "queued" /\ slot = None /\ queue # <<>> /\ f = Head(queue)
    /\ queue' = Tail(queue)
    /\ IF token[f] = "cancelled"
       THEN Ends(f, Err("cancelled"))
       ELSE slot' = f /\ Moves(f, AfterWait(f)) /\ UNCHANGED outcome
    /\ Quiet
    /\ UNCHANGED <<archive, retained, wants, found, commit, waited, token>>

LeaveQueue(f) ==
    /\ step[f] = "queued" /\ token[f] = "cancelled"
    /\ \E i \in DOMAIN queue : queue[i] = f /\ queue' = RemoveAt(queue, i)
    /\ Ends(f, Err("cancelled"))
    /\ Quiet
    /\ UNCHANGED <<archive, retained, wants, found, commit, waited, token>>

(* acquire_fetch_staging (module FetchStaging): what it resumes pins the   *)
(* helper to the commit recorded there.                                    *)
Resumable(f) == {s \in retained : /\ s.revision = req[f].revision
                                  /\ s.sel.kind = "all" \/ s.sel = wants[f]}

Stage(f) ==
    /\ step[f] = "staging"
    /\ \/ Resumable(f) = {} /\ UNCHANGED <<commit, retained>>
       \/ \E s \in Resumable(f) : /\ commit' = [commit EXCEPT ![f] = s.commit]
                                  /\ retained' = retained \ {s}
    /\ Moves(f, "resolving")
    /\ Quiet
    /\ UNCHANGED <<archive, wants, found, waited, token, outcome, gate>>

Pinned(f) == IF commit[f] = None THEN Target(req[f].revision) ELSE commit[f]

(* The helper names the commit, which is recorded in the staging.          *)
FetchResolve(f) ==
    /\ step[f] = "resolving" /\ token[f] # "cancelled"
    /\ commit' = [commit EXCEPT ![f] = Pinned(f)]
    /\ Moves(f, "fetching")
    /\ Quiet
    /\ UNCHANGED <<archive, retained, wants, found, waited, token, outcome, gate>>

(* Mutant of Preserved: a staging without a resolved commit is kept too.   *)
PreservedAlways(f) ==
    retained' = retained \cup
        {[revision |-> req[f].revision, sel |-> wants[f], commit |-> commit[f]]}

Preserved(f) ==
    retained' = IF commit[f] = None THEN retained ELSE retained \cup
        {[revision |-> req[f].revision, sel |-> wants[f], commit |-> commit[f]]}

(* A snapshot without files is invalid output, and is not kept.            *)
FetchDone(f) ==
    /\ step[f] = "fetching" /\ token[f] # "cancelled"
    /\ IF Covered(wants[f], commit[f]) = {}
       THEN Ends(f, Err("invalid_output"))
       ELSE Moves(f, "claiming") /\ UNCHANGED <<outcome, slot>>
    /\ Quiet
    /\ UNCHANGED <<archive, retained, wants, found, commit, waited, token, queue>>

(* handle_fetch_failure: some failures keep the staging.                   *)
FetchFails(f) ==
    /\ step[f] \in {"resolving", "fetching"} /\ Mishap
    /\ Preserved(f) \/ UNCHANGED retained
    /\ Ends(f, Err("unavailable"))
    /\ UNCHANGED <<archive, callers, named, head, wants, found, commit, waited, token>>
    /\ UNCHANGED queue

FetchCancelled(f) ==
    /\ step[f] \in {"resolving", "fetching"} /\ token[f] = "cancelled"
    /\ Preserved(f)
    /\ Ends(f, Err("cancelled"))
    /\ Quiet
    /\ UNCHANGED <<archive, wants, found, commit, waited, token, queue>>

(* Mutant of Wins: the claim does not look at the token.                   *)
WinsAlways(f) == TRUE

Wins(f) == token[f] = "running"

(* A dry run publishes nothing; a refresh leaves a revision that is        *)
(* published as it is.                                                     *)
AfterClaim(f) == CASE req[f].op = "dry_run" -> "retiring"
                   [] req[f].op = "refresh" /\ Published(commit[f]) -> "recording"
                   [] OTHER -> "publishing"

(* Cancellation::commit.                                                   *)
Claim(f) ==
    /\ step[f] = "claiming"
    /\ \/ /\ ~Wins(f)
          /\ Preserved(f)
          /\ Ends(f, Err("cancelled"))
          /\ UNCHANGED token
       \/ /\ Wins(f)
          /\ token' = [token EXCEPT ![f] = IF @ = "running" THEN "committing" ELSE @]
          /\ IF AfterClaim(f) = "retiring"
             THEN Ends(f, Ok(commit[f]))
             ELSE Moves(f, AfterClaim(f)) /\ UNCHANGED <<outcome, slot>>
          /\ UNCHANGED retained
    /\ Quiet
    /\ UNCHANGED <<archive, wants, found, commit, waited, queue>>

(* Mutant of Extended: what is published already is left as it is.         *)
ExtendedNever(f) == IF Published(commit[f]) THEN held[commit[f]]
                                            ELSE Covered(wants[f], commit[f])

Extended(f) == held[commit[f]] \cup Covered(wants[f], commit[f])

(* Publication, or extension of what is published, with the files of the   *)
(* helper.                                                                 *)
Publish(f) ==
    /\ step[f] = "publishing"
    /\ held' = [held EXCEPT ![commit[f]] = Extended(f)]
    /\ Moves(f, "recording")
    /\ Quiet
    /\ UNCHANGED <<recorded, ref, retained, wants, found, commit, waited, token, outcome, gate>>

(* record_upstream_files_for_type: a list that is recorded is kept.        *)
Recorded(c) == recorded \cup {c}

(* staged_upstream_files: the helper may have reported no list.            *)
Recordable(f) == {recorded, Recorded(commit[f])}

(* record_upstream_files: a failure to write the list is only logged.      *)
Record(f) ==
    /\ step[f] = "recording"
    /\ recorded' \in Recordable(f)
    /\ Moves(f, IF req[f].revision = Main THEN "pointing" ELSE "naming")
    /\ Quiet
    /\ UNCHANGED <<held, ref, retained, wants, found, commit, waited, token, outcome, gate>>

Point(f) ==
    /\ step[f] = "pointing"
    /\ ref' = commit[f]
    /\ IF Refreshes(f) THEN Ends(f, Ok(commit[f]))
                       ELSE Moves(f, "naming") /\ UNCHANGED <<outcome, slot>>
    /\ Quiet
    /\ UNCHANGED <<held, recorded, retained, wants, found, commit, waited, token, queue>>

NameAfter(f) ==
    /\ step[f] = "naming"
    /\ IF Adoptive(commit[f]) THEN Moves(f, "adopting") /\ UNCHANGED <<outcome, slot>>
                              ELSE Ends(f, Ok(commit[f]))
    /\ Quiet
    /\ UNCHANGED <<archive, retained, wants, found, commit, waited, token, queue>>

AdoptAfter(f) ==
    /\ step[f] = "adopting"
    /\ ref' = commit[f]
    /\ Ends(f, Ok(commit[f]))
    /\ Quiet
    /\ UNCHANGED <<held, recorded, retained, wants, found, commit, waited, token, queue>>

(* Mutant of Woken: only the leader is woken.                              *)
WokenLeader(f) == {w \in {f} : at[w] = "waiting" /\ joined[w] = f}

Woken(f) == {w \in Caller : at[w] = "waiting" /\ joined[w] = f}

(* The key leaves the map and everyone who joined gets the result.         *)
Retire(f) ==
    /\ step[f] = "retiring"
    /\ at' = [w \in Caller |-> IF w \in Woken(f) THEN "woken" ELSE at[w]]
    /\ answer' = [w \in Caller |-> IF w \in Woken(f) THEN outcome[f] ELSE answer[w]]
    /\ joined' = [w \in Caller |-> IF w \in Woken(f) THEN None ELSE joined[w]]
    /\ Moves(f, "none")
    /\ wants' = [wants EXCEPT ![f] = All]
    /\ found' = [found EXCEPT ![f] = None]
    /\ commit' = [commit EXCEPT ![f] = None]
    /\ waited' = [waited EXCEPT ![f] = FALSE]
    /\ token' = [token EXCEPT ![f] = "running"]
    /\ outcome' = [outcome EXCEPT ![f] = NoOutcome]
    /\ UNCHANGED <<archive, named, retained, head, req, gate, mishaps>>

(* What the view of the registry lists.                                    *)
InFlight(f) == step[f] \notin {"none", "registering", "retiring"}

(* cancel_acquisition, of the registry: a committed flight goes on.        *)
Stops(f) == /\ token[f] = "running"
            /\ token' = [token EXCEPT ![f] = "cancelled"]

(* An operator cancels what is in flight.                                  *)
Cancel(f) ==
    /\ InFlight(f) /\ Stops(f) /\ Mishap
    /\ UNCHANGED <<archive, named, retained, head, callers, gate>>
    /\ UNCHANGED <<step, wants, found, commit, waited, outcome>>

Advance ==
    /\ head + 1 \in Commit
    /\ head' = head + 1
    /\ UNCHANGED <<archive, named, retained, callers, flights, gate, mishaps>>

Calls(w) == \/ Ask(w) \/ LookUp(w) \/ Describe(w) \/ Inquire(w) \/ Name(w) \/ AdoptFor(w)
            \/ Ensure(w) \/ Join(w) \/ Served(w)
Works(f) == \/ Register(f) \/ Reconcile(f) \/ Inventory(f) \/ Compare(f) \/ Check(f)
            \/ Enter(f) \/ Admit(f) \/ LeaveQueue(f) \/ Stage(f)
            \/ FetchResolve(f) \/ FetchDone(f) \/ FetchCancelled(f) \/ Claim(f)
            \/ Publish(f) \/ Record(f) \/ Point(f) \/ NameAfter(f) \/ AdoptAfter(f) \/ Retire(f)
Happens(w) == \/ GiveUp(w) \/ AskAgain(w) \/ InquireFails(w)
              \/ InventoryFails(w) \/ FetchFails(w) \/ Cancel(w)

Next == Advance \/ \E w \in Caller : Calls(w) \/ Works(w) \/ Happens(w)

Spec == Init /\ [][Next]_vars

(* A thread that can take a step takes it, and a helper that runs ends.    *)
FairSpec == Spec /\ \A w \in Caller : WF_vars(Calls(w)) /\ WF_vars(Works(w))

-----------------------------------------------------------------------------
TypeOK ==
    /\ held \in [Commit -> SUBSET Path] /\ recorded \subseteq Commit
    /\ {ref, named} \subseteq Commit \cup {None} /\ head \in Commit
    /\ retained \subseteq [revision : Commit \cup {Main}, sel : Selection, commit : Commit]
    /\ at \in [Caller -> {"idle", "looking", "describing", "inquiring", "naming", "adopting",
                          "ensuring", "joining", "waiting", "woken", "answered"}]
    /\ req \in [Caller -> Request]
    /\ joined \in [Caller -> Caller \cup {None}]
    /\ step \in [Caller -> {"none", "registering", "reconciling", "inventory", "comparing",
                            "checking", "entering", "queued", "staging", "resolving", "fetching",
                            "claiming", "publishing", "recording", "pointing", "naming",
                            "adopting", "retiring"}]
    /\ wants \in [Caller -> Selection]
    /\ found \in [Caller -> Commit \cup {None}] /\ commit \in [Caller -> Commit \cup {None}]
    /\ token \in [Caller -> {"running", "cancelled", "committing"}]
    /\ waited \in [Caller -> BOOLEAN]
    /\ slot \in Caller \cup {None} /\ queue \in Seq(Caller)

(* What a success means.  A client is told that a file does not exist only *)
(* if upstream holds no such file at the commit it was given; a prefetch   *)
(* that names a commit has archived everything the selection covers there: *)
(* whichever flight either shared, whatever was archived meanwhile by      *)
(* others, from an earlier attempt, or before the selection was narrowed   *)
(* to what was missing.                                                    *)
Succeeded(w, op) == at[w] = "answered" /\ req[w].op = op /\ answer[w].ok
AskedIsArchived ==
    \A w \in Caller :
        /\ at[w] = "woken" /\ req[w].op = "file" /\ answer[w].ok =>
              \/ PathOf(w) \in held[answer[w].commit]
              \/ PathOf(w) \notin Files[answer[w].commit]
        /\ Succeeded(w, "prefetch") /\ req[w].revision # Main =>
              Covered(req[w].sel, answer[w].commit) \subseteq held[answer[w].commit]

(* The comment on acquire_reconciled (src/src/pullthrough.rs 920-929)      *)
(* promises the same of every prefetch.                                    *)
PrefetchCovers ==
    \A w \in Caller : Succeeded(w, "prefetch") =>
        Covered(req[w].sel, answer[w].commit) \subseteq held[answer[w].commit]

(* The second look at the archive: a prefetch of a commit that waited for  *)
(* the slot transfers no file that the archive holds by then.              *)
WaitedTransfersTheRest ==
    \A f \in Caller :
        Reconciles(f) /\ waited[f] /\ req[f].revision # Main /\ step[f] = "fetching" =>
            Covered(wants[f], commit[f]) \cap held[commit[f]] = {}

(* A repository that was downloaded by commit, as a client does after a    *)
(* metadata answer, can be downloaded by the name it was asked for: once   *)
(* nobody is about to adopt the name, the archive has a reference for it.  *)
(* Which commit that is the property leaves open: a refresh moves it on,   *)
(* and an adoption may move it back (README.md, section 6).                *)
Adopting(w) == at[w] \in {"naming", "adopting"} \/
               step[w] \in {"recording", "pointing", "naming", "adopting"}
NameIsLearned ==
    named # None /\ Published(named) /\ (\A w \in Caller : ~Adopting(w)) => ref # None

(* Cancellation and publication exclude each other: what a cancelled       *)
(* flight transferred is not in the archive, its reference is not moved,   *)
(* and whoever shared it is not told that it was acquired.                 *)
CancelledChangesNothing ==
    [][\A f \in Caller : token[f] = "cancelled" /\ step'[f] # step[f] =>
           UNCHANGED archive /\ (outcome'[f].ok => commit[f] = None)]_vars

(* Of the archive this module takes only what Archive promises: whichever  *)
(* of the flights and callers do it, in whatever order, a revision appears *)
(* with a file, keeps what it has, and is there when the reference is made *)
(* to name it.  A file is one of its commit; it is on disk when a step of  *)
(* this module ends, so nothing is left that could be lost.                *)
View(paths, c) ==
    IF paths # {} THEN [p \in Path |-> IF p \in paths THEN c ELSE None] ELSE None

Abstract == INSTANCE Archive WITH
    Ref <- {Main}, Content <- Commit, Fragile <- {}, Torn <- None,
    held <- [c \in Commit |-> View(held[c], c)],
    earlier <- [c \in Commit |-> {}],
    ref <- [r \in {Main} |-> ref],
    condemned <- {}

UsesArchive == Abstract!Spec

(* Whatever fails, is cancelled or is given up, every request is answered. *)
EveryCallerAnswered == \A w \in Caller : at[w] = "joining" ~> at[w] = "answered"
=============================================================================
