--------------------------- MODULE ArchiveReaders ---------------------------
(***************************************************************************)
(* Everything that reads a repository of the archive while module          *)
(* RevisionStore changes it: the client's file and metadata requests, the  *)
(* inventory, verify and audit jobs and the self-check.  None of them      *)
(* takes a lock: each is a sequence of reads of the file system, and what  *)
(* it answers is put together from states that need not have existed at    *)
(* once.  The walk over types, namespaces and repositories is outside the  *)
(* model, as are names that no operation of the program can have written;  *)
(* a listing of a directory is taken at once.  Fetch staging is in module  *)
(* FetchStaging.                                                           *)
(***************************************************************************)
EXTENDS RevisionStore

CONSTANTS
    Reader,         \* requests and jobs: each reads once
    Operation       \* what they may ask for

(* A request that names 40 hexadecimal digits names a commit.              *)
ASSUME ReaderAssumption ==
    /\ Operation \subseteq {"get", "describe", "list", "verify", "audit", "check"}
    /\ Ref \cap Commit = {}

VARIABLES
    read,           \* what each reader does and has read
    since           \* history: what has been so since it began

readers == <<read, since>>

(* commit: the revision it works on, or the reference to resolve; path and *)
(* manifest: of that revision; todo: its files to go; left: revisions or   *)
(* references to go; kept and found: what it has found good, and bad.      *)
Idle == [op |-> "none", step |-> "idle", commit |-> None, path |-> None,
         manifest |-> None, todo |-> {}, left |-> {}, kept |-> {}, found |-> {},
         answer |-> None]

-----------------------------------------------------------------------------
(* What is wrong with the revisions.                                       *)
Damage ==
    {<<"invalid_manifest", x, None>> : x \in {c \in directory : ~ Published(c)}}
    \cup {<<"missing_file", x[1], x[2]>> :
            x \in {y \in Commit \X Path : y[2] \in Listed(y[1]) /\ file[y[1]][y[2]] = None}}
    \cup {<<"other_bytes", x[1], x[2]>> :
            x \in {y \in Commit \X Path : y[2] \in Listed(y[1]) /\ file[y[1]][y[2]] = Torn}}
    \cup {<<"unlisted_file", x[1], x[2]>> :
            x \in {y \in Commit \X Path : /\ Published(y[1]) /\ y[2] \notin Listed(y[1])
                                          /\ file[y[1]][y[2]] # None}}

(* The revisions with which nothing is wrong and that nobody extends.      *)
Quiet == {c \in Commit : Published(c) /\ lock[c] = None /\ file[c] = manifest[c]}

Held == {h \in Commit \X Path : h[2] \in Listed(h[1])}

Nothing == [held |-> {}, damage |-> {}, quiet |-> {}]

(* What each kind of reading has to be measured by.                        *)
Begun(op) ==
    [held |-> IF op \in {"verify", "audit"} THEN {} ELSE Held,
     damage |-> IF op \in {"verify", "audit", "check"} THEN Damage ELSE {},
     quiet |-> IF op \in {"verify", "audit"} THEN Quiet ELSE {}]

(* History: after every step of the store.                                 *)
Observed ==
    since' = [r \in Reader |->
        IF read[r].step = "ending" THEN since[r]
        ELSE [since[r] EXCEPT !.damage = @ \cap Damage', !.quiet = @ \cap Quiet']]

InitReaders ==
    /\ Init
    /\ read = [r \in Reader |-> Idle]
    /\ since = [r \in Reader |-> Nothing]

-----------------------------------------------------------------------------
Becomes(r, x) == read' = [read EXCEPT ![r] = x]
Ending(r, a) == Becomes(r, [read[r] EXCEPT !.step = "ending", !.answer = a])
At(r, op, s) == read[r].op \in op /\ read[r].step = s
Walks(op) == op \in {"list", "audit", "check"}
OnlyReads(r) == UNCHANGED <<vars, since>>

Starts(r, x) ==
    /\ read[r] = Idle
    /\ x.op \in Operation
    /\ Becomes(r, x)
    /\ since' = [since EXCEPT ![r] = Begun(x.op)]
    /\ UNCHANGED vars

(* A request for a file of a reference or of a commit, for the metadata of *)
(* a commit; a job that verifies a revision or all of them; the inventory; *)
(* a self-check.                                                           *)
AskFile(r) ==
    \E v \in Ref \cup Commit, p \in Path :
        Starts(r, [Idle EXCEPT !.op = "get", !.commit = v, !.path = p,
                               !.step = IF v \in Ref THEN "resolve" ELSE "manifest"])

AskMetadata(r) ==
    \E c \in Commit : Starts(r, [Idle EXCEPT !.op = "describe", !.commit = c, !.step = "manifest"])

AskVerify(r) ==
    \E c \in Commit : Starts(r, [Idle EXCEPT !.op = "verify", !.commit = c, !.step = "manifest"])

AskAudit(r) == Starts(r, [Idle EXCEPT !.op = "audit", !.step = "scan"])

AskInventory(r) == Starts(r, [Idle EXCEPT !.op = "list", !.step = "refs", !.left = Ref])

AskCheck(r) == Starts(r, [Idle EXCEPT !.op = "check", !.step = "scan"])

(* resolve_ref.                                                            *)
Resolve(r) ==
    /\ At(r, {"get"}, "resolve")
    /\ LET c == ref[read[r].commit]
       IN IF c = None THEN Ending(r, "miss")
          ELSE Becomes(r, [read[r] EXCEPT !.commit = c, !.step = "manifest"])
    /\ OnlyReads(r)

(* resolve_file: the manifest, then the file.  What is not found is a miss *)
(* and asks upstream.                                                      *)
GetManifest(r) ==
    /\ At(r, {"get"}, "manifest")
    /\ LET x == read[r]
       IN IF x.path \notin Listed(x.commit) THEN Ending(r, "miss")
          ELSE Becomes(r, [x EXCEPT !.step = "file", !.manifest = manifest[x.commit][x.path]])
    /\ OnlyReads(r)

GetFile(r) ==
    /\ At(r, {"get"}, "file")
    /\ IF file[read[r].commit][read[r].path] = None THEN Ending(r, "miss")
       ELSE Becomes(r, [read[r] EXCEPT !.step = "open"])
    /\ OnlyReads(r)

(* The answer states the digest of the manifest; its body is the file that *)
(* is there when it is opened, whatever happens to the name later.  HEAD   *)
(* and an equal validator need no body.                                    *)
GetBody(r) ==
    /\ At(r, {"get"}, "open")
    /\ LET body == file[read[r].commit][read[r].path]
       IN \/ Ending(r, "headers")
          \/ body = None /\ Ending(r, "error")
          \/ body # None /\ Becomes(r, [read[r] EXCEPT !.step = "ending", !.answer = "body",
                                                       !.found = {body}])
    /\ OnlyReads(r)

(* archived_commit, is_complete_revision, and the manifest once more.  A   *)
(* directory without manifest is neither a miss nor an answer.             *)
FindCommit(r) ==
    /\ At(r, {"describe"}, "manifest")
    /\ IF read[r].commit \in directory
       THEN Becomes(r, [read[r] EXCEPT !.step = "complete"])
       ELSE Ending(r, "miss")
    /\ OnlyReads(r)

FindComplete(r) ==
    /\ At(r, {"describe"}, "complete")
    /\ IF Published(read[r].commit)
       THEN Becomes(r, [read[r] EXCEPT !.step = "files"])
       ELSE Ending(r, "error")
    /\ OnlyReads(r)

Describe(r) ==
    /\ At(r, {"describe"}, "files")
    /\ LET x == read[r]
       IN IF Published(x.commit)
          THEN Becomes(r, [x EXCEPT !.step = "ending", !.answer = "files",
                                    !.kept = Listed(x.commit)])
          ELSE Ending(r, "error")
    /\ OnlyReads(r)

-----------------------------------------------------------------------------
(* Walks over the revisions directory.                                     *)

Scan(r) ==
    /\ At(r, {"audit", "check", "list"}, "scan")
    /\ Becomes(r, [read[r] EXCEPT !.step = "next", !.left = directory])
    /\ OnlyReads(r)

(* The next revision; after the last one the self-check turns to the       *)
(* references, which the inventory has read first.                         *)
Advance(r) ==
    /\ At(r, {"audit", "check", "list"}, "next")
    /\ LET x == read[r]
       IN \/ \E c \in x.left :
               Becomes(r, [x EXCEPT !.step = "manifest", !.commit = c, !.left = @ \ {c}])
          \/ /\ x.left = {} /\ x.op = "check"
             /\ Becomes(r, [x EXCEPT !.step = "refs", !.commit = None, !.left = Ref])
          \/ x.left = {} /\ x.op # "check" /\ Ending(r, "done")
    /\ OnlyReads(r)

(* A revision is done with: a walk goes on, a verification ends.           *)
Passed(x) ==
    [x EXCEPT !.step = IF Walks(x.op) THEN "next" ELSE "ending", !.answer = IF Walks(x.op) THEN @ ELSE "done",
              !.manifest = None, !.path = None, !.todo = {}]

(* The inventory takes the manifest of every revision, or fails.           *)
ListRevision(r) ==
    /\ At(r, {"list"}, "manifest")
    /\ LET x == read[r]
       IN IF Published(x.commit)
          THEN Becomes(r, [Passed(x) EXCEPT !.kept = @ \cup {x.commit}])
          ELSE Ending(r, "error")
    /\ OnlyReads(r)

(* verify_revision_inner.                                                  *)
VerifyManifest(r) ==
    /\ At(r, {"verify", "audit"}, "manifest")
    /\ LET x == read[r]
       IN IF Published(x.commit)
          THEN Becomes(r, [x EXCEPT !.step = "files", !.manifest = manifest[x.commit],
                                    !.todo = Listed(x.commit)])
          ELSE Becomes(r, [Passed(x) EXCEPT !.found = @ \cup {x.commit}])
    /\ OnlyReads(r)

(* Mutant of VerifyFile: a file that fails does not end the verification.  *)
VerifyFileGoesOn(r) ==
    /\ At(r, {"verify", "audit"}, "files")
    /\ LET x == read[r]
       IN \E p \in x.todo :
            IF p \in Listed(x.commit) /\ file[x.commit][p] = x.manifest[p]
            THEN Becomes(r, [x EXCEPT !.todo = @ \ {p}])
            ELSE Becomes(r, [x EXCEPT !.todo = @ \ {p}, !.found = @ \cup {x.commit}])
    /\ OnlyReads(r)

(* Each file is resolved, by the manifest of that moment, and hashed.      *)
VerifyFile(r) ==
    /\ At(r, {"verify", "audit"}, "files")
    /\ LET x == read[r]
       IN \E p \in x.todo :
            IF p \in Listed(x.commit) /\ file[x.commit][p] = x.manifest[p]
            THEN Becomes(r, [x EXCEPT !.todo = @ \ {p}])
            ELSE Becomes(r, [Passed(x) EXCEPT !.found = @ \cup {x.commit}])
    /\ OnlyReads(r)

(* Mutant of Actual: files that the manifest does not list are not seen.   *)
ActualListed(c) == {p \in Listed(c) : file[c][p] # None}

(* collect_revision_files.                                                 *)
Actual(c) == {p \in Path : file[c][p] # None}

(* The files there are must be those of the manifest read first.           *)
VerifySet(r) ==
    /\ At(r, {"verify", "audit"}, "files") /\ read[r].todo = {}
    /\ LET x == read[r]
           expected == {p \in Path : x.manifest[p] # None}
       IN IF Actual(x.commit) = expected
          THEN Becomes(r, [Passed(x) EXCEPT !.kept = @ \cup {x.commit}])
          ELSE Becomes(r, [Passed(x) EXCEPT !.found = @ \cup {x.commit}])
    /\ OnlyReads(r)

(* Mutant of Servable: what is wrong with a file is passed on to the refs. *)
ServableIfIntact(x) == x.found = {}

(* A reference may name a revision whose manifest can be used.             *)
Servable(x) == TRUE

(* self_check_revision: the manifest, and the metadata of what it lists; a *)
(* file that lost its bytes may have lost its size with them.              *)
CheckManifest(r) ==
    /\ At(r, {"check"}, "manifest")
    /\ LET x == read[r]
       IN IF Published(x.commit)
          THEN Becomes(r, [x EXCEPT !.step = "files", !.todo = Listed(x.commit)])
          ELSE Becomes(r, [Passed(x) EXCEPT !.found = @ \cup {<<"invalid_manifest", x.commit, None>>}])
    /\ OnlyReads(r)

CheckFile(r) ==
    /\ At(r, {"check"}, "files")
    /\ LET x == read[r]
           Seen(p) == CASE file[x.commit][p] = None -> {{<<"missing_file", x.commit, p>>}}
                        [] file[x.commit][p] = Torn -> {{}, {<<"size_mismatch", x.commit, p>>}}
                        [] OTHER -> {{}}
       IN \/ \E p \in x.todo : \E wrong \in Seen(p) :
               Becomes(r, [x EXCEPT !.todo = @ \ {p}, !.found = @ \cup wrong])
          \/ /\ x.todo = {}
             /\ Becomes(r, [Passed(x) EXCEPT !.kept = IF Servable(x) THEN @ \cup {x.commit} ELSE @])
    /\ OnlyReads(r)

(* One reference: of the inventory, or of the self-check, which compares   *)
(* it with the revisions it has found.                                     *)
ReadRef(r) ==
    /\ At(r, {"list", "check"}, "refs")
    /\ LET x == read[r]
       IN \E n \in x.left :
            LET c == ref[n]
                bad == x.op = "check" /\ c # None /\ c \notin x.kept
            IN Becomes(r, [x EXCEPT !.left = @ \ {n},
                   !.found = CASE bad -> @ \cup {<<"dangling_ref", n, c>>}
                               [] x.op = "list" /\ c # None -> @ \cup {c}
                               [] OTHER -> @])
    /\ OnlyReads(r)

RefsRead(r) ==
    /\ At(r, {"list", "check"}, "refs") /\ read[r].left = {}
    /\ IF read[r].op = "list" THEN Becomes(r, [read[r] EXCEPT !.step = "scan"])
                              ELSE Ending(r, "done")
    /\ OnlyReads(r)

(* The answer is given, or the report stored.                              *)
Answer(r) ==
    /\ read[r].step = "ending"
    /\ Becomes(r, [Idle EXCEPT !.step = "ended"])
    /\ since' = [since EXCEPT ![r] = Nothing]
    /\ UNCHANGED vars

-----------------------------------------------------------------------------
StoreStep ==
    /\ (\E w \in Writer : Write(w)) \/ (\E m \in Remover : Remove(m)) \/ Stop
    /\ Observed
    /\ UNCHANGED read

(* Who was reading is gone.                                                *)
Blackout ==
    /\ PowerLoss
    /\ read' = [r \in Reader |-> IF read[r] = Idle THEN Idle ELSE [Idle EXCEPT !.step = "ended"]]
    /\ since' = [r \in Reader |-> Nothing]

NextReaders ==
    \/ StoreStep
    \/ Blackout
    \/ \E r \in Reader :
         \/ AskFile(r) \/ AskMetadata(r) \/ AskVerify(r) \/ AskAudit(r) \/ AskInventory(r) \/ AskCheck(r)
         \/ Resolve(r) \/ GetManifest(r) \/ GetFile(r) \/ GetBody(r)
         \/ FindCommit(r) \/ FindComplete(r) \/ Describe(r)
         \/ Scan(r) \/ Advance(r) \/ ListRevision(r)
         \/ VerifyManifest(r) \/ VerifyFile(r) \/ VerifySet(r)
         \/ CheckManifest(r) \/ CheckFile(r) \/ ReadRef(r) \/ RefsRead(r)
         \/ Answer(r)

SpecReaders == InitReaders /\ [][NextReaders]_<<vars, readers>>

-----------------------------------------------------------------------------
Finding == ({"invalid_manifest"} \X Commit \X {None}) \cup ({"dangling_ref"} \X Ref \X Commit)
           \cup ({"missing_file", "size_mismatch"} \X Commit \X Path)

(* The types of what a reader holds; no revision both passes and fails a   *)
(* verification.                                                           *)
ReadersTypeOK ==
    \A r \in Reader :
        LET x == read[r]
        IN /\ x.commit \in Commit \cup Ref \cup {None} /\ x.path \in Path \cup {None}
           /\ x.manifest \in Manifest \cup Writer \cup {None}
           /\ x.todo \subseteq Path /\ x.left \subseteq Commit \cup Ref
           /\ x.kept \subseteq Commit \cup Path
           /\ x.op \in {"verify", "audit"} => x.kept \cap x.found = {}
           /\ x.found \subseteq Finding \cup Commit \cup Writer \cup {Torn}
           /\ x.answer \in {None, "miss", "error", "headers", "body", "files", "done"}

Lasting(c) == c \in Commit \ condemned

(* What is in the archive when a request arrives is served, whatever is    *)
(* published, extended or half done meanwhile, if nobody deletes it: the   *)
(* file with the bytes the answer's validator stands for (or what a loss   *)
(* of power left of a download), every listed path in the metadata.  The   *)
(* inventory has every such revision.                                      *)
HeldIsServed ==
    \A r \in Reader : read[r].step = "ending" =>
        LET x == read[r]
            held == {h \in since[r].held : Lasting(h[1])}
        IN /\ x.op = "get" /\ <<x.commit, x.path>> \in held =>
                /\ x.answer \in {"headers", "body"}
                /\ x.found \subseteq {x.manifest} \cup (IF x.manifest \in Fetching THEN {Torn} ELSE {})
           /\ x.op = "describe" => {h[2] : h \in {g \in held : g[1] = x.commit}} \subseteq x.kept
           /\ x.op = "list" /\ x.answer = "done" => {h[1] : h \in held} \subseteq x.kept

(* verify and audit pass no revision with which something was wrong all    *)
(* the time they ran, and reject none that was complete and undisturbed.   *)
VerifyTells ==
    \A r \in Reader : read[r].step = "ending" /\ read[r].op \in {"verify", "audit"} =>
        /\ read[r].kept \cap {d[2] : d \in since[r].damage} = {}
        /\ read[r].found \cap since[r].quiet = {}

(* The self-check reports what was wrong all the time it ran, as far as    *)
(* manifests and file metadata can tell; of a revision that nobody         *)
(* deletes it reports nothing but what a loss of power did; and it calls   *)
(* no reference dangling whose revision was there when it began, whatever  *)
(* is wrong with that revision's files.                                    *)
ReportIsTrue ==
    \A r \in Reader : read[r].step = "ending" /\ read[r].op = "check" =>
        /\ {d \in since[r].damage : d[1] \in {"invalid_manifest", "missing_file"}}
              \subseteq read[r].found
        /\ \A f \in read[r].found :
             CASE f[1] \in {"invalid_manifest", "missing_file"} -> ~ Lasting(f[2])
               [] f[1] = "dangling_ref" ->
                    Lasting(f[3]) => f[3] \notin {h[1] : h \in since[r].held}
               [] OTHER -> Lasting(f[2]) => file[f[2]][f[3]] = Torn
=============================================================================
