---------------------------- MODULE RevisionStore ----------------------------
(***************************************************************************)
(* The revisions and references of one repository on disk, and the         *)
(* operations of Archive on them: publish by renaming a staging directory, *)
(* extend under an advisory lock by renaming files and then swapping the   *)
(* manifest, update_ref, remove.  They run in the threads of the server    *)
(* and in command-line processes, with nothing but the file system between *)
(* them; any of them may die or fail between two steps, and a loss of      *)
(* power takes back what was not flushed.                                  *)
(*                                                                         *)
(* A file's bytes are the writer that wrote them: two copies of a path are *)
(* never taken to be equal.  Each operation's private work (staging,       *)
(* hashing) is part of its first shared step.                              *)
(***************************************************************************)
EXTENDS Integers, FiniteSets

CONSTANTS
    Commit, Ref, Path,
    Writer,         \* acquisitions of the server, refresh and import commands
    Fetching,       \* the writers that publish the directory they fetched into
    Remover,        \* `modelkeep remove` commands
    MaxOperations,  \* bound on operations begun
    MaxStops,       \* bound on operations that die or fail half-way
    MaxLosses,      \* bound on losses of power
    Torn,           \* bytes lost by a loss of power
    None

ASSUME WriterAssumption ==
    Fetching \subseteq Writer /\ None \notin Writer /\ Torn \notin Writer \cup {None}
ASSUME BoundsAssumption ==
    MaxOperations \in Nat /\ MaxStops \in Nat /\ MaxLosses \in Nat

(* A manifest: who wrote each listed path.                                 *)
Manifest == [Path -> Writer \cup {None}]

Step == {"idle", "publish", "rename", "sync", "extend", "lock", "move",
         "sync_files", "swap", "sync_manifest", "find", "set_ref"}
Locked == {"move", "sync_files", "swap", "sync_manifest"}

ASSUME NoneAssumption ==
    /\ None \notin [Path -> Writer \cup {Torn, None}]
    /\ None \notin Commit /\ None \notin Ref

VARIABLES
    directory,      \* commits with a directory under revisions/
    manifest,       \* its live manifest
    file,           \* its files
    ref,            \* refs/<name>
    lock,           \* the holder of .modelkeep-extend-<commit>.lock
    step,           \* what each writer is doing,
    target,         \* for which commit
    name,           \* and reference,
    paths,          \* with what in its staging directory,
    listing,        \* and the manifest it installs
    removing,       \* the revision each remover is deleting
    unsynced,       \* files whose directory entry may still be lost
    unflushed,      \* files whose bytes may still be lost
    stale,          \* manifests that a loss of power may bring back
    condemned,      \* history: revisions whose deletion was begun
    operations, stops, losses

disk == <<directory, manifest, file, unsynced, unflushed, stale>>
counters == <<operations, stops, losses>>
work == <<step, target, name, paths, listing>>
vars == <<directory, manifest, file, ref, lock, step, target, name, paths, listing,
          removing, unsynced, unflushed, stale, condemned, operations, stops,
          losses>>

NoFiles == [p \in Path |-> None]

Init ==
    /\ directory = {}
    /\ manifest = [c \in Commit |-> None]
    /\ file = [c \in Commit |-> NoFiles]
    /\ ref = [r \in Ref |-> None]
    /\ lock = [c \in Commit |-> None]
    /\ step = [w \in Writer |-> "idle"]
    /\ target = [w \in Writer |-> None]
    /\ name = [w \in Writer |-> None]
    /\ paths = [w \in Writer |-> {}]
    /\ listing = [w \in Writer |-> NoFiles]
    /\ removing = [m \in Remover |-> None]
    /\ unsynced = [c \in Commit |-> {}]
    /\ unflushed = [c \in Commit |-> {}]
    /\ stale = [c \in Commit |-> {}]
    /\ condemned = {}
    /\ operations = 0 /\ stops = 0 /\ losses = 0

-----------------------------------------------------------------------------
Goes(w, next) == step' = [step EXCEPT ![w] = next]

To(w, next) == Goes(w, next) /\ UNCHANGED <<target, name, paths, listing>>

End(w) ==
    /\ Goes(w, "idle")
    /\ target' = [target EXCEPT ![w] = None]
    /\ name' = [name EXCEPT ![w] = None]
    /\ paths' = [paths EXCEPT ![w] = {}]
    /\ listing' = [listing EXCEPT ![w] = NoFiles]

(* revision_is_published: a manifest can be read.                          *)
Published(c) == manifest[c] # None

Listed(c) == {p \in Path : Published(c) /\ manifest[c][p] # None}

(* What the writer w would list, having these paths in staging.            *)
ListingOf(w, added) == [p \in Path |-> IF p \in added THEN w ELSE None]

(* An acquisition has these files of a commit in its staging directory,    *)
(* for a reference or, with None, for the commit itself; or an import has  *)
(* found them in a cache.  A commit that is published already is extended. *)
Begin(w, c, r, fetched) ==
    /\ step[w] = "idle"
    /\ operations < MaxOperations
    /\ operations' = operations + 1
    /\ Goes(w, IF w \in Fetching /\ Published(c) THEN "extend" ELSE "publish")
    /\ target' = [target EXCEPT ![w] = c]
    /\ name' = [name EXCEPT ![w] = r]
    /\ paths' = [paths EXCEPT ![w] = fetched]
    /\ UNCHANGED listing
    /\ UNCHANGED <<disk, ref, lock, removing, condemned, stops, losses>>

-----------------------------------------------------------------------------
(* publish_revision_from_directory, until the staged manifest is written.  *)
(* AlreadyPublished: an acquisition extends what is there, if it can be    *)
(* read; an import goes on to its references.                              *)
PublishStart(w) ==
    /\ step[w] = "publish"
    /\ LET c == target[w]
       IN  \/ c \notin directory /\ To(w, "rename")
           \/ c \in directory /\ w \notin Fetching /\ To(w, "find")
           \/ c \in directory /\ w \in Fetching /\ Published(c) /\ To(w, "extend")
           \/ c \in directory /\ w \in Fetching /\ ~ Published(c) /\ End(w)
    /\ UNCHANGED <<disk, ref, lock, removing, condemned, counters>>

(* A rename onto a directory succeeds while that is empty.                 *)
Vacant(c) == ~ Published(c) /\ file[c] = NoFiles

(* The rename of the staging directory.  An acquisition publishes the very *)
(* files the helper downloaded, which nobody flushed; an import has copied *)
(* and flushed them.                                                       *)
PublishRename(w) ==
    /\ step[w] = "rename"
    /\ LET c == target[w]
       IN  /\ Vacant(c)
           /\ directory' = directory \cup {c}
           /\ manifest' = [manifest EXCEPT ![c] = ListingOf(w, paths[w])]
           /\ file' = [file EXCEPT ![c] = ListingOf(w, paths[w])]
           /\ unsynced' = [unsynced EXCEPT ![c] = {}]
           /\ unflushed' = [unflushed EXCEPT ![c] =
                              IF w \in Fetching THEN paths[w] ELSE {}]
           /\ stale' = [stale EXCEPT ![c] = {None}]
           /\ listing' = [listing EXCEPT ![w] = ListingOf(w, paths[w])]
           /\ Goes(w, "sync")
    /\ UNCHANGED <<target, name, paths, ref, lock, removing, condemned, counters>>

(* Another process published the commit since PublishStart: the staging    *)
(* directory, with the files in it, is deleted.  The extension that        *)
(* follows can only succeed if it has nothing to add.                      *)
PublishRefused(w) ==
    /\ step[w] = "rename"
    /\ LET c == target[w]
       IN  /\ ~ Vacant(c)
           /\ IF w \in Fetching /\ ~ paths[w] \subseteq Listed(c)
              THEN End(w)
              ELSE To(w, "find")
    /\ UNCHANGED <<disk, ref, lock, removing, condemned, counters>>

(* Mutant of PublishSync: the publication is not flushed.                  *)
PublishUnsynced(w) ==
    /\ step[w] = "sync"
    /\ To(w, "find")
    /\ UNCHANGED <<disk, ref, lock, removing, condemned, counters>>

(* The flush of revisions/ makes the entry durable.  The directories above *)
(* it, which create_dir_all makes once for a repository and nobody         *)
(* flushes, are taken to be there.                                         *)
PublishSync(w) ==
    /\ step[w] = "sync"
    /\ stale' = [stale EXCEPT ![target[w]] = @ \ {None}]
    /\ To(w, "find")
    /\ UNCHANGED <<directory, manifest, file, unsynced, unflushed, ref, lock,
                   removing, condemned, counters>>

-----------------------------------------------------------------------------
(* extend_revision_from_directory, without the lock: the paths that the    *)
(* live manifest does not list are copied to a staging directory and       *)
(* flushed.  With nothing to add the extension is done.                    *)
ExtendStart(w) ==
    /\ step[w] = "extend"
    /\ LET c == target[w]
       IN  \/ ~ Published(c) /\ End(w)
           \/ Published(c) /\ paths[w] \subseteq Listed(c) /\ To(w, "find")
           \/ /\ Published(c) /\ ~ paths[w] \subseteq Listed(c)
              /\ Goes(w, "lock")
              /\ paths' = [paths EXCEPT ![w] = @ \ Listed(c)]
              /\ UNCHANGED <<target, name, listing>>
    /\ UNCHANGED <<disk, ref, lock, removing, condemned, counters>>

(* Mutant of Superset: only the added files are listed.                    *)
OnlyAdded(w, c, added) == ListingOf(w, added)

(* The manifest w will install: what is listed already, as it stands, and  *)
(* the files it adds.                                                      *)
Superset(w, c, added) ==
    [p \in Path |-> IF p \in added THEN w ELSE manifest[c][p]]

(* The manifest is read again under the lock.                              *)
ExtendLock(w) ==
    /\ step[w] = "lock"
    /\ LET c == target[w]
           added == paths[w] \ Listed(c)
       IN  /\ lock[c] = None
           /\ \/ ~ Published(c) /\ End(w) /\ UNCHANGED lock
              \/ Published(c) /\ added = {} /\ To(w, "find") /\ UNCHANGED lock
              \/ /\ Published(c) /\ added # {}
                 /\ lock' = [lock EXCEPT ![c] = w]
                 /\ Goes(w, "move")
                 /\ paths' = [paths EXCEPT ![w] = added]
                 /\ listing' = [listing EXCEPT ![w] = Superset(w, c, added)]
                 /\ UNCHANGED <<target, name>>
    /\ UNCHANGED <<disk, ref, removing, condemned, counters>>

(* One file is renamed into the revision, over whatever an interrupted     *)
(* extension left there.  create_dir_all of its parent makes the revision  *)
(* directory again if it was removed meanwhile.                            *)
ExtendMove(w) ==
    /\ step[w] = "move"
    /\ LET c == target[w]
       IN  \E p \in paths[w] :
            /\ directory' = directory \cup {c}
            /\ file' = [file EXCEPT ![c][p] = w]
            /\ unsynced' = [unsynced EXCEPT ![c] = @ \cup {p}]
            /\ unflushed' = [unflushed EXCEPT ![c] = @ \ {p}]
            /\ paths' = [paths EXCEPT ![w] = @ \ {p}]
            /\ Goes(w, IF paths[w] = {p} THEN "sync_files" ELSE "move")
    /\ UNCHANGED <<target, name, listing, manifest, stale, ref, lock, removing,
                   condemned, counters>>

Unlock(w) == lock' = [lock EXCEPT ![target[w]] = None]

(* A step of an extension fails once the directory is gone.                *)
ExtendFails(w) ==
    /\ step[w] \in {"sync_files", "swap", "sync_manifest"}
    /\ target[w] \notin directory
    /\ Unlock(w)
    /\ End(w)
    /\ UNCHANGED <<disk, ref, removing, condemned, counters>>

(* Mutant of ExtendSync: the new entries are not flushed before the swap.  *)
ExtendUnsynced(w) ==
    /\ step[w] = "sync_files"
    /\ target[w] \in directory
    /\ To(w, "swap")
    /\ UNCHANGED <<disk, ref, lock, removing, condemned, counters>>

ExtendSync(w) ==
    /\ step[w] = "sync_files"
    /\ target[w] \in directory
    /\ unsynced' = [unsynced EXCEPT ![target[w]] = {}]
    /\ To(w, "swap")
    /\ UNCHANGED <<directory, manifest, file, unflushed, stale, ref, lock,
                   removing, condemned, counters>>

(* replace_revision_manifest: the rename, and then the flush that makes it *)
(* the only one a loss of power leaves.                                    *)
ExtendSwap(w) ==
    /\ step[w] = "swap"
    /\ LET c == target[w]
       IN  /\ c \in directory
           /\ manifest' = [manifest EXCEPT ![c] = listing[w]]
           /\ stale' = [stale EXCEPT ![c] = @ \cup {manifest[c]}]
    /\ To(w, "sync_manifest")
    /\ UNCHANGED <<directory, file, unsynced, unflushed, ref, lock, removing,
                   condemned, counters>>

ExtendEnd(w) ==
    /\ step[w] = "sync_manifest"
    /\ target[w] \in directory
    /\ stale' = [stale EXCEPT ![target[w]] = {}]
    /\ Unlock(w)
    /\ To(w, "find")
    /\ UNCHANGED <<directory, manifest, file, unsynced, unflushed, ref, removing,
                   condemned, counters>>

-----------------------------------------------------------------------------
(* update_ref: the directory is looked for, then the reference is renamed  *)
(* into place.  Its flush is taken with the rename: a loss of power in     *)
(* between leaves the reference as before this step or as after it.        *)
FindRevision(w) ==
    /\ step[w] = "find"
    /\ IF name[w] # None /\ target[w] \in directory
       THEN To(w, "set_ref")
       ELSE End(w)
    /\ UNCHANGED <<disk, ref, lock, removing, condemned, counters>>

SetRef(w) ==
    /\ step[w] = "set_ref"
    /\ ref' = [ref EXCEPT ![name[w]] = target[w]]
    /\ End(w)
    /\ UNCHANGED <<disk, lock, removing, condemned, counters>>

-----------------------------------------------------------------------------
(* Mutant of RemoveStart: the references are not looked at.                *)
RemoveReferenced(m, c) ==
    /\ removing[m] = None
    /\ operations < MaxOperations
    /\ c \in directory
    /\ operations' = operations + 1
    /\ condemned' = condemned \cup {c}
    /\ removing' = [removing EXCEPT ![m] = c]
    /\ UNCHANGED <<disk, ref, lock, work, stops, losses>>

(* remove_revision: the references are scanned once, without any lock;     *)
(* then remove_dir_all takes one entry after another, in any order.        *)
RemoveStart(m, c) ==
    /\ removing[m] = None
    /\ operations < MaxOperations
    /\ c \in directory
    /\ \A r \in Ref : ref[r] # c
    /\ operations' = operations + 1
    /\ condemned' = condemned \cup {c}
    /\ removing' = [removing EXCEPT ![m] = c]
    /\ UNCHANGED <<disk, ref, lock, work, stops, losses>>

RemoveFile(m) ==
    /\ removing[m] # None
    /\ LET c == removing[m]
       IN  \E p \in Path :
            /\ file[c][p] # None
            /\ file' = [file EXCEPT ![c][p] = None]
            /\ unsynced' = [unsynced EXCEPT ![c] = @ \ {p}]
            /\ unflushed' = [unflushed EXCEPT ![c] = @ \ {p}]
    /\ UNCHANGED <<directory, manifest, stale, ref, lock, work, removing,
                   condemned, counters>>

RemoveManifest(m) ==
    /\ removing[m] # None
    /\ Published(removing[m])
    /\ manifest' = [manifest EXCEPT ![removing[m]] = None]
    /\ UNCHANGED <<directory, file, unsynced, unflushed, stale, ref, lock, work,
                   removing, condemned, counters>>

RemoveDirectory(m) ==
    /\ removing[m] # None
    /\ Vacant(removing[m])
    /\ directory' = directory \ {removing[m]}
    /\ stale' = [stale EXCEPT ![removing[m]] = {}]
    /\ removing' = [removing EXCEPT ![m] = None]
    /\ UNCHANGED <<manifest, file, unsynced, unflushed, ref, lock, work, condemned,
                   counters>>

-----------------------------------------------------------------------------
(* Mutant of Stop: the lock is a file that the dead leave behind.          *)
StopKeepsLock ==
    /\ stops < MaxStops
    /\ stops' = stops + 1
    /\ \E w \in Writer : step[w] # "idle" /\ End(w)
    /\ UNCHANGED <<disk, ref, lock, removing, condemned, operations, losses>>

(* An operation dies or fails at this step; the kernel drops its lock.     *)
Stop ==
    /\ stops < MaxStops
    /\ stops' = stops + 1
    /\ \/ \E w \in Writer :
            /\ step[w] # "idle"
            /\ End(w)
            /\ lock' = [c \in Commit |-> IF lock[c] = w THEN None ELSE lock[c]]
            /\ UNCHANGED removing
       \/ \E m \in Remover :
            /\ removing[m] # None
            /\ removing' = [removing EXCEPT ![m] = None]
            /\ UNCHANGED <<work, lock>>
    /\ UNCHANGED <<disk, ref, condemned, operations, losses>>

(* The manifests c may have after a loss of power.                         *)
Possible(c) == stale[c] \cup {manifest[c]}

(* Power is lost: every manifest is one of its possible ones, a directory  *)
(* whose publication was not flushed may be gone, and so may any unsynced  *)
(* file and the bytes of any unflushed one.                                *)
PowerLoss ==
    /\ losses < MaxLosses
    /\ losses' = losses + 1
    /\ manifest' \in [Commit -> UNION {Possible(c) : c \in Commit}]
    /\ \A c \in Commit : manifest'[c] \in Possible(c)
    /\ LET unpublished == {c \in Commit : Published(c) /\ manifest'[c] = None}
       IN  /\ directory' = directory \ unpublished
           /\ \E gone \in [Commit -> SUBSET Path], torn \in [Commit -> SUBSET Path] :
                /\ \A c \in Commit : gone[c] \subseteq unsynced[c]
                /\ \A c \in Commit : torn[c] \subseteq unflushed[c]
                /\ file' = [c \in Commit |->
                     IF c \in unpublished THEN NoFiles
                     ELSE [p \in Path |-> IF p \in gone[c] THEN None
                                          ELSE IF p \in torn[c] THEN Torn
                                          ELSE file[c][p]]]
    /\ unsynced' = [c \in Commit |-> {}]
    /\ unflushed' = [c \in Commit |-> {}]
    /\ stale' = [c \in Commit |-> {}]
    /\ lock' = [c \in Commit |-> None]
    /\ step' = [w \in Writer |-> "idle"]
    /\ target' = [w \in Writer |-> None]
    /\ name' = [w \in Writer |-> None]
    /\ paths' = [w \in Writer |-> {}]
    /\ listing' = [w \in Writer |-> NoFiles]
    /\ removing' = [m \in Remover |-> None]
    /\ UNCHANGED <<ref, condemned, operations, stops>>

-----------------------------------------------------------------------------
Write(w) ==
    \/ \E c \in Commit, r \in Ref \cup {None}, fetched \in (SUBSET Path) \ {{}} :
         Begin(w, c, r, fetched)
    \/ PublishStart(w) \/ PublishRename(w) \/ PublishRefused(w) \/ PublishSync(w)
    \/ ExtendStart(w) \/ ExtendLock(w) \/ ExtendMove(w) \/ ExtendSync(w)
    \/ ExtendSwap(w) \/ ExtendEnd(w) \/ ExtendFails(w)
    \/ FindRevision(w) \/ SetRef(w)

Remove(m) ==
    \/ \E c \in Commit : RemoveStart(m, c)
    \/ RemoveFile(m) \/ RemoveManifest(m) \/ RemoveDirectory(m)

Next ==
    \/ \E w \in Writer : Write(w)
    \/ \E m \in Remover : Remove(m)
    \/ Stop
    \/ PowerLoss

Spec == Init /\ [][Next]_vars

-----------------------------------------------------------------------------
TypeOK ==
    /\ directory \subseteq Commit
    /\ manifest \in [Commit -> Manifest \cup {None}]
    /\ file \in [Commit -> [Path -> Writer \cup {Torn, None}]]
    /\ ref \in [Ref -> Commit \cup {None}]
    /\ lock \in [Commit -> Writer \cup {None}]
    /\ step \in [Writer -> Step]
    /\ target \in [Writer -> Commit \cup {None}]
    /\ name \in [Writer -> Ref \cup {None}]
    /\ paths \in [Writer -> SUBSET Path]
    /\ listing \in [Writer -> Manifest]
    /\ \A w \in Writer : step[w] # "idle" => target[w] \in Commit
    /\ removing \in [Remover -> Commit \cup {None}]
    /\ unsynced \in [Commit -> SUBSET Path]
    /\ unflushed \in [Commit -> SUBSET Path]
    /\ stale \in [Commit -> SUBSET (Manifest \cup {None})]
    /\ condemned \subseteq Commit
    /\ \A c \in Commit, w \in Writer :
         lock[c] = w <=> target[w] = c /\ step[w] \in Locked
    /\ operations \in 0 .. MaxOperations
    /\ stops \in 0 .. MaxStops
    /\ losses \in 0 .. MaxLosses

(* Until somebody deletes the revision, every file its manifest lists is   *)
(* there with the bytes the manifest was written for, whatever crashed or  *)
(* crossed; only what an acquisition published straight from the download  *)
(* may have been torn by a loss of power.                                  *)
Intact(c, m) ==
    \A p \in Path : m[p] # None =>
        file[c][p] = m[p] \/ (file[c][p] = Torn /\ m[p] \in Fetching)

ListedIsIntact ==
    \A c \in Commit \ condemned : Published(c) => Intact(c, manifest[c])

(* Once a writer goes on to its reference and reports success, what it     *)
(* listed itself is listed by every manifest a loss of power may leave.    *)
Reporting(w) == step[w] \in {"find", "set_ref"}

OwnWorkIsKept ==
    \A w \in Writer : Reporting(w) /\ target[w] \notin condemned =>
        \A m \in Possible(target[w]), p \in Path :
            listing[w][p] # None => m # None /\ m[p] = listing[w][p]

(* While no operation has died, a revision that nobody is extending holds  *)
(* exactly what its manifest lists: verify would pass.                     *)
SettledVerifies ==
    stops = 0 /\ losses = 0 =>
        \A c \in Commit \ condemned :
            Published(c) /\ lock[c] = None => file[c] = manifest[c]

(* Readers see the archive of module Archive: revisions appear at once,    *)
(* grow and never change, and what was acknowledged survives.              *)
View(c, m) ==
    IF m = None THEN None
    ELSE [p \in Path |-> IF m[p] = None THEN None ELSE file[c][p]]

Abstract == INSTANCE Archive WITH
    Content <- Writer,
    Fragile <- Fetching,
    held <- [c \in Commit |-> IF c \in condemned THEN None ELSE View(c, manifest[c])],
    earlier <- [c \in Commit |-> IF c \in condemned THEN {}
                                 ELSE {View(c, m) : m \in stale[c]}]

ImplementsArchive == Abstract!Spec

(* README: downloads are flushed before they are published.  (They are     *)
(* not: see the README here.)                                              *)
PublishedIsFlushed ==
    \A c \in Commit \ condemned : \A p \in Listed(c) : file[c][p] # Torn
=============================================================================
