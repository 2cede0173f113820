------------------------ MODULE RevisionStore_proofs ------------------------
(***************************************************************************)
(* Proofs about the revision store, for any writers, commits and paths and *)
(* any number of interruptions and losses of power: a listed file is       *)
(* there, and what a writer reports survives.                              *)
(*                                                                         *)
(* ListedIsIntact is not inductive: a swap installs a manifest that was    *)
(* put together under the lock, and a loss of power brings back an older   *)
(* one.  The invariant says what an extension in progress has made true    *)
(* already (ExtensionsAdd), that older manifests only list less            *)
(* (OlderListLess), and what may still be lost (UnsyncedIsUnlisted,        *)
(* UnflushedIsFetched).                                                    *)
(***************************************************************************)
EXTENDS RevisionStore, TLAPS

RemovedAreCondemned ==
    \A m \in Remover : removing[m] # None => removing[m] \in condemned

UnflushedIsFetched ==
    \A c \in Commit : \A p \in unflushed[c] : file[c][p] \in Fetching

Within(m, n) == \A p \in Path : m[p] # None => n[p] = m[p]

OlderListLess ==
    \A c \in Commit \ condemned : \A m \in stale[c] :
        m # None => Published(c) /\ Within(m, manifest[c])

UnsyncedIsUnlisted ==
    \A c \in Commit \ condemned :
        Published(c) => \A p \in unsynced[c] : manifest[c][p] = None

(* What the extension of w has made true at its step.                      *)
Adds(w) ==
    LET c == target[w]
    IN  /\ Published(c)
        /\ step[w] # "sync_manifest" =>
             \A p \in Path :
                 \/ listing[w][p] = manifest[c][p]
                 \/ /\ manifest[c][p] = None /\ listing[w][p] = w
                    /\ p \in paths[w] \/ file[c][p] = w
        /\ step[w] = "move" =>
             \A p \in paths[w] : manifest[c][p] = None /\ listing[w][p] = w
        /\ step[w] \in {"sync_files", "swap"} => paths[w] = {}
        /\ step[w] = "swap" => unsynced[c] = {}
        /\ step[w] = "sync_manifest" => listing[w] = manifest[c]

Extending(w) ==
    step[w] \in Locked /\ target[w] \notin condemned => Adds(w)

(* What a writer has listed by the time it flushes, and afterwards.        *)
NothingListed(w) ==
    step[w] \in {"idle", "publish", "rename", "extend", "lock"}
        => listing[w] = NoFiles

Publishing(w) ==
    step[w] = "sync" /\ target[w] \notin condemned =>
        /\ Published(target[w]) /\ Within(listing[w], manifest[target[w]])
        /\ \A m \in stale[target[w]] : m # None => Within(listing[w], m)

Kept(w) ==
    Reporting(w) /\ target[w] \notin condemned =>
        \A m \in Possible(target[w]), p \in Path :
            listing[w][p] # None => m # None /\ m[p] = listing[w][p]

WriterInv(w) == Extending(w) /\ NothingListed(w) /\ Publishing(w) /\ Kept(w)

DiskInv ==
    /\ RemovedAreCondemned
    /\ UnflushedIsFetched
    /\ OlderListLess
    /\ UnsyncedIsUnlisted
    /\ ListedIsIntact

StoreInv ==
    /\ TypeOK
    /\ DiskInv
    /\ \A w \in Writer : WriterInv(w)

-----------------------------------------------------------------------------
(* The constant facts every step uses.                                     *)
LEMMA Constants ==
    /\ Fetching \subseteq Writer /\ None \notin Writer /\ Torn \notin Writer
    /\ Torn # None
    /\ None \notin Manifest /\ None \notin Commit /\ None \notin Ref
    /\ NoFiles \in Manifest
<1>1. \A m \in Manifest : m \in [Path -> Writer \cup {Torn, None}]
  BY DEF Manifest
<1> QED BY <1>1, WriterAssumption, NoneAssumption DEF Manifest, NoFiles

LEMMA InitTyped == Init => TypeOK
BY Constants, BoundsAssumption DEF Init, TypeOK, Manifest, NoFiles, Step, Locked

LEMMA BeginTyped ==
    ASSUME TypeOK, NEW w \in Writer, NEW c \in Commit, NEW r \in Ref \cup {None},
           NEW fetched \in SUBSET Path, Begin(w, c, r, fetched)
    PROVE  TypeOK'
BY Constants, BoundsAssumption
   DEF TypeOK, Begin, Goes, Step, Locked, disk, NoFiles

(* An operation that holds no lock ends.                                   *)
LEMMA EndTyped ==
    ASSUME TypeOK, NEW w \in Writer, step[w] \notin Locked, End(w),
           UNCHANGED <<directory, manifest, file, unsynced, unflushed, stale,
                       lock, removing, condemned, counters>>,
           ref' \in [Ref -> Commit \cup {None}]
    PROVE  TypeOK'
<1>1. listing' \in [Writer -> Manifest]
  BY Constants DEF TypeOK, End
<1>2. paths' \in [Writer -> SUBSET Path]
  BY DEF TypeOK, End
<1>3. /\ step' \in [Writer -> Step]
      /\ target' \in [Writer -> Commit \cup {None}]
      /\ name' \in [Writer -> Ref \cup {None}]
  BY DEF TypeOK, End, Goes, Step
<1>4. \A v \in Writer : step'[v] # "idle" => target'[v] \in Commit
  BY DEF TypeOK, End, Goes
<1>5. \A c \in Commit, v \in Writer :
         lock'[c] = v <=> target'[v] = c /\ step'[v] \in Locked
  BY Constants DEF TypeOK, End, Goes, Locked
<1> QED BY <1>1, <1>2, <1>3, <1>4, <1>5 DEF TypeOK, counters

(* It goes on without the lock, with its paths or fewer.                   *)
LEMMA GoesTyped ==
    ASSUME TypeOK, NEW w \in Writer, step[w] \notin Locked, step[w] # "idle",
           NEW next \in Step \ (Locked \cup {"idle"}), Goes(w, next),
           paths' \in [Writer -> SUBSET Path],
           UNCHANGED <<disk, ref, lock, removing, condemned, counters, target,
                       name, listing>>
    PROVE  TypeOK'
<1>1. step' \in [Writer -> Step]
  BY DEF TypeOK, Goes
<1>2. \A v \in Writer : step'[v] # "idle" => target'[v] \in Commit
  BY DEF TypeOK, Goes
<1>3. \A c \in Commit, v \in Writer :
         lock'[c] = v <=> target'[v] = c /\ step'[v] \in Locked
  BY DEF TypeOK, Goes
<1> QED BY <1>1, <1>2, <1>3 DEF TypeOK, disk, counters

LEMMA PublishStartTyped ==
    ASSUME TypeOK, NEW w \in Writer, PublishStart(w)
    PROVE  TypeOK'
<1>1. step[w] = "publish" /\ step[w] \notin Locked
  BY DEF PublishStart, Locked
<1>2. CASE End(w)
  BY <1>1, <1>2, EndTyped DEF PublishStart, disk, TypeOK
<1>3. ASSUME NEW next \in {"rename", "find", "extend"}, To(w, next)
      PROVE  TypeOK'
  <2>1. next \in Step \ (Locked \cup {"idle"})
    BY DEF Step, Locked
  <2> QED BY <1>1, <1>3, <2>1, GoesTyped DEF PublishStart, To, TypeOK
<1> QED BY <1>2, <1>3 DEF PublishStart

LEMMA PublishRenameTyped ==
    ASSUME TypeOK, NEW w \in Writer, PublishRename(w)
    PROVE  TypeOK'
BY Constants
   DEF TypeOK, PublishRename, Goes, To, End, Step, Locked, disk, counters, ListingOf,
       Manifest, Unlock, Superset, Listed, Published

LEMMA PublishRefusedTyped ==
    ASSUME TypeOK, NEW w \in Writer, PublishRefused(w)
    PROVE  TypeOK'
<1>1. step[w] = "rename" /\ step[w] \notin Locked
  BY DEF PublishRefused, Locked
<1>2. CASE End(w)
  BY <1>1, <1>2, EndTyped DEF PublishRefused, disk, TypeOK
<1>3. CASE To(w, "find")
  BY <1>1, <1>3, GoesTyped DEF PublishRefused, To, TypeOK, Step, Locked
<1> QED BY <1>2, <1>3 DEF PublishRefused

LEMMA PublishSyncTyped ==
    ASSUME TypeOK, NEW w \in Writer, PublishSync(w)
    PROVE  TypeOK'
BY Constants
   DEF TypeOK, PublishSync, Goes, To, End, Step, Locked, disk, counters, ListingOf,
       Manifest, Unlock, Superset, Listed, Published

LEMMA ExtendStartTyped ==
    ASSUME TypeOK, NEW w \in Writer, ExtendStart(w)
    PROVE  TypeOK'
<1>1. step[w] = "extend" /\ step[w] \notin Locked
  BY DEF ExtendStart, Locked
<1>2. CASE End(w)
  BY <1>1, <1>2, EndTyped DEF ExtendStart, disk, TypeOK
<1>3. CASE To(w, "find")
  BY <1>1, <1>3, GoesTyped DEF ExtendStart, To, TypeOK, Step, Locked
<1>4. CASE /\ Goes(w, "lock")
           /\ paths' = [paths EXCEPT ![w] = @ \ Listed(target[w])]
           /\ UNCHANGED <<target, name, listing>>
  <2>1. paths' \in [Writer -> SUBSET Path]
    BY <1>4 DEF TypeOK
  <2> QED BY <1>1, <1>4, <2>1, GoesTyped DEF ExtendStart, Step, Locked
<1> QED BY <1>2, <1>3, <1>4 DEF ExtendStart

LEMMA ExtendLockTyped ==
    ASSUME TypeOK, NEW w \in Writer, ExtendLock(w)
    PROVE  TypeOK'
<1> DEFINE c == target[w]
           added == paths[w] \ Listed(c)
<1>1. step[w] = "lock" /\ step[w] \notin Locked /\ c \in Commit /\ lock[c] = None
  BY DEF ExtendLock, Locked, TypeOK
<1>2. CASE End(w) /\ UNCHANGED lock
  BY <1>1, <1>2, EndTyped DEF ExtendLock, disk, TypeOK
<1>3. CASE To(w, "find") /\ UNCHANGED lock
  BY <1>1, <1>3, GoesTyped DEF ExtendLock, To, TypeOK, Step, Locked
<1>4. CASE /\ Published(c)
           /\ lock' = [lock EXCEPT ![c] = w]
           /\ Goes(w, "move")
           /\ paths' = [paths EXCEPT ![w] = added]
           /\ listing' = [listing EXCEPT ![w] = Superset(w, c, added)]
           /\ UNCHANGED <<target, name>>
  <2>1. Superset(w, c, added) \in Manifest
    BY <1>1, <1>4 DEF Superset, TypeOK, Manifest, Published
  <2>2. listing' \in [Writer -> Manifest]
    BY <1>4, <2>1 DEF TypeOK
  <2>3. paths' \in [Writer -> SUBSET Path]
    BY <1>4 DEF TypeOK
  <2>4. /\ step' \in [Writer -> Step]
        /\ lock' \in [Commit -> Writer \cup {None}]
    BY <1>1, <1>4 DEF TypeOK, Goes, Step
  <2>5. \A v \in Writer : step'[v] # "idle" => target'[v] \in Commit
    BY <1>1, <1>4 DEF TypeOK, Goes
  <2>6. \A d \in Commit, v \in Writer :
           lock'[d] = v <=> target'[v] = d /\ step'[v] \in Locked
    BY <1>1, <1>4, Constants DEF TypeOK, Goes, Locked
  <2> QED
    BY <1>4, <2>2, <2>3, <2>4, <2>5, <2>6 DEF ExtendLock, TypeOK, disk, counters
<1> QED BY <1>2, <1>3, <1>4 DEF ExtendLock

LEMMA ExtendMoveTyped ==
    ASSUME TypeOK, NEW w \in Writer, ExtendMove(w)
    PROVE  TypeOK'
BY Constants
   DEF TypeOK, ExtendMove, Goes, To, End, Step, Locked, disk, counters, ListingOf,
       Manifest, Unlock, Superset, Listed, Published

LEMMA ExtendSyncTyped ==
    ASSUME TypeOK, NEW w \in Writer, ExtendSync(w)
    PROVE  TypeOK'
BY Constants
   DEF TypeOK, ExtendSync, Goes, To, End, Step, Locked, disk, counters, ListingOf,
       Manifest, Unlock, Superset, Listed, Published

LEMMA ExtendSwapTyped ==
    ASSUME TypeOK, NEW w \in Writer, ExtendSwap(w)
    PROVE  TypeOK'
BY Constants
   DEF TypeOK, ExtendSwap, Goes, To, End, Step, Locked, disk, counters, ListingOf,
       Manifest, Unlock, Superset, Listed, Published

LEMMA ExtendEndTyped ==
    ASSUME TypeOK, NEW w \in Writer, ExtendEnd(w)
    PROVE  TypeOK'
BY Constants
   DEF TypeOK, ExtendEnd, Goes, To, End, Step, Locked, disk, counters, ListingOf,
       Manifest, Unlock, Superset, Listed, Published

LEMMA ExtendFailsTyped ==
    ASSUME TypeOK, NEW w \in Writer, ExtendFails(w)
    PROVE  TypeOK'
BY Constants
   DEF TypeOK, ExtendFails, Goes, To, End, Step, Locked, disk, counters, ListingOf,
       Manifest, Unlock, Superset, Listed, Published

LEMMA FindRevisionTyped ==
    ASSUME TypeOK, NEW w \in Writer, FindRevision(w)
    PROVE  TypeOK'
<1>1. step[w] = "find" /\ step[w] \notin Locked
  BY DEF FindRevision, Locked
<1>2. CASE End(w)
  BY <1>1, <1>2, EndTyped DEF FindRevision, disk, TypeOK
<1>3. CASE To(w, "set_ref")
  BY <1>1, <1>3, GoesTyped DEF FindRevision, To, TypeOK, Step, Locked
<1> QED BY <1>2, <1>3 DEF FindRevision

LEMMA SetRefTyped ==
    ASSUME TypeOK, NEW w \in Writer, SetRef(w)
    PROVE  TypeOK'
<1>1. step[w] = "set_ref" /\ step[w] \notin Locked
  BY DEF SetRef, Locked
<1>2. ref' \in [Ref -> Commit \cup {None}]
  BY <1>1 DEF SetRef, TypeOK
<1> QED BY <1>1, <1>2, EndTyped DEF SetRef, disk

LEMMA RemoveStartTyped ==
    ASSUME TypeOK, NEW m \in Remover, NEW c \in Commit, RemoveStart(m, c)
    PROVE  TypeOK'
BY Constants, BoundsAssumption
   DEF TypeOK, RemoveStart, disk, work

LEMMA RemoveFileTyped ==
    ASSUME TypeOK, NEW m \in Remover, RemoveFile(m)
    PROVE  TypeOK'
BY Constants
   DEF TypeOK, RemoveFile, counters, work, Manifest, Published, Vacant

LEMMA RemoveManifestTyped ==
    ASSUME TypeOK, NEW m \in Remover, RemoveManifest(m)
    PROVE  TypeOK'
BY Constants
   DEF TypeOK, RemoveManifest, counters, work, Manifest, Published, Vacant

LEMMA RemoveDirectoryTyped ==
    ASSUME TypeOK, NEW m \in Remover, RemoveDirectory(m)
    PROVE  TypeOK'
BY Constants
   DEF TypeOK, RemoveDirectory, counters, work, Manifest, Published, Vacant

LEMMA StopTyped ==
    ASSUME TypeOK, Stop
    PROVE  TypeOK'
<1>1. stops' \in 0 .. MaxStops
  BY BoundsAssumption DEF TypeOK, Stop
<1>2. CASE \E m \in Remover :
             /\ removing' = [removing EXCEPT ![m] = None]
             /\ UNCHANGED <<work, lock>>
  BY <1>1, <1>2 DEF TypeOK, Stop, disk, work
<1>3. ASSUME NEW w \in Writer, End(w), UNCHANGED removing,
             lock' = [c \in Commit |-> IF lock[c] = w THEN None ELSE lock[c]]
      PROVE  TypeOK'
  <2>1. listing' \in [Writer -> Manifest]
    BY <1>3, Constants DEF TypeOK, End
  <2>2. paths' \in [Writer -> SUBSET Path]
    BY <1>3 DEF TypeOK, End
  <2>3. /\ step' \in [Writer -> Step]
        /\ target' \in [Writer -> Commit \cup {None}]
        /\ name' \in [Writer -> Ref \cup {None}]
        /\ lock' \in [Commit -> Writer \cup {None}]
    BY <1>3 DEF TypeOK, End, Goes, Step
  <2>4. \A v \in Writer : step'[v] # "idle" => target'[v] \in Commit
    BY <1>3 DEF TypeOK, End, Goes
  <2>5. \A c \in Commit, v \in Writer :
           lock'[c] = v <=> target'[v] = c /\ step'[v] \in Locked
    BY <1>3, Constants DEF TypeOK, End, Goes, Locked
  <2> QED
    BY <1>1, <1>3, <2>1, <2>2, <2>3, <2>4, <2>5 DEF Stop, TypeOK, disk
<1> QED BY <1>2, <1>3 DEF Stop

LEMMA PowerLossTyped ==
    ASSUME TypeOK, PowerLoss
    PROVE  TypeOK'
BY Constants, BoundsAssumption
   DEF TypeOK, PowerLoss, Step, Locked, NoFiles, Possible

LEMMA StutterTyped ==
    ASSUME TypeOK, UNCHANGED vars
    PROVE  TypeOK'
BY DEF TypeOK, vars

-----------------------------------------------------------------------------
(* What a step leaves alone stays as it was.                               *)
LEMMA DiskAlone ==
    ASSUME DiskInv, UNCHANGED <<disk, removing, condemned>>
    PROVE  DiskInv'
BY DEF DiskInv, disk, RemovedAreCondemned, UnflushedIsFetched, OlderListLess,
       UnsyncedIsUnlisted, ListedIsIntact, Intact, Within, Published

LEMMA WriterAlone ==
    ASSUME NEW v \in Writer, WriterInv(v), UNCHANGED <<disk, condemned>>,
           step'[v] = step[v], target'[v] = target[v], paths'[v] = paths[v],
           listing'[v] = listing[v]
    PROVE  WriterInv(v)'
BY DEF WriterInv, Extending, Adds, NothingListed, Publishing, Kept, Reporting,
       Possible, disk, Within, Published

(* A writer that ends, or reports without having listed anything.          *)
LEMMA NothingToKeep ==
    ASSUME NEW v \in Writer, listing'[v] = NoFiles,
           step'[v] \in Step \ (Locked \cup {"sync"})
    PROVE  WriterInv(v)'
BY DEF WriterInv, Extending, NothingListed, Publishing, Kept, Reporting,
       NoFiles, Step, Locked

(* So a step of one writer that does not touch the disk.                   *)
LEMMA WriterSteps ==
    ASSUME StoreInv, TypeOK', NEW w \in Writer,
           UNCHANGED <<disk, removing, condemned>>,
           \E next \in Step : step' = [step EXCEPT ![w] = next],
           \A v \in Writer \ {w} :
               /\ target'[v] = target[v] /\ paths'[v] = paths[v]
               /\ listing'[v] = listing[v],
           WriterInv(w)'
    PROVE  StoreInv'
<1>1. DiskInv'
  BY DiskAlone DEF StoreInv
<1>2. ASSUME NEW v \in Writer, v # w
      PROVE  WriterInv(v)'
  <2>1. step'[v] = step[v]
    BY <1>2 DEF StoreInv, TypeOK
  <2> QED BY <1>2, <2>1, WriterAlone DEF StoreInv
<1> QED BY <1>1, <1>2 DEF StoreInv

LEMMA EndKeeps ==
    ASSUME StoreInv, TypeOK', NEW w \in Writer, End(w),
           UNCHANGED <<disk, removing, condemned>>
    PROVE  StoreInv'
<1>1. step' = [step EXCEPT ![w] = "idle"] /\ "idle" \in Step
  BY DEF End, Goes, Step
<1>2. \A v \in Writer \ {w} :
          /\ target'[v] = target[v] /\ paths'[v] = paths[v]
          /\ listing'[v] = listing[v]
  BY DEF End, StoreInv, TypeOK
<1>3. listing'[w] = NoFiles /\ step'[w] \in Step \ (Locked \cup {"sync"})
  BY DEF End, Goes, StoreInv, TypeOK, Step, Locked
<1>4. WriterInv(w)'
  BY <1>3, NothingToKeep
<1> QED BY <1>1, <1>2, <1>4, WriterSteps

LEMMA NothingListedGoes ==
    ASSUME StoreInv, TypeOK', NEW w \in Writer, listing[w] = NoFiles,
           NEW next \in Step \ (Locked \cup {"sync"}), Goes(w, next),
           \A v \in Writer \ {w} : target'[v] = target[v] /\ paths'[v] = paths[v],
           UNCHANGED <<disk, removing, condemned, listing>>
    PROVE  StoreInv'
<1>1. step' = [step EXCEPT ![w] = next]
  BY DEF Goes
<1>2. listing'[w] = NoFiles /\ step'[w] \in Step \ (Locked \cup {"sync"})
  BY <1>1 DEF StoreInv, TypeOK
<1>3. WriterInv(w)'
  BY <1>2, NothingToKeep
<1> QED BY <1>1, <1>3, WriterSteps

LEMMA BeginKeeps ==
    ASSUME StoreInv, NEW w \in Writer, NEW c \in Commit, NEW r \in Ref \cup {None},
           NEW fetched \in SUBSET Path, Begin(w, c, r, fetched)
    PROVE  StoreInv'
<1>1. TypeOK'
  BY BeginTyped DEF StoreInv
<1>2. listing[w] = NoFiles
  BY DEF StoreInv, WriterInv, NothingListed, Begin
<1>3. \A v \in Writer \ {w} : target'[v] = target[v] /\ paths'[v] = paths[v]
  BY DEF Begin, StoreInv, TypeOK
<1>4. PICK next \in {"extend", "publish"} : Goes(w, next)
  BY DEF Begin
<1>5. next \in Step \ (Locked \cup {"sync"})
  BY DEF Step, Locked
<1> QED BY <1>1, <1>2, <1>3, <1>4, <1>5, NothingListedGoes DEF Begin, disk

LEMMA PublishStartKeeps ==
    ASSUME StoreInv, NEW w \in Writer, PublishStart(w)
    PROVE  StoreInv'
<1>1. TypeOK' /\ UNCHANGED <<disk, removing, condemned>>
  BY PublishStartTyped DEF StoreInv, PublishStart
<1>2. listing[w] = NoFiles
  BY DEF StoreInv, WriterInv, NothingListed, PublishStart
<1>3. CASE End(w)
  BY <1>1, <1>3, EndKeeps
<1>4. ASSUME NEW next \in {"rename", "find", "extend"}, To(w, next)
      PROVE  StoreInv'
  <2>1. next \in Step \ (Locked \cup {"sync"})
    BY DEF Step, Locked
  <2> QED BY <1>1, <1>2, <1>4, <2>1, NothingListedGoes DEF To
<1> QED BY <1>3, <1>4 DEF PublishStart

LEMMA PublishRefusedKeeps ==
    ASSUME StoreInv, NEW w \in Writer, PublishRefused(w)
    PROVE  StoreInv'
<1>1. TypeOK' /\ UNCHANGED <<disk, removing, condemned>>
  BY PublishRefusedTyped DEF StoreInv, PublishRefused
<1>2. listing[w] = NoFiles
  BY DEF StoreInv, WriterInv, NothingListed, PublishRefused
<1>3. CASE End(w)
  BY <1>1, <1>3, EndKeeps
<1>4. CASE To(w, "find")
  <2>1. "find" \in Step \ (Locked \cup {"sync"})
    BY DEF Step, Locked
  <2> QED BY <1>1, <1>2, <1>4, <2>1, NothingListedGoes DEF To
<1> QED BY <1>3, <1>4 DEF PublishRefused

LEMMA ExtendStartKeeps ==
    ASSUME StoreInv, NEW w \in Writer, ExtendStart(w)
    PROVE  StoreInv'
<1>1. TypeOK' /\ UNCHANGED <<disk, removing, condemned>>
  BY ExtendStartTyped DEF StoreInv, ExtendStart
<1>2. listing[w] = NoFiles
  BY DEF StoreInv, WriterInv, NothingListed, ExtendStart
<1>3. CASE End(w)
  BY <1>1, <1>3, EndKeeps
<1>4. CASE To(w, "find")
  <2>1. "find" \in Step \ (Locked \cup {"sync"})
    BY DEF Step, Locked
  <2> QED BY <1>1, <1>2, <1>4, <2>1, NothingListedGoes DEF To
<1>5. CASE /\ Goes(w, "lock")
           /\ paths' = [paths EXCEPT ![w] = @ \ Listed(target[w])]
           /\ UNCHANGED <<target, name, listing>>
  <2>1. "lock" \in Step \ (Locked \cup {"sync"})
    BY DEF Step, Locked
  <2>2. \A v \in Writer \ {w} : target'[v] = target[v] /\ paths'[v] = paths[v]
    BY <1>5 DEF StoreInv, TypeOK
  <2> QED BY <1>1, <1>2, <1>5, <2>1, <2>2, NothingListedGoes
<1> QED BY <1>3, <1>4, <1>5 DEF ExtendStart

LEMMA FindRevisionKeeps ==
    ASSUME StoreInv, NEW w \in Writer, FindRevision(w)
    PROVE  StoreInv'
<1>1. TypeOK' /\ UNCHANGED <<disk, removing, condemned>>
  BY FindRevisionTyped DEF StoreInv, FindRevision
<1>2. CASE End(w)
  BY <1>1, <1>2, EndKeeps
<1>3. CASE To(w, "set_ref")
  <2>1. step' = [step EXCEPT ![w] = "set_ref"] /\ "set_ref" \in Step
    BY <1>3 DEF To, Goes, Step
  <2>2. step[w] = "find" /\ step'[w] = "set_ref"
    BY <2>1 DEF FindRevision, StoreInv, TypeOK
  <2>3. WriterInv(w)'
    BY <1>1, <1>3, <2>2
       DEF To, StoreInv, WriterInv, Extending, NothingListed, Publishing, Kept,
           Reporting, Possible, disk, Locked
  <2> QED BY <1>1, <1>3, <2>1, <2>3, WriterSteps DEF To
<1> QED BY <1>2, <1>3 DEF FindRevision

LEMMA SetRefKeeps ==
    ASSUME StoreInv, NEW w \in Writer, SetRef(w)
    PROVE  StoreInv'
BY SetRefTyped, EndKeeps DEF StoreInv, SetRef

LEMMA ExtendFailsKeeps ==
    ASSUME StoreInv, NEW w \in Writer, ExtendFails(w)
    PROVE  StoreInv'
BY ExtendFailsTyped, EndKeeps DEF StoreInv, ExtendFails

LEMMA ExtendLockKeeps ==
    ASSUME StoreInv, NEW w \in Writer, ExtendLock(w)
    PROVE  StoreInv'
<1> DEFINE c == target[w]
           added == paths[w] \ Listed(c)
<1>1. TypeOK' /\ UNCHANGED <<disk, removing, condemned>>
  BY ExtendLockTyped DEF StoreInv, ExtendLock
<1>2. listing[w] = NoFiles
  BY DEF StoreInv, WriterInv, NothingListed, ExtendLock
<1>3. CASE End(w)
  BY <1>1, <1>3, EndKeeps
<1>4. CASE To(w, "find")
  <2>1. "find" \in Step \ (Locked \cup {"sync"})
    BY DEF Step, Locked
  <2> QED BY <1>1, <1>2, <1>4, <2>1, NothingListedGoes DEF To
<1>5. CASE /\ Published(c)
           /\ Goes(w, "move")
           /\ paths' = [paths EXCEPT ![w] = added]
           /\ listing' = [listing EXCEPT ![w] = Superset(w, c, added)]
           /\ UNCHANGED <<target, name>>
  <2>1. step' = [step EXCEPT ![w] = "move"] /\ "move" \in Step
    BY <1>5 DEF Goes, Step
  <2>2. \A v \in Writer \ {w} : paths'[v] = paths[v] /\ listing'[v] = listing[v]
    BY <1>5 DEF StoreInv, TypeOK
  <2>3. /\ step'[w] = "move" /\ target'[w] = c /\ paths'[w] = added
        /\ listing'[w] = Superset(w, c, added)
    BY <1>5, <2>1 DEF StoreInv, TypeOK
  <2>4. \A p \in added : p \in Path /\ manifest[c][p] = None
    BY <1>5 DEF Listed, StoreInv, TypeOK
  <2>5. \A p \in Path : Superset(w, c, added)[p] =
                          IF p \in added THEN w ELSE manifest[c][p]
    BY DEF Superset
  <2> HIDE DEF c, added
  <2>6. Adds(w)'
    BY <1>1, <1>5, <2>3, <2>4, <2>5 DEF Adds, Published, disk
  <2>7. WriterInv(w)'
    BY <2>3, <2>6 DEF WriterInv, Extending, NothingListed, Publishing, Kept, Reporting
  <2> QED BY <1>1, <1>5, <2>1, <2>2, <2>7, WriterSteps
<1> QED BY <1>3, <1>4, <1>5 DEF ExtendLock

-----------------------------------------------------------------------------
(* Nobody extends, publishes or reports a revision that is not there.      *)
LEMMA PublishRenameKeeps ==
    ASSUME StoreInv, NEW w \in Writer, PublishRename(w)
    PROVE  StoreInv'
<1> DEFINE c == target[w]
           new == ListingOf(w, paths[w])
<1>1. /\ TypeOK /\ DiskInv /\ \A v \in Writer : WriterInv(v)
      /\ TypeOK'
  BY PublishRenameTyped DEF StoreInv
<1>2. c \in Commit /\ ~ Published(c) /\ new \in Manifest /\ new # None
  BY <1>1, Constants DEF PublishRename, TypeOK, Vacant, ListingOf, Manifest
<1>3. /\ manifest' = [manifest EXCEPT ![c] = new]
      /\ file' = [file EXCEPT ![c] = new]
      /\ unsynced' = [unsynced EXCEPT ![c] = {}]
      /\ unflushed' = [unflushed EXCEPT ![c] =
                         IF w \in Fetching THEN paths[w] ELSE {}]
      /\ stale' = [stale EXCEPT ![c] = {None}]
      /\ listing' = [listing EXCEPT ![w] = new]
      /\ step' = [step EXCEPT ![w] = "sync"]
      /\ UNCHANGED <<target, paths, removing, condemned>>
  BY DEF PublishRename, Goes
<1>4. \A p \in Path : new[p] = IF p \in paths[w] THEN w ELSE None
  BY DEF ListingOf
<1> HIDE DEF c, new
<1>5. DiskInv'
  <2>1. RemovedAreCondemned'
    BY <1>1, <1>3 DEF DiskInv, RemovedAreCondemned
  <2>2. UnflushedIsFetched'
    BY <1>1, <1>2, <1>3, <1>4 DEF DiskInv, UnflushedIsFetched, TypeOK
  <2>3. OlderListLess'
    BY <1>1, <1>2, <1>3 DEF DiskInv, OlderListLess, TypeOK, Published, Within
  <2>4. UnsyncedIsUnlisted'
    BY <1>1, <1>2, <1>3 DEF DiskInv, UnsyncedIsUnlisted, TypeOK, Published
  <2>5. ListedIsIntact'
    BY <1>1, <1>2, <1>3 DEF DiskInv, ListedIsIntact, Intact, TypeOK, Published
  <2> QED BY <2>1, <2>2, <2>3, <2>4, <2>5 DEF DiskInv
<1>6. WriterInv(w)'
  <2>1. step'[w] = "sync" /\ listing'[w] = new /\ target'[w] = c /\ manifest'[c] = new
        /\ stale'[c] = {None}
    BY <1>1, <1>2, <1>3 DEF TypeOK, c
  <2> QED
    BY <1>2, <2>1 DEF WriterInv, Extending, NothingListed, Publishing, Kept,
       Reporting, Locked, Published, Within
<1>7. ASSUME NEW v \in Writer, v # w
      PROVE  WriterInv(v)'
  <2>1. /\ step'[v] = step[v] /\ target'[v] = target[v] /\ paths'[v] = paths[v]
        /\ listing'[v] = listing[v]
    BY <1>1, <1>3, <1>7 DEF TypeOK
  <2>2. CASE target[v] # c
    BY <1>1, <1>2, <1>3, <2>1, <2>2
       DEF TypeOK, WriterInv, Extending, Adds, NothingListed, Publishing, Kept,
           Reporting, Possible, Within, Published, Locked
  <2>3. CASE target[v] = c
    <3>1. CASE c \in condemned
      BY <1>1, <1>3, <2>1, <2>3, <3>1
         DEF WriterInv, Extending, NothingListed, Publishing, Kept
    <3>2. CASE c \notin condemned
      <4>1. step[v] \notin Locked /\ step[v] # "sync"
        BY <1>1, <1>2, <2>3, <3>2 DEF WriterInv, Extending, Adds, Publishing
      <4>2. Reporting(v) => \A p \in Path : listing[v][p] = None
        BY <1>1, <1>2, <2>3, <3>2 DEF WriterInv, Kept, Possible, Published
      <4> QED
        BY <1>1, <1>3, <2>1, <2>3, <4>1, <4>2
           DEF WriterInv, Extending, NothingListed, Publishing, Kept, Reporting
    <3> QED BY <3>1, <3>2
  <2> QED BY <2>2, <2>3
<1> QED BY <1>1, <1>5, <1>6, <1>7 DEF StoreInv

(* The other writers when a step of w changes the disk of its commit: what *)
(* they need of a commit they are not extending.                           *)
LEMMA OthersKeep ==
    ASSUME NEW v \in Writer, WriterInv(v), TypeOK, NEW c \in Commit,
           step'[v] = step[v], target'[v] = target[v], paths'[v] = paths[v],
           listing'[v] = listing[v], UNCHANGED condemned,
           step[v] \in Locked => target[v] # c,
           \A d \in Commit \ {c} :
               /\ manifest'[d] = manifest[d] /\ file'[d] = file[d]
               /\ stale'[d] = stale[d] /\ unsynced'[d] = unsynced[d],
           manifest'[c] = None => manifest[c] = None,
           manifest[c] # None => Within(manifest[c], manifest'[c]),
           stale'[c] \subseteq stale[c] \cup {manifest[c]}
    PROVE  WriterInv(v)'
<1>1. CASE target[v] # c
  <2>1. step[v] # "idle" => target[v] \in Commit \ {c}
    BY <1>1 DEF TypeOK
  <2>2. NothingListed(v)'
    BY DEF WriterInv, NothingListed
  <2>3. Extending(v)'
    BY <2>1 DEF WriterInv, Extending, Adds, Published, Locked
  <2>4. Publishing(v)'
    BY <2>1 DEF WriterInv, Publishing, Published, Within
  <2>5. Kept(v)'
    BY <2>1 DEF WriterInv, Kept, Reporting, Possible
  <2> QED BY <2>2, <2>3, <2>4, <2>5 DEF WriterInv
<1>2. CASE target[v] = c
  <2>1. Extending(v)' /\ NothingListed(v)'
    BY <1>2 DEF WriterInv, Extending, NothingListed
  <2>2. Publishing(v)'
    BY <1>2 DEF WriterInv, Publishing, Published, Within
  <2>3. Kept(v)'
    BY <1>2 DEF WriterInv, Kept, Reporting, Possible, Within
  <2> QED BY <2>1, <2>2, <2>3 DEF WriterInv
<1> QED BY <1>1, <1>2

LEMMA PublishSyncKeeps ==
    ASSUME StoreInv, NEW w \in Writer, PublishSync(w)
    PROVE  StoreInv'
<1> DEFINE c == target[w]
<1>1. /\ TypeOK /\ DiskInv /\ \A v \in Writer : WriterInv(v)
      /\ TypeOK'
  BY PublishSyncTyped DEF StoreInv
<1>2. /\ c \in Commit /\ step[w] = "sync"
      /\ stale' = [stale EXCEPT ![c] = @ \ {None}]
      /\ step' = [step EXCEPT ![w] = "find"]
      /\ UNCHANGED <<manifest, file, unsynced, unflushed, target, paths, listing,
                     removing, condemned>>
  BY <1>1 DEF PublishSync, To, Goes, TypeOK
<1> HIDE DEF c
<1>3. DiskInv'
  BY <1>1, <1>2 DEF DiskInv, RemovedAreCondemned, UnflushedIsFetched, OlderListLess,
       UnsyncedIsUnlisted, ListedIsIntact, Intact, Within, Published, TypeOK
<1>4. WriterInv(w)'
  BY <1>1, <1>2
     DEF c, TypeOK, WriterInv, Extending, NothingListed, Publishing, Kept, Reporting,
         Possible, Locked, Published, Within
<1>5. ASSUME NEW v \in Writer, v # w
      PROVE  WriterInv(v)'
  BY <1>1, <1>2, <1>5
     DEF TypeOK, WriterInv, Extending, Adds, NothingListed, Publishing, Kept, Reporting,
         Possible, Within, Published
<1> QED BY <1>1, <1>3, <1>4, <1>5 DEF StoreInv

-----------------------------------------------------------------------------
(* A step of an extension: only its writer holds the lock of the commit.   *)
LEMMA OneExtends ==
    ASSUME TypeOK, NEW w \in Writer, step[w] \in Locked, NEW v \in Writer, v # w,
           step[v] \in Locked
    PROVE  target[v] # target[w]
BY DEF TypeOK, Locked

LEMMA ExtendMoveKeeps ==
    ASSUME StoreInv, NEW w \in Writer, ExtendMove(w)
    PROVE  StoreInv'
<1> DEFINE c == target[w]
<1>1. /\ TypeOK /\ DiskInv /\ \A v \in Writer : WriterInv(v)
      /\ TypeOK'
  BY ExtendMoveTyped DEF StoreInv
<1>a. PICK p \in paths[w] :
        /\ file' = [file EXCEPT ![c][p] = w]
        /\ unsynced' = [unsynced EXCEPT ![c] = @ \cup {p}]
        /\ unflushed' = [unflushed EXCEPT ![c] = @ \ {p}]
        /\ paths' = [paths EXCEPT ![w] = @ \ {p}]
        /\ Goes(w, IF paths[w] = {p} THEN "sync_files" ELSE "move")
  BY Zenon DEF ExtendMove
<1>2. /\ p \in Path /\ p \in paths[w]
      /\ file' = [file EXCEPT ![c][p] = w]
      /\ unsynced' = [unsynced EXCEPT ![c] = @ \cup {p}]
      /\ unflushed' = [unflushed EXCEPT ![c] = @ \ {p}]
      /\ paths' = [paths EXCEPT ![w] = @ \ {p}]
      /\ Goes(w, IF paths[w] = {p} THEN "sync_files" ELSE "move")
  <2>1. paths[w] \subseteq Path
    BY <1>1 DEF TypeOK
  <2> QED BY <1>a, <2>1, Zenon
<1>3. /\ c \in Commit /\ step[w] = "move" /\ step[w] \in Locked
      /\ UNCHANGED <<manifest, stale, target, listing, removing, condemned>>
  BY <1>1 DEF ExtendMove, TypeOK, Locked
<1>4. c \notin condemned => Adds(w)
  BY <1>1, <1>3 DEF WriterInv, Extending
<1>5. c \notin condemned => Published(c) /\ manifest[c][p] = None
  BY <1>2, <1>3, <1>4 DEF Adds
<1> HIDE DEF c
<1>6. DiskInv'
  <2>1. RemovedAreCondemned' /\ OlderListLess'
    BY <1>1, <1>3 DEF DiskInv, RemovedAreCondemned, OlderListLess, Within, Published
  <2>2. UnflushedIsFetched'
    BY <1>1, <1>2, <1>3 DEF DiskInv, UnflushedIsFetched, TypeOK
  <2>3. UnsyncedIsUnlisted'
    BY <1>1, <1>2, <1>3, <1>5 DEF DiskInv, UnsyncedIsUnlisted, TypeOK, Published
  <2>4. ListedIsIntact'
    BY <1>1, <1>2, <1>3, <1>5 DEF DiskInv, ListedIsIntact, Intact, TypeOK, Published
  <2> QED BY <2>1, <2>2, <2>3, <2>4 DEF DiskInv
<1>7. WriterInv(w)'
  <2>1. /\ target'[w] = c /\ listing'[w] = listing[w] /\ paths'[w] = paths[w] \ {p}
        /\ step'[w] = IF paths[w] = {p} THEN "sync_files" ELSE "move"
    BY <1>1, <1>2, <1>3 DEF TypeOK, Goes, c
  <2>2. file'[c][p] = w /\ \A q \in Path : q # p => file'[c][q] = file[c][q]
    BY <1>1, <1>2, <1>3 DEF TypeOK
  <2>3. ASSUME c \notin condemned
        PROVE  Adds(w)'
    BY <1>2, <1>3, <1>4, <2>1, <2>2, <2>3 DEF Adds, Published, c
  <2> QED
    BY <1>3, <2>1, <2>3
       DEF WriterInv, Extending, NothingListed, Publishing, Kept, Reporting
<1>8. ASSUME NEW v \in Writer, v # w
      PROVE  WriterInv(v)'
  <2>1. /\ step'[v] = step[v] /\ target'[v] = target[v] /\ paths'[v] = paths[v]
        /\ listing'[v] = listing[v]
    BY <1>1, <1>2, <1>3, <1>8 DEF TypeOK, Goes
  <2>2. step[v] \in Locked => target[v] # c
    BY <1>1, <1>3, <1>8, OneExtends DEF c
  <2>3. \A d \in Commit \ {c} :
          /\ manifest'[d] = manifest[d] /\ file'[d] = file[d]
          /\ stale'[d] = stale[d] /\ unsynced'[d] = unsynced[d]
    BY <1>1, <1>2, <1>3 DEF TypeOK
  <2>4. /\ manifest'[c] = None => manifest[c] = None
        /\ manifest[c] # None => Within(manifest[c], manifest'[c])
        /\ stale'[c] \subseteq stale[c] \cup {manifest[c]}
    BY <1>3 DEF Within
  <2> QED BY <1>1, <1>3, <2>1, <2>2, <2>3, <2>4, OthersKeep
<1> QED BY <1>1, <1>6, <1>7, <1>8 DEF StoreInv

LEMMA ExtendSyncKeeps ==
    ASSUME StoreInv, NEW w \in Writer, ExtendSync(w)
    PROVE  StoreInv'
<1> DEFINE c == target[w]
<1>1. /\ TypeOK /\ DiskInv /\ \A v \in Writer : WriterInv(v)
      /\ TypeOK'
  BY ExtendSyncTyped DEF StoreInv
<1>2. /\ c \in Commit /\ step[w] = "sync_files" /\ step[w] \in Locked
      /\ unsynced' = [unsynced EXCEPT ![c] = {}]
      /\ step' = [step EXCEPT ![w] = "swap"]
      /\ UNCHANGED <<manifest, file, unflushed, stale, target, paths, listing,
                     removing, condemned>>
  BY <1>1 DEF ExtendSync, To, Goes, TypeOK, Locked
<1> HIDE DEF c
<1>3. DiskInv'
  BY <1>1, <1>2 DEF DiskInv, RemovedAreCondemned, UnflushedIsFetched, OlderListLess,
       UnsyncedIsUnlisted, ListedIsIntact, Intact, Within, Published, TypeOK
<1>4. WriterInv(w)'
  <2>1. /\ step'[w] = "swap" /\ target'[w] = c /\ paths'[w] = paths[w]
        /\ listing'[w] = listing[w] /\ target[w] = c
    BY <1>1, <1>2 DEF TypeOK, c
  <2>2. ASSUME c \notin condemned
        PROVE  Adds(w)'
    <3>1. Adds(w) /\ step[w] = "sync_files"
      BY <1>1, <1>2, <2>1, <2>2 DEF WriterInv, Extending
    <3>2. unsynced'[c] = {} /\ manifest' = manifest /\ file' = file
      BY <1>1, <1>2 DEF TypeOK
    <3> QED BY <2>1, <3>1, <3>2 DEF Adds, Published
  <2> QED
    BY <1>2, <2>1, <2>2 DEF WriterInv, Extending, NothingListed, Publishing, Kept, Reporting
<1>5. ASSUME NEW v \in Writer, v # w
      PROVE  WriterInv(v)'
  <2>1. /\ step'[v] = step[v] /\ target'[v] = target[v] /\ paths'[v] = paths[v]
        /\ listing'[v] = listing[v]
    BY <1>1, <1>2, <1>5 DEF TypeOK
  <2>2. step[v] \in Locked => target[v] # c
    BY <1>1, <1>2, <1>5, OneExtends DEF c
  <2>3. \A d \in Commit \ {c} :
          /\ manifest'[d] = manifest[d] /\ file'[d] = file[d]
          /\ stale'[d] = stale[d] /\ unsynced'[d] = unsynced[d]
    BY <1>1, <1>2 DEF TypeOK
  <2>4. /\ manifest'[c] = None => manifest[c] = None
        /\ manifest[c] # None => Within(manifest[c], manifest'[c])
        /\ stale'[c] \subseteq stale[c] \cup {manifest[c]}
    BY <1>2 DEF Within
  <2> QED BY <1>1, <1>2, <2>1, <2>2, <2>3, <2>4, OthersKeep
<1> QED BY <1>1, <1>3, <1>4, <1>5 DEF StoreInv

LEMMA ExtendSwapKeeps ==
    ASSUME StoreInv, NEW w \in Writer, ExtendSwap(w)
    PROVE  StoreInv'
<1> DEFINE c == target[w]
           new == listing[w]
<1>1. /\ TypeOK /\ DiskInv /\ \A v \in Writer : WriterInv(v)
      /\ TypeOK'
  BY ExtendSwapTyped DEF StoreInv
<1>2. /\ c \in Commit /\ step[w] = "swap" /\ step[w] \in Locked
      /\ manifest' = [manifest EXCEPT ![c] = new]
      /\ stale' = [stale EXCEPT ![c] = @ \cup {manifest[c]}]
      /\ step' = [step EXCEPT ![w] = "sync_manifest"]
      /\ UNCHANGED <<file, unsynced, unflushed, target, paths, listing, removing,
                     condemned>>
      /\ c' = c
  BY <1>1 DEF ExtendSwap, To, Goes, TypeOK, Locked
<1>3. new \in Manifest /\ new # None
  BY <1>1, Constants DEF TypeOK
<1>4. c \notin condemned =>
        /\ Published(c) /\ unsynced[c] = {}
        /\ \A p \in Path :
             \/ new[p] = manifest[c][p]
             \/ manifest[c][p] = None /\ new[p] = w /\ file[c][p] = w
  BY <1>1, <1>2 DEF WriterInv, Extending, Adds
<1> HIDE DEF c, new
<1>5. c \notin condemned => Within(manifest[c], new)
  BY <1>4 DEF Within
<1>6. DiskInv'
  <2>1. RemovedAreCondemned' /\ UnflushedIsFetched'
    BY <1>1, <1>2 DEF DiskInv, RemovedAreCondemned, UnflushedIsFetched
  <2>2. OlderListLess'
    BY <1>1, <1>2, <1>3, <1>5
       DEF DiskInv, OlderListLess, TypeOK, Published, Within
  <2>3. UnsyncedIsUnlisted'
    BY <1>1, <1>2, <1>4 DEF DiskInv, UnsyncedIsUnlisted, TypeOK, Published
  <2>4. ListedIsIntact'
    <3>1. ASSUME NEW d \in Commit \ condemned, d # c, Published(d)'
          PROVE  Intact(d, manifest[d])'
      BY <1>1, <1>2, <3>1 DEF DiskInv, ListedIsIntact, Intact, TypeOK, Published
    <3>2. ASSUME c \notin condemned
          PROVE  Intact(c, manifest[c])'
      <4>1. manifest'[c] = new /\ Intact(c, manifest[c])
        BY <1>1, <1>2, <1>4, <3>2 DEF DiskInv, ListedIsIntact, TypeOK
      <4> QED BY <1>2, <1>4, <3>2, <4>1 DEF Intact
    <3> QED BY <1>2, <3>1, <3>2 DEF ListedIsIntact
  <2> QED BY <2>1, <2>2, <2>3, <2>4 DEF DiskInv
<1>7. WriterInv(w)'
  <2>1. /\ target'[w] = c /\ listing'[w] = new /\ manifest'[c] = new
        /\ step'[w] = "sync_manifest"  /\ paths'[w] = paths[w]
    BY <1>1, <1>2 DEF TypeOK, c, new
  <2>2. Adds(w)'
    BY <1>3, <2>1 DEF Adds, Published
  <2> QED
    BY <2>1, <2>2 DEF WriterInv, Extending, NothingListed, Publishing, Kept, Reporting
<1>8. ASSUME NEW v \in Writer, v # w
      PROVE  WriterInv(v)'
  <2>1. /\ step'[v] = step[v] /\ target'[v] = target[v] /\ paths'[v] = paths[v]
        /\ listing'[v] = listing[v]
    BY <1>1, <1>2, <1>8 DEF TypeOK
  <2>2. step[v] \in Locked => target[v] # c
    BY <1>1, <1>2, <1>8, OneExtends DEF c
  <2>3. \A d \in Commit \ {c} :
          /\ manifest'[d] = manifest[d] /\ file'[d] = file[d]
          /\ stale'[d] = stale[d] /\ unsynced'[d] = unsynced[d]
    BY <1>1, <1>2 DEF TypeOK
  <2>4. /\ manifest'[c] = new
        /\ stale'[c] \subseteq stale[c] \cup {manifest[c]}
    BY <1>1, <1>2 DEF TypeOK
  <2>5. CASE c \notin condemned
    BY <1>1, <1>2, <1>3, <1>5, <2>1, <2>2, <2>3, <2>4, <2>5, OthersKeep
  <2>6. CASE c \in condemned
    BY <1>1, <1>2, <2>1, <2>3, <2>6
       DEF TypeOK, WriterInv, Extending, Adds, NothingListed, Publishing, Kept,
           Reporting, Possible, Within, Published, Locked
  <2> QED BY <2>5, <2>6
<1> QED BY <1>1, <1>6, <1>7, <1>8 DEF StoreInv

LEMMA ExtendEndKeeps ==
    ASSUME StoreInv, NEW w \in Writer, ExtendEnd(w)
    PROVE  StoreInv'
<1> DEFINE c == target[w]
<1>1. /\ TypeOK /\ DiskInv /\ \A v \in Writer : WriterInv(v)
      /\ TypeOK'
  BY ExtendEndTyped DEF StoreInv
<1>2. /\ c \in Commit /\ step[w] = "sync_manifest" /\ step[w] \in Locked
      /\ stale' = [stale EXCEPT ![c] = {}]
      /\ step' = [step EXCEPT ![w] = "find"]
      /\ UNCHANGED <<manifest, file, unsynced, unflushed, target, paths, listing,
                     removing, condemned>>
  BY <1>1 DEF ExtendEnd, To, Goes, TypeOK, Locked
<1> HIDE DEF c
<1>3. DiskInv'
  BY <1>1, <1>2 DEF DiskInv, RemovedAreCondemned, UnflushedIsFetched, OlderListLess,
       UnsyncedIsUnlisted, ListedIsIntact, Intact, Within, Published, TypeOK
<1>4. WriterInv(w)'
  BY <1>1, <1>2
     DEF c, TypeOK, WriterInv, Extending, Adds, NothingListed, Publishing, Kept,
         Reporting, Possible, Locked, Published
<1>5. ASSUME NEW v \in Writer, v # w
      PROVE  WriterInv(v)'
  <2>1. /\ step'[v] = step[v] /\ target'[v] = target[v] /\ paths'[v] = paths[v]
        /\ listing'[v] = listing[v]
    BY <1>1, <1>2, <1>5 DEF TypeOK
  <2>2. step[v] \in Locked => target[v] # c
    BY <1>1, <1>2, <1>5, OneExtends DEF c
  <2>3. \A d \in Commit \ {c} :
          /\ manifest'[d] = manifest[d] /\ file'[d] = file[d]
          /\ stale'[d] = stale[d] /\ unsynced'[d] = unsynced[d]
    BY <1>1, <1>2 DEF TypeOK
  <2>4. /\ manifest'[c] = None => manifest[c] = None
        /\ manifest[c] # None => Within(manifest[c], manifest'[c])
        /\ stale'[c] \subseteq stale[c] \cup {manifest[c]}
    BY <1>1, <1>2 DEF TypeOK, Within
  <2> QED BY <1>1, <1>2, <2>1, <2>2, <2>3, <2>4, OthersKeep
<1> QED BY <1>1, <1>3, <1>4, <1>5 DEF StoreInv

-----------------------------------------------------------------------------
(* Nothing is claimed of a revision whose deletion was begun.              *)
LEMMA RemoveStartKeeps ==
    ASSUME StoreInv, NEW m \in Remover, NEW c \in Commit, RemoveStart(m, c)
    PROVE  StoreInv'
<1>1. /\ TypeOK /\ DiskInv /\ \A v \in Writer : WriterInv(v)
      /\ TypeOK'
  BY RemoveStartTyped DEF StoreInv
<1>2. /\ condemned' = condemned \cup {c}
      /\ removing' = [removing EXCEPT ![m] = c]
      /\ UNCHANGED <<manifest, file, unsynced, unflushed, stale, step, target, paths,
                     listing>>
  BY DEF RemoveStart, disk, work
<1>3. DiskInv'
  BY <1>1, <1>2 DEF DiskInv, RemovedAreCondemned, UnflushedIsFetched, OlderListLess,
       UnsyncedIsUnlisted, ListedIsIntact, Intact, Within, Published, TypeOK
<1>4. ASSUME NEW v \in Writer
      PROVE  WriterInv(v)'
  BY <1>1, <1>2
     DEF WriterInv, Extending, Adds, NothingListed, Publishing, Kept, Reporting,
         Possible, Within, Published
<1> QED BY <1>1, <1>3, <1>4 DEF StoreInv

(* The writers when a removal changes the disk of a condemned commit.      *)
LEMMA CondemnedChanges ==
    ASSUME NEW v \in Writer, WriterInv(v), TypeOK, NEW c \in condemned,
           UNCHANGED <<work, condemned>>,
           \A d \in Commit \ {c} :
               /\ manifest'[d] = manifest[d] /\ file'[d] = file[d]
               /\ stale'[d] = stale[d] /\ unsynced'[d] = unsynced[d]
    PROVE  WriterInv(v)'
<1>1. step[v] # "idle" /\ target[v] \notin condemned => target[v] \in Commit \ {c}
  BY DEF TypeOK
<1>2. NothingListed(v)'
  BY DEF WriterInv, NothingListed, work
<1>3. Extending(v)'
  BY <1>1 DEF WriterInv, Extending, Adds, Published, Locked, work
<1>4. Publishing(v)'
  BY <1>1 DEF WriterInv, Publishing, Published, Within, work
<1>5. Kept(v)'
  BY <1>1 DEF WriterInv, Kept, Reporting, Possible, work
<1> QED BY <1>2, <1>3, <1>4, <1>5 DEF WriterInv

LEMMA RemoveFileKeeps ==
    ASSUME StoreInv, NEW m \in Remover, RemoveFile(m)
    PROVE  StoreInv'
<1> DEFINE c == removing[m]
<1>1. /\ TypeOK /\ DiskInv /\ \A v \in Writer : WriterInv(v)
      /\ TypeOK'
  BY RemoveFileTyped DEF StoreInv
<1>2. PICK p \in Path :
        /\ file' = [file EXCEPT ![c][p] = None]
        /\ unsynced' = [unsynced EXCEPT ![c] = @ \ {p}]
        /\ unflushed' = [unflushed EXCEPT ![c] = @ \ {p}]
  BY DEF RemoveFile
<1>3. /\ c \in Commit /\ c \in condemned
      /\ UNCHANGED <<manifest, stale, work, removing, condemned>>
  BY <1>1 DEF RemoveFile, TypeOK, DiskInv, RemovedAreCondemned
<1> HIDE DEF c
<1>4. DiskInv'
  <2>1. RemovedAreCondemned' /\ OlderListLess'
    BY <1>1, <1>3 DEF DiskInv, RemovedAreCondemned, OlderListLess, Within, Published
  <2>2. UnflushedIsFetched'
    BY <1>1, <1>2, <1>3 DEF DiskInv, UnflushedIsFetched, TypeOK
  <2>3. UnsyncedIsUnlisted' /\ ListedIsIntact'
    BY <1>1, <1>2, <1>3
       DEF DiskInv, UnsyncedIsUnlisted, ListedIsIntact, Intact, TypeOK, Published
  <2> QED BY <2>1, <2>2, <2>3 DEF DiskInv
<1>5. \A d \in Commit \ {c} :
        /\ manifest'[d] = manifest[d] /\ file'[d] = file[d]
        /\ stale'[d] = stale[d] /\ unsynced'[d] = unsynced[d]
  BY <1>1, <1>2, <1>3 DEF TypeOK
<1> QED BY <1>1, <1>3, <1>4, <1>5, CondemnedChanges DEF StoreInv

LEMMA RemoveManifestKeeps ==
    ASSUME StoreInv, NEW m \in Remover, RemoveManifest(m)
    PROVE  StoreInv'
<1> DEFINE c == removing[m]
<1>1. /\ TypeOK /\ DiskInv /\ \A v \in Writer : WriterInv(v)
      /\ TypeOK'
  BY RemoveManifestTyped DEF StoreInv
<1>2. /\ c \in Commit /\ c \in condemned
      /\ manifest' = [manifest EXCEPT ![c] = None]
      /\ UNCHANGED <<file, unsynced, unflushed, stale, work, removing, condemned>>
  BY <1>1 DEF RemoveManifest, TypeOK, DiskInv, RemovedAreCondemned
<1> HIDE DEF c
<1>3. DiskInv'
  BY <1>1, <1>2 DEF DiskInv, RemovedAreCondemned, UnflushedIsFetched, OlderListLess,
       UnsyncedIsUnlisted, ListedIsIntact, Intact, Within, Published, TypeOK
<1>4. \A d \in Commit \ {c} :
        /\ manifest'[d] = manifest[d] /\ file'[d] = file[d]
        /\ stale'[d] = stale[d] /\ unsynced'[d] = unsynced[d]
  BY <1>1, <1>2 DEF TypeOK
<1> QED BY <1>1, <1>2, <1>3, <1>4, CondemnedChanges DEF StoreInv

LEMMA RemoveDirectoryKeeps ==
    ASSUME StoreInv, NEW m \in Remover, RemoveDirectory(m)
    PROVE  StoreInv'
<1> DEFINE c == removing[m]
<1>1. /\ TypeOK /\ DiskInv /\ \A v \in Writer : WriterInv(v)
      /\ TypeOK'
  BY RemoveDirectoryTyped DEF StoreInv
<1>2. /\ c \in Commit /\ c \in condemned
      /\ stale' = [stale EXCEPT ![c] = {}]
      /\ removing' = [removing EXCEPT ![m] = None]
      /\ UNCHANGED <<manifest, file, unsynced, unflushed, work, condemned>>
  BY <1>1 DEF RemoveDirectory, TypeOK, DiskInv, RemovedAreCondemned
<1> HIDE DEF c
<1>3. DiskInv'
  BY <1>1, <1>2 DEF DiskInv, RemovedAreCondemned, UnflushedIsFetched, OlderListLess,
       UnsyncedIsUnlisted, ListedIsIntact, Intact, Within, Published, TypeOK
<1>4. \A d \in Commit \ {c} :
        /\ manifest'[d] = manifest[d] /\ file'[d] = file[d]
        /\ stale'[d] = stale[d] /\ unsynced'[d] = unsynced[d]
  BY <1>1, <1>2 DEF TypeOK
<1> QED BY <1>1, <1>2, <1>3, <1>4, CondemnedChanges DEF StoreInv

-----------------------------------------------------------------------------
LEMMA StopKeeps ==
    ASSUME StoreInv, Stop
    PROVE  StoreInv'
<1>1. TypeOK' /\ UNCHANGED <<disk, condemned>>
  BY StopTyped DEF StoreInv, Stop
<1>2. ASSUME NEW w \in Writer, End(w), UNCHANGED removing
      PROVE  StoreInv'
  BY <1>1, <1>2, EndKeeps
<1>3. ASSUME NEW m \in Remover, removing' = [removing EXCEPT ![m] = None],
             UNCHANGED <<work, lock>>
      PROVE  StoreInv'
  <2>1. DiskInv'
    BY <1>1, <1>3 DEF StoreInv, TypeOK, DiskInv, disk, RemovedAreCondemned,
         UnflushedIsFetched, OlderListLess, UnsyncedIsUnlisted, ListedIsIntact, Intact,
         Within, Published
  <2>2. \A v \in Writer : WriterInv(v)'
    BY <1>1, <1>3, WriterAlone DEF StoreInv, work
  <2> QED BY <1>1, <2>1, <2>2 DEF StoreInv
<1> QED BY <1>2, <1>3 DEF Stop

(* An older manifest lists less, and what is listed is neither unsynced    *)
(* nor, if it is still there, torn before.                                 *)
LEMMA PowerLossKeeps ==
    ASSUME StoreInv, PowerLoss
    PROVE  StoreInv'
<1>1. /\ TypeOK /\ DiskInv /\ TypeOK'
  BY PowerLossTyped DEF StoreInv
<1>2. RemovedAreCondemned' /\ UnflushedIsFetched' /\ OlderListLess'
      /\ UnsyncedIsUnlisted'
  BY DEF PowerLoss, RemovedAreCondemned, UnflushedIsFetched, OlderListLess,
         UnsyncedIsUnlisted
<1>3. ListedIsIntact'
  <2> SUFFICES ASSUME NEW c \in Commit \ condemned, Published(c)',
                      NEW p \in Path, manifest'[c][p] # None
               PROVE  \/ file'[c][p] = manifest'[c][p]
                      \/ file'[c][p] = Torn /\ manifest'[c][p] \in Fetching
    BY DEF ListedIsIntact, Intact, PowerLoss
  <2>1. manifest'[c] # None /\ manifest'[c] \in Possible(c)
    BY DEF Published, PowerLoss
  <2>2. Published(c) /\ manifest[c][p] = manifest'[c][p]
    BY <1>1, <2>1 DEF DiskInv, OlderListLess, Possible, Within, Published
  <2>3. p \notin unsynced[c]
    BY <1>1, <2>2 DEF DiskInv, UnsyncedIsUnlisted
  <2>4. \/ file[c][p] = manifest[c][p]
        \/ file[c][p] = Torn /\ manifest[c][p] \in Fetching
    BY <1>1, <2>2 DEF DiskInv, ListedIsIntact, Intact
  <2>5. p \in unflushed[c] => file[c][p] = manifest[c][p] /\ manifest[c][p] \in Fetching
    BY <1>1, <2>4, Constants DEF DiskInv, UnflushedIsFetched
  <2>6. \/ file'[c][p] = file[c][p]
        \/ file'[c][p] = Torn /\ p \in unflushed[c]
    <3>1. c \notin {d \in Commit : Published(d) /\ manifest'[d] = None}
      BY <2>1
    <3>2. PICK gone \in [Commit -> SUBSET Path], torn \in [Commit -> SUBSET Path] :
            /\ \A d \in Commit : gone[d] \subseteq unsynced[d]
            /\ \A d \in Commit : torn[d] \subseteq unflushed[d]
            /\ file' = [d \in Commit |->
                 IF d \in {e \in Commit : Published(e) /\ manifest'[e] = None}
                 THEN NoFiles
                 ELSE [q \in Path |-> IF q \in gone[d] THEN None
                                      ELSE IF q \in torn[d] THEN Torn
                                      ELSE file[d][q]]]
      BY DEF PowerLoss
    <3> QED BY <2>3, <3>1, <3>2
  <2> QED BY <2>2, <2>4, <2>5, <2>6
<1>4. ASSUME NEW v \in Writer
      PROVE  WriterInv(v)'
  <2>1. listing'[v] = NoFiles /\ step'[v] \in Step \ (Locked \cup {"sync"})
    BY DEF PowerLoss, Step, Locked
  <2> QED BY <2>1, NothingToKeep
<1> QED BY <1>1, <1>2, <1>3, <1>4 DEF StoreInv, DiskInv

LEMMA WriteKeeps ==
    ASSUME StoreInv, NEW w \in Writer, Write(w)
    PROVE  StoreInv'
BY BeginKeeps, PublishStartKeeps, PublishRenameKeeps, PublishRefusedKeeps,
   PublishSyncKeeps, ExtendStartKeeps, ExtendLockKeeps, ExtendMoveKeeps, ExtendSyncKeeps,
   ExtendSwapKeeps, ExtendEndKeeps, ExtendFailsKeeps, FindRevisionKeeps, SetRefKeeps
   DEF Write

LEMMA RemoveKeeps ==
    ASSUME StoreInv, NEW m \in Remover, Remove(m)
    PROVE  StoreInv'
BY RemoveStartKeeps, RemoveFileKeeps, RemoveManifestKeeps, RemoveDirectoryKeeps
   DEF Remove

LEMMA InitKeeps == Init => StoreInv
BY InitTyped DEF Init, StoreInv, DiskInv, WriterInv, RemovedAreCondemned,
   UnflushedIsFetched, OlderListLess, UnsyncedIsUnlisted, ListedIsIntact, Extending,
   NothingListed, Publishing, Kept, Reporting, Locked, Published

LEMMA StepKeeps == StoreInv /\ [Next]_vars => StoreInv'
<1> SUFFICES ASSUME StoreInv, [Next]_vars PROVE StoreInv'
  OBVIOUS
<1>1. CASE UNCHANGED vars
  <2>1. TypeOK' /\ DiskInv'
    BY <1>1, StutterTyped, DiskAlone DEF StoreInv, vars, disk
  <2>2. \A v \in Writer : WriterInv(v)'
    BY <1>1, WriterAlone DEF StoreInv, vars, disk
  <2> QED BY <2>1, <2>2 DEF StoreInv
<1>2. CASE Next
  BY <1>2, WriteKeeps, RemoveKeeps, StopKeeps, PowerLossKeeps DEF Next
<1> QED BY <1>1, <1>2

(* The invariant holds in every state of every behaviour, whatever crossed *)
(* and whatever died in the code of lib.rs that publishes and extends.     *)
THEOREM StoreInvariant == Spec => []StoreInv
BY InitKeeps, StepKeeps, PTL DEF Spec

(* The state keeps its types, and a commit's lock file is held by exactly  *)
(* the writer that is between ExtendLock and ExtendEnd on it.              *)
THEOREM TypeCorrect == Spec => []TypeOK
<1>1. StoreInv => TypeOK
  BY DEF StoreInv
<1> QED BY <1>1, StoreInvariant, PTL

(* A reader that opens a file listed by a manifest finds it, with the      *)
(* bytes it was listed with, unless its revision is being deleted or its   *)
(* bytes were torn before anybody flushed them.                            *)
THEOREM ListedStaysIntact == Spec => []ListedIsIntact
<1>1. StoreInv => ListedIsIntact
  BY DEF StoreInv, DiskInv
<1> QED BY <1>1, StoreInvariant, PTL

(* What a writer published or added before it reports success is listed,   *)
(* now and after any loss of power: its flushes come before its report.    *)
THEOREM OwnWorkSurvives == Spec => []OwnWorkIsKept
<1>1. StoreInv => OwnWorkIsKept
  BY DEF StoreInv, WriterInv, Kept, OwnWorkIsKept
<1> QED BY <1>1, StoreInvariant, PTL
=============================================================================
