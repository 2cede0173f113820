------------------------ MODULE RevisionStore_refines ------------------------
(***************************************************************************)
(* Proofs that the revision store implements the archive of module         *)
(* Archive, and that an undisturbed store verifies.                        *)
(*                                                                         *)
(* Beyond StoreInv this needs what the directories say (a directory that   *)
(* nobody is deleting is a published revision), what an operation has seen *)
(* (something to publish; a directory for its reference), and, while no    *)
(* operation has died, that the only files not listed are those which the  *)
(* holder of the lock is about to list.                                    *)
(***************************************************************************)
EXTENDS RevisionStore_proofs

DirectoriesPublished ==
    \A c \in Commit \ condemned : c \in directory <=> Published(c)

SeenBefore ==
    \A w \in Writer :
        /\ step[w] \in {"publish", "rename"} => paths[w] # {}
        /\ step[w] = "set_ref" =>
             name[w] # None /\ target[w] \in directory \cup condemned

Awaited(c, p) ==
    /\ lock[c] # None /\ step[lock[c]] # "sync_manifest"
    /\ listing[lock[c]][p] = file[c][p]

NothingLeftOver ==
    stops = 0 /\ losses = 0 =>
        \A c \in Commit \ condemned : \A p \in Path :
            Published(c) => file[c][p] = manifest[c][p] \/ Awaited(c, p)

DetailInv ==
    /\ StoreInv
    /\ DirectoriesPublished
    /\ SeenBefore
    /\ NothingLeftOver

-----------------------------------------------------------------------------
(* A step that touches neither the directories nor a lock.                 *)
LEMMA DirectoriesAlone ==
    ASSUME DirectoriesPublished, UNCHANGED <<directory, manifest, condemned>>
    PROVE  DirectoriesPublished'
BY DEF DirectoriesPublished, Published

LEMMA LeftOverAlone ==
    ASSUME NothingLeftOver, TypeOK, NEW w \in Writer, step[w] \notin Locked,
           \A v \in Writer \ {w} : step'[v] = step[v] /\ listing'[v] = listing[v],
           UNCHANGED <<manifest, file, condemned, lock, stops, losses>>
    PROVE  NothingLeftOver'
<1>1. ASSUME NEW c \in Commit, NEW p \in Path, Awaited(c, p)
      PROVE  Awaited(c, p)'
  BY <1>1 DEF Awaited, TypeOK
<1> QED BY <1>1 DEF NothingLeftOver, Published

LEMMA BeginDetails ==
    ASSUME DetailInv, NEW w \in Writer, NEW c \in Commit, NEW r \in Ref \cup {None},
           NEW fetched \in (SUBSET Path) \ {{}}, Begin(w, c, r, fetched)
    PROVE  DirectoriesPublished' /\ SeenBefore' /\ NothingLeftOver'
<1>1. TypeOK /\ step[w] \notin Locked
  BY DEF DetailInv, StoreInv, Begin, Locked
<1>2. DirectoriesPublished'
  BY DirectoriesAlone DEF DetailInv, Begin, disk
<1>3. SeenBefore'
  <2>1. paths'[w] = fetched /\ fetched # {} /\ step'[w] # "set_ref"
    BY <1>1 DEF Begin, Goes, TypeOK
  <2>2. \A v \in Writer \ {w} :
           /\ step'[v] = step[v] /\ target'[v] = target[v]
           /\ name'[v] = name[v] /\ paths'[v] = paths[v]
    BY <1>1 DEF Begin, Goes, TypeOK
  <2> QED BY <2>1, <2>2 DEF DetailInv, SeenBefore, Begin, disk
<1>4. \A v \in Writer \ {w} : step'[v] = step[v] /\ listing'[v] = listing[v]
  BY <1>1 DEF Begin, Goes, TypeOK
<1>5. NothingLeftOver'
  BY <1>1, <1>4, LeftOverAlone DEF DetailInv, Begin, disk
<1> QED BY <1>2, <1>3, <1>5

(* What a writer has seen before it flushes or names a revision, when its  *)
(* operation ends, and when it goes on with what it has.                   *)
LEMMA SeenAtEnd ==
    ASSUME SeenBefore, TypeOK, NEW w \in Writer, End(w), UNCHANGED <<directory, condemned>>
    PROVE  SeenBefore'
<1>1. step'[w] = "idle"
  BY DEF End, Goes, TypeOK
<1>2. ASSUME NEW v \in Writer \ {w}
      PROVE  /\ step'[v] = step[v] /\ target'[v] = target[v]
             /\ name'[v] = name[v] /\ paths'[v] = paths[v]
  BY <1>2 DEF End, Goes, TypeOK
<1> QED BY <1>1, <1>2 DEF SeenBefore

LEMMA SeenGoingOn ==
    ASSUME SeenBefore, TypeOK, NEW w \in Writer, NEW s, To(w, s),
           s \in {"publish", "rename"} => paths[w] # {},
           s = "set_ref" => name[w] # None /\ target[w] \in directory \cup condemned,
           UNCHANGED <<directory, condemned>>
    PROVE  SeenBefore'
<1>1. step'[w] = s
  BY DEF To, Goes, TypeOK
<1>2. ASSUME NEW v \in Writer \ {w}
      PROVE  step'[v] = step[v]
  BY <1>2 DEF To, Goes, TypeOK
<1> QED BY <1>1, <1>2 DEF SeenBefore, To

LEMMA PublishStartDetails ==
    ASSUME DetailInv, NEW w \in Writer, PublishStart(w)
    PROVE  DirectoriesPublished' /\ SeenBefore' /\ NothingLeftOver'
<1>1. TypeOK /\ step[w] \notin Locked
  BY DEF DetailInv, StoreInv, PublishStart, Locked
<1>2. DirectoriesPublished'
  BY DirectoriesAlone DEF DetailInv, PublishStart, disk
<1>3. SeenBefore'
  <2>1. paths[w] # {} /\ directory' = directory /\ condemned' = condemned
    BY DEF DetailInv, SeenBefore, PublishStart, disk
  <2>2. End(w) \/ \E s \in {"rename", "find", "extend"} : To(w, s)
    BY DEF PublishStart
  <2> QED BY <1>1, <2>1, <2>2, SeenAtEnd, SeenGoingOn DEF DetailInv
<1>4. \A v \in Writer \ {w} : step'[v] = step[v] /\ listing'[v] = listing[v]
  BY <1>1 DEF PublishStart, To, End, Goes, TypeOK
<1>5. NothingLeftOver'
  BY <1>1, <1>4, LeftOverAlone DEF DetailInv, PublishStart, disk, counters
<1> QED BY <1>2, <1>3, <1>5

LEMMA PublishRefusedDetails ==
    ASSUME DetailInv, NEW w \in Writer, PublishRefused(w)
    PROVE  DirectoriesPublished' /\ SeenBefore' /\ NothingLeftOver'
<1>1. TypeOK /\ step[w] \notin Locked
  BY DEF DetailInv, StoreInv, PublishRefused, Locked
<1>2. DirectoriesPublished'
  BY DirectoriesAlone DEF DetailInv, PublishRefused, disk
<1>3. SeenBefore'
  <2>1. directory' = directory /\ condemned' = condemned
    BY DEF PublishRefused, disk
  <2>2. End(w) \/ To(w, "find")
    BY DEF PublishRefused
  <2> QED BY <1>1, <2>1, <2>2, SeenAtEnd, SeenGoingOn DEF DetailInv
<1>4. \A v \in Writer \ {w} : step'[v] = step[v] /\ listing'[v] = listing[v]
  BY <1>1 DEF PublishRefused, To, End, Goes, TypeOK
<1>5. NothingLeftOver'
  BY <1>1, <1>4, LeftOverAlone DEF DetailInv, PublishRefused, disk, counters
<1> QED BY <1>2, <1>3, <1>5

LEMMA ExtendStartDetails ==
    ASSUME DetailInv, NEW w \in Writer, ExtendStart(w)
    PROVE  DirectoriesPublished' /\ SeenBefore' /\ NothingLeftOver'
<1>1. TypeOK /\ step[w] \notin Locked
  BY DEF DetailInv, StoreInv, ExtendStart, Locked
<1>2. DirectoriesPublished'
  BY DirectoriesAlone DEF DetailInv, ExtendStart, disk
<1>3. SeenBefore'
  <2>1. directory' = directory /\ condemned' = condemned
    BY DEF ExtendStart, disk
  <2>2. CASE Goes(w, "lock") /\ UNCHANGED <<target, name>>
                             /\ paths' = [paths EXCEPT ![w] = @ \ Listed(target[w])]
    <3>1. step'[w] = "lock" /\ \A v \in Writer \ {w} : step'[v] = step[v] /\ paths'[v] = paths[v]
      BY <1>1, <2>2 DEF Goes, TypeOK
    <3> QED BY <2>1, <2>2, <3>1 DEF DetailInv, SeenBefore
  <2>3. CASE End(w) \/ To(w, "find")
    BY <1>1, <2>1, <2>3, SeenAtEnd, SeenGoingOn DEF DetailInv
  <2> QED BY <2>2, <2>3 DEF ExtendStart
<1>4. \A v \in Writer \ {w} : step'[v] = step[v] /\ listing'[v] = listing[v]
  BY <1>1 DEF ExtendStart, To, End, Goes, TypeOK
<1>5. NothingLeftOver'
  BY <1>1, <1>4, LeftOverAlone DEF DetailInv, ExtendStart, disk, counters
<1> QED BY <1>2, <1>3, <1>5

LEMMA FindRevisionDetails ==
    ASSUME DetailInv, NEW w \in Writer, FindRevision(w)
    PROVE  DirectoriesPublished' /\ SeenBefore' /\ NothingLeftOver'
<1>1. TypeOK /\ step[w] \notin Locked
  BY DEF DetailInv, StoreInv, FindRevision, Locked
<1>2. DirectoriesPublished'
  BY DirectoriesAlone DEF DetailInv, FindRevision, disk
<1>3. SeenBefore'
  <2>1. directory' = directory /\ condemned' = condemned
    BY DEF FindRevision, disk
  <2>2. End(w) \/ (To(w, "set_ref") /\ name[w] # None /\ target[w] \in directory)
    BY DEF FindRevision
  <2> QED BY <1>1, <2>1, <2>2, SeenAtEnd, SeenGoingOn DEF DetailInv
<1>4. \A v \in Writer \ {w} : step'[v] = step[v] /\ listing'[v] = listing[v]
  BY <1>1 DEF FindRevision, To, End, Goes, TypeOK
<1>5. NothingLeftOver'
  BY <1>1, <1>4, LeftOverAlone DEF DetailInv, FindRevision, disk, counters
<1> QED BY <1>2, <1>3, <1>5

LEMMA SetRefDetails ==
    ASSUME DetailInv, NEW w \in Writer, SetRef(w)
    PROVE  DirectoriesPublished' /\ SeenBefore' /\ NothingLeftOver'
<1>1. TypeOK /\ step[w] \notin Locked
  BY DEF DetailInv, StoreInv, SetRef, Locked
<1>2. DirectoriesPublished'
  BY DirectoriesAlone DEF DetailInv, SetRef, disk
<1>3. SeenBefore'
  BY <1>1, SeenAtEnd DEF DetailInv, SetRef, disk
<1>4. \A v \in Writer \ {w} : step'[v] = step[v] /\ listing'[v] = listing[v]
  BY <1>1 DEF SetRef, To, End, Goes, TypeOK
<1>5. NothingLeftOver'
  BY <1>1, <1>4, LeftOverAlone DEF DetailInv, SetRef, disk, counters
<1> QED BY <1>2, <1>3, <1>5

LEMMA PublishSyncDetails ==
    ASSUME DetailInv, NEW w \in Writer, PublishSync(w)
    PROVE  DirectoriesPublished' /\ SeenBefore' /\ NothingLeftOver'
<1>1. TypeOK /\ step[w] \notin Locked
  BY DEF DetailInv, StoreInv, PublishSync, Locked
<1>2. DirectoriesPublished'
  BY DirectoriesAlone DEF DetailInv, PublishSync
<1>3. SeenBefore'
  BY <1>1 DEF DetailInv, SeenBefore, PublishSync, To, Goes, TypeOK
<1>4. \A v \in Writer \ {w} : step'[v] = step[v] /\ listing'[v] = listing[v]
  BY <1>1 DEF PublishSync, To, Goes, TypeOK
<1>5. NothingLeftOver'
  BY <1>1, <1>4, LeftOverAlone DEF DetailInv, PublishSync, counters
<1> QED BY <1>2, <1>3, <1>5

LEMMA PublishRenameDetails ==
    ASSUME DetailInv, NEW w \in Writer, PublishRename(w)
    PROVE  DirectoriesPublished' /\ SeenBefore' /\ NothingLeftOver'
<1> DEFINE c == target[w]
           new == ListingOf(w, paths[w])
<1>1. /\ TypeOK /\ c \in Commit /\ step[w] \notin Locked
      /\ new \in Manifest /\ new # None /\ ~ Published(c)
  BY Constants
     DEF DetailInv, StoreInv, PublishRename, TypeOK, Locked, ListingOf, Manifest, Vacant
<1>2. /\ directory' = directory \cup {c}
      /\ manifest' = [manifest EXCEPT ![c] = new]
      /\ file' = [file EXCEPT ![c] = new]
      /\ listing' = [listing EXCEPT ![w] = new]
      /\ step' = [step EXCEPT ![w] = "sync"]
      /\ UNCHANGED <<target, name, paths, lock, condemned, stops, losses>>
  BY DEF PublishRename, Goes, counters
<1> HIDE DEF c, new
<1>3. DirectoriesPublished'
  BY <1>1, <1>2 DEF DetailInv, DirectoriesPublished, Published, TypeOK
<1>4. SeenBefore'
  BY <1>1, <1>2 DEF DetailInv, SeenBefore, TypeOK
<1>5. NothingLeftOver'
  <2>1. ASSUME NEW d \in Commit, NEW p \in Path, d # c, Awaited(d, p)
        PROVE  Awaited(d, p)'
    BY <1>1, <1>2, <2>1 DEF Awaited, TypeOK
  <2>2. manifest'[c] = file'[c]
    BY <1>1, <1>2 DEF TypeOK
  <2>3. \A d \in Commit \ {c} : manifest'[d] = manifest[d] /\ file'[d] = file[d]
    BY <1>1, <1>2 DEF TypeOK
  <2> QED BY <1>2, <2>1, <2>2, <2>3 DEF DetailInv, NothingLeftOver, Published
<1> QED BY <1>3, <1>4, <1>5

-----------------------------------------------------------------------------
(* While nobody died, the holder of the lock finds the files as listed.    *)
LEMMA ExtendLockDetails ==
    ASSUME DetailInv, NEW w \in Writer, ExtendLock(w)
    PROVE  DirectoriesPublished' /\ SeenBefore' /\ NothingLeftOver'
<1>1. TypeOK /\ step[w] \notin Locked /\ lock[target[w]] = None
  BY DEF DetailInv, StoreInv, ExtendLock, Locked
<1>2. DirectoriesPublished'
  BY DirectoriesAlone DEF DetailInv, ExtendLock, disk
<1>3. SeenBefore'
  BY <1>1 DEF DetailInv, SeenBefore, ExtendLock, To, End, Goes, TypeOK, disk
<1>4. \A v \in Writer \ {w} : step'[v] = step[v] /\ listing'[v] = listing[v]
  BY <1>1 DEF ExtendLock, To, End, Goes, TypeOK
<1>5. /\ \A c \in Commit : lock[c] # None => lock'[c] = lock[c] /\ lock[c] # w
      /\ UNCHANGED <<manifest, file, condemned, stops, losses>>
  BY <1>1 DEF ExtendLock, TypeOK, disk, counters
<1>6. ASSUME NEW c \in Commit, NEW p \in Path, Awaited(c, p)
      PROVE  Awaited(c, p)'
  BY <1>1, <1>4, <1>5, <1>6 DEF Awaited, TypeOK
<1>7. NothingLeftOver'
  BY <1>5, <1>6 DEF DetailInv, NothingLeftOver, Published
<1> QED BY <1>2, <1>3, <1>7

LEMMA ExtendMoveDetails ==
    ASSUME DetailInv, NEW w \in Writer, ExtendMove(w)
    PROVE  DirectoriesPublished' /\ SeenBefore' /\ NothingLeftOver'
<1> DEFINE c == target[w]
<1>1. /\ TypeOK /\ c \in Commit /\ step[w] = "move" /\ lock[c] = w
      /\ c \notin condemned => Adds(w)
  BY DEF DetailInv, StoreInv, WriterInv, Extending, ExtendMove, TypeOK, Locked
<1>2. PICK p \in Path :
        /\ p \in paths[w]
        /\ file' = [file EXCEPT ![c][p] = w]
        /\ Goes(w, IF paths[w] = {p} THEN "sync_files" ELSE "move")
        /\ directory' = directory \cup {c}
        /\ paths' = [paths EXCEPT ![w] = @ \ {p}]
  BY ZenonT(60), <1>1 DEF ExtendMove, TypeOK
<1>3. /\ UNCHANGED <<manifest, target, name, listing, lock, condemned, stops, losses>>
      /\ c' = c
  BY DEF ExtendMove, counters
<1>4. c \notin condemned =>
        /\ Published(c)
        /\ \A q \in Path : \/ listing[w][q] = manifest[c][q]
                           \/ manifest[c][q] = None /\ listing[w][q] = w
        /\ manifest[c][p] = None /\ listing[w][p] = w
  BY <1>1, <1>2 DEF Adds
<1>5. /\ file'[c][p] = w /\ \A q \in Path \ {p} : file'[c][q] = file[c][q]
      /\ \A d \in Commit \ {c} : file'[d] = file[d]
  BY <1>1, <1>2 DEF TypeOK
<1>6. /\ step'[w] \in {"move", "sync_files"}
      /\ \A v \in Writer \ {w} : step'[v] = step[v]
  BY <1>1, <1>2 DEF TypeOK, Goes
<1> HIDE DEF c
<1>7. DirectoriesPublished'
  BY <1>1, <1>2, <1>3, <1>4 DEF DetailInv, DirectoriesPublished, Published
<1>8. SeenBefore'
  BY <1>1, <1>2, <1>3, <1>6 DEF DetailInv, SeenBefore, TypeOK
<1>9. NothingLeftOver'
  <2>1. ASSUME NEW d \in Commit, NEW q \in Path, Awaited(d, q),
               d # c \/ q # p
        PROVE  Awaited(d, q)'
    BY <1>1, <1>3, <1>5, <1>6, <2>1 DEF Awaited, TypeOK
  <2>2. c \notin condemned => Awaited(c, p)'
    BY <1>1, <1>3, <1>4, <1>5, <1>6, Constants DEF Awaited
  <2>3. ASSUME stops = 0, losses = 0, NEW d \in Commit \ condemned, NEW q \in Path,
               Published(d)
        PROVE  file'[d][q] = manifest[d][q] \/ Awaited(d, q)'
    <3>1. CASE d = c /\ q = p
      BY <1>3, <2>2, <3>1
    <3>2. CASE d # c \/ q # p
      <4>1. file'[d][q] = file[d][q]
        BY <1>5, <3>2
      <4>2. file[d][q] = manifest[d][q] \/ Awaited(d, q)
        BY <2>3 DEF DetailInv, NothingLeftOver
      <4> QED BY <2>1, <3>2, <4>1, <4>2
    <3> QED BY <3>1, <3>2
  <2> QED BY <1>3, <2>3 DEF NothingLeftOver, Published
<1> QED BY <1>7, <1>8, <1>9

LEMMA ExtendSyncDetails ==
    ASSUME DetailInv, NEW w \in Writer, ExtendSync(w)
    PROVE  DirectoriesPublished' /\ SeenBefore' /\ NothingLeftOver'
<1>1. /\ TypeOK /\ step[w] = "sync_files" /\ step' = [step EXCEPT ![w] = "swap"]
      /\ UNCHANGED <<directory, manifest, file, target, name, paths, listing, lock, condemned,
                     stops, losses>>
  BY DEF DetailInv, StoreInv, ExtendSync, To, Goes, counters
<1>2. DirectoriesPublished'
  BY <1>1, DirectoriesAlone DEF DetailInv
<1>3. SeenBefore'
  BY <1>1 DEF DetailInv, SeenBefore, TypeOK
<1>4. ASSUME NEW c \in Commit, NEW p \in Path, Awaited(c, p)
      PROVE  Awaited(c, p)'
  BY <1>1, <1>4 DEF Awaited, TypeOK
<1>5. NothingLeftOver'
  BY <1>1, <1>4 DEF DetailInv, NothingLeftOver, Published
<1> QED BY <1>2, <1>3, <1>5

(* The swap lists what is there.                                           *)
LEMMA ExtendSwapDetails ==
    ASSUME DetailInv, NEW w \in Writer, ExtendSwap(w)
    PROVE  DirectoriesPublished' /\ SeenBefore' /\ NothingLeftOver'
<1> DEFINE c == target[w]
<1>1. /\ TypeOK /\ c \in Commit /\ c \in directory /\ step[w] = "swap" /\ lock[c] = w
      /\ c \notin condemned => Adds(w)
  BY DEF DetailInv, StoreInv, WriterInv, Extending, ExtendSwap, TypeOK, Locked
<1>2. /\ manifest' = [manifest EXCEPT ![c] = listing[w]]
      /\ step' = [step EXCEPT ![w] = "sync_manifest"]
      /\ UNCHANGED <<directory, file, target, name, paths, listing, lock, condemned, stops,
                     losses>>
  BY DEF ExtendSwap, To, Goes, counters
<1>3. c \notin condemned =>
        /\ Published(c)
        /\ \A p \in Path : \/ listing[w][p] = manifest[c][p]
                           \/ manifest[c][p] = None /\ listing[w][p] = file[c][p]
  BY <1>1 DEF Adds
<1>4. listing[w] # None /\ manifest'[c] = listing[w]
  BY <1>1, <1>2, Constants DEF TypeOK
<1> HIDE DEF c
<1>5. DirectoriesPublished'
  BY <1>1, <1>2, <1>4 DEF DetailInv, DirectoriesPublished, Published, TypeOK
<1>6. SeenBefore'
  BY <1>1, <1>2 DEF DetailInv, SeenBefore, TypeOK
<1>7. NothingLeftOver'
  <2>1. ASSUME NEW d \in Commit, NEW p \in Path, Awaited(d, p), d # c
        PROVE  Awaited(d, p)'
    <3>1. lock[d] \in Writer /\ lock[d] # w
      BY <1>1, <2>1 DEF Awaited, TypeOK, c
    <3> QED BY <1>1, <1>2, <2>1, <3>1 DEF Awaited, TypeOK
  <2>2. ASSUME stops = 0, losses = 0, c \notin condemned, NEW p \in Path
        PROVE  file[c][p] = listing[w][p]
    <3>1. file[c][p] = manifest[c][p] \/ listing[w][p] = file[c][p]
      BY <1>1, <1>3, <2>2 DEF DetailInv, NothingLeftOver, Awaited
    <3> QED BY <1>3, <2>2, <3>1
  <2>3. ASSUME stops = 0, losses = 0, NEW d \in Commit \ condemned, NEW p \in Path,
               manifest'[d] # None
        PROVE  file[d][p] = manifest'[d][p] \/ Awaited(d, p)'
    <3>1. CASE d = c
      BY <1>4, <2>2, <2>3, <3>1
    <3>2. CASE d # c
      <4>1. manifest'[d] = manifest[d]
        BY <1>1, <1>2, <3>2 DEF TypeOK
      <4>2. file[d][p] = manifest[d][p] \/ Awaited(d, p)
        BY <2>3, <4>1 DEF DetailInv, NothingLeftOver, Published
      <4> QED BY <2>1, <3>2, <4>1, <4>2
    <3> QED BY <3>1, <3>2
  <2> QED BY <1>2, <2>3 DEF NothingLeftOver, Published
<1> QED BY <1>5, <1>6, <1>7

LEMMA ExtendEndDetails ==
    ASSUME DetailInv, NEW w \in Writer, ExtendEnd(w)
    PROVE  DirectoriesPublished' /\ SeenBefore' /\ NothingLeftOver'
<1> DEFINE c == target[w]
<1>1. /\ TypeOK /\ c \in Commit /\ step[w] = "sync_manifest" /\ lock[c] = w
  BY DEF DetailInv, StoreInv, ExtendEnd, TypeOK, Locked
<1>2. /\ step' = [step EXCEPT ![w] = "find"]
      /\ lock' = [lock EXCEPT ![c] = None]
      /\ UNCHANGED <<directory, manifest, file, target, name, paths, listing, condemned,
                     stops, losses>>
  BY DEF ExtendEnd, To, Goes, Unlock, counters
<1> HIDE DEF c
<1>3. DirectoriesPublished'
  BY <1>2, DirectoriesAlone DEF DetailInv
<1>4. SeenBefore'
  BY <1>1, <1>2 DEF DetailInv, SeenBefore, TypeOK
<1>5. ASSUME NEW d \in Commit, NEW p \in Path, Awaited(d, p)
      PROVE  Awaited(d, p)'
  <2>1. d # c
    BY <1>1, <1>5 DEF Awaited
  <2>2. lock'[d] = lock[d] /\ lock[d] \in Writer /\ lock[d] # w
    BY <1>1, <1>2, <1>5, <2>1 DEF Awaited, TypeOK, c
  <2> QED BY <1>1, <1>2, <1>5, <2>2 DEF Awaited, TypeOK
<1>6. NothingLeftOver'
  BY <1>2, <1>5 DEF DetailInv, NothingLeftOver, Published
<1> QED BY <1>3, <1>4, <1>6

(* An extension only fails once its revision is being deleted.             *)
LEMMA ExtendFailsDetails ==
    ASSUME DetailInv, NEW w \in Writer, ExtendFails(w)
    PROVE  DirectoriesPublished' /\ SeenBefore' /\ NothingLeftOver'
<1> DEFINE c == target[w]
<1>1. /\ TypeOK /\ c \in Commit /\ step[w] \in Locked /\ lock[c] = w /\ c \notin directory
      /\ c \notin condemned => Published(c)
  BY DEF DetailInv, StoreInv, WriterInv, Extending, Adds, ExtendFails, TypeOK, Locked
<1>2. c \in condemned
  BY <1>1 DEF DetailInv, DirectoriesPublished
<1>3. /\ End(w)
      /\ lock' = [lock EXCEPT ![c] = None]
      /\ UNCHANGED <<directory, manifest, file, condemned, stops, losses>>
  BY DEF ExtendFails, Unlock, disk, counters
<1> HIDE DEF c
<1>4. DirectoriesPublished'
  BY <1>3, DirectoriesAlone DEF DetailInv
<1>5. SeenBefore'
  BY <1>1, <1>3 DEF DetailInv, SeenBefore, End, Goes, TypeOK
<1>6. ASSUME NEW d \in Commit, NEW p \in Path, Awaited(d, p), d # c
      PROVE  Awaited(d, p)'
  <2>1. lock'[d] = lock[d] /\ lock[d] \in Writer /\ lock[d] # w
    BY <1>1, <1>3, <1>6 DEF Awaited, TypeOK, c
  <2>2. step'[lock[d]] = step[lock[d]] /\ listing'[lock[d]] = listing[lock[d]]
    BY <1>1, <1>3, <2>1 DEF End, Goes, TypeOK
  <2> QED BY <1>3, <1>6, <2>1, <2>2 DEF Awaited
<1>7. NothingLeftOver'
  BY <1>2, <1>3, <1>6 DEF DetailInv, NothingLeftOver, Published
<1> QED BY <1>4, <1>5, <1>7

-----------------------------------------------------------------------------
LEMMA RemoveStartDetails ==
    ASSUME DetailInv, NEW m \in Remover, NEW c \in Commit, RemoveStart(m, c)
    PROVE  DirectoriesPublished' /\ SeenBefore' /\ NothingLeftOver'
<1>1. /\ condemned' = condemned \cup {c}
      /\ UNCHANGED <<directory, manifest, file, step, target, name, paths, listing, lock,
                     stops, losses>>
  BY DEF RemoveStart, disk, work
<1>2. DirectoriesPublished' /\ SeenBefore'
  BY <1>1 DEF DetailInv, DirectoriesPublished, SeenBefore, Published
<1>3. NothingLeftOver'
  BY <1>1 DEF DetailInv, NothingLeftOver, Awaited, Published
<1> QED BY <1>2, <1>3

(* What a removal does, it does to a condemned revision.                   *)
LEMMA RemovalDetails ==
    ASSUME DetailInv, NEW c \in condemned,
           UNCHANGED <<step, target, name, paths, listing, lock, condemned, stops, losses>>,
           \A d \in Commit \ {c} : manifest'[d] = manifest[d] /\ file'[d] = file[d],
           directory' \in {directory, directory \ {c}}
    PROVE  DirectoriesPublished' /\ SeenBefore' /\ NothingLeftOver'
<1>1. DirectoriesPublished'
  BY DEF DetailInv, DirectoriesPublished, Published
<1>2. SeenBefore'
  BY DEF DetailInv, SeenBefore
<1>3. ASSUME NEW d \in Commit \ {c}, NEW p \in Path, Awaited(d, p)
      PROVE  Awaited(d, p)'
  BY <1>3 DEF Awaited
<1>4. NothingLeftOver'
  BY <1>3 DEF DetailInv, NothingLeftOver, Published
<1> QED BY <1>1, <1>2, <1>4

LEMMA RemoveFileDetails ==
    ASSUME DetailInv, NEW m \in Remover, RemoveFile(m)
    PROVE  DirectoriesPublished' /\ SeenBefore' /\ NothingLeftOver'
<1>1. /\ TypeOK /\ removing[m] \in Commit /\ removing[m] \in condemned
      /\ UNCHANGED <<step, target, name, paths, listing, lock, condemned, stops, losses,
                     manifest, directory>>
  BY DEF DetailInv, StoreInv, DiskInv, RemovedAreCondemned, TypeOK, RemoveFile, work,
         counters
<1>2. \A d \in Commit \ {removing[m]} : file'[d] = file[d]
  BY <1>1 DEF RemoveFile, TypeOK
<1> QED BY <1>1, <1>2, RemovalDetails

LEMMA RemoveManifestDetails ==
    ASSUME DetailInv, NEW m \in Remover, RemoveManifest(m)
    PROVE  DirectoriesPublished' /\ SeenBefore' /\ NothingLeftOver'
<1>1. /\ TypeOK /\ removing[m] \in Commit /\ removing[m] \in condemned
      /\ UNCHANGED <<step, target, name, paths, listing, lock, condemned, stops, losses,
                     file, directory>>
  BY DEF DetailInv, StoreInv, DiskInv, RemovedAreCondemned, TypeOK, RemoveManifest,
         work, counters
<1>2. \A d \in Commit \ {removing[m]} : manifest'[d] = manifest[d]
  BY <1>1 DEF RemoveManifest, TypeOK
<1> QED BY <1>1, <1>2, RemovalDetails

LEMMA RemoveDirectoryDetails ==
    ASSUME DetailInv, NEW m \in Remover, RemoveDirectory(m)
    PROVE  DirectoriesPublished' /\ SeenBefore' /\ NothingLeftOver'
<1>1. /\ removing[m] \in condemned
      /\ UNCHANGED <<step, target, name, paths, listing, lock, condemned, stops, losses,
                     manifest, file>>
      /\ directory' = directory \ {removing[m]}
  BY DEF DetailInv, StoreInv, DiskInv, RemovedAreCondemned, RemoveDirectory, work,
         counters
<1> QED BY <1>1, RemovalDetails

LEMMA StopDetails ==
    ASSUME DetailInv, Stop
    PROVE  DirectoriesPublished' /\ SeenBefore' /\ NothingLeftOver'
<1>1. TypeOK /\ UNCHANGED <<directory, manifest, condemned>> /\ stops' # 0
  BY BoundsAssumption DEF DetailInv, StoreInv, TypeOK, Stop, disk
<1>2. DirectoriesPublished'
  BY <1>1, DirectoriesAlone DEF DetailInv
<1>3. ASSUME NEW w \in Writer, End(w)
      PROVE  SeenBefore'
  BY <1>1, <1>3 DEF DetailInv, SeenBefore, End, Goes, TypeOK
<1>4. ASSUME UNCHANGED work PROVE SeenBefore'
  BY <1>1, <1>4 DEF DetailInv, SeenBefore, work
<1> QED BY <1>2, <1>3, <1>4, <1>1 DEF Stop, NothingLeftOver

LEMMA PowerLossDetails ==
    ASSUME DetailInv, PowerLoss
    PROVE  DirectoriesPublished' /\ SeenBefore' /\ NothingLeftOver'
<1>1. TypeOK /\ losses' # 0
  BY BoundsAssumption DEF DetailInv, StoreInv, TypeOK, PowerLoss
<1>2. DirectoriesPublished'
  <2>1. ASSUME NEW c \in Commit \ condemned
        PROVE  c \in directory' <=> manifest'[c] # None
    <3>1. /\ c \in directory <=> manifest[c] # None
          /\ manifest'[c] \in stale[c] \cup {manifest[c]}
          /\ \A m \in stale[c] : m # None => manifest[c] # None
          /\ directory' = directory \ {d \in Commit : Published(d) /\ manifest'[d] = None}
      BY DEF DetailInv, DirectoriesPublished, StoreInv, DiskInv, OlderListLess, PowerLoss,
             Possible, Published
    <3> QED BY <3>1 DEF Published
  <2> QED BY <2>1 DEF DirectoriesPublished, Published, PowerLoss
<1>3. SeenBefore'
  BY DEF SeenBefore, PowerLoss
<1> QED BY <1>1, <1>2, <1>3 DEF NothingLeftOver

-----------------------------------------------------------------------------
LEMMA InitDetails == Init => DetailInv
BY InitKeeps DEF Init, DetailInv, DirectoriesPublished, SeenBefore, NothingLeftOver,
   Published

LEMMA StepDetails == DetailInv /\ [Next]_vars => DetailInv'
<1> SUFFICES ASSUME DetailInv, [Next]_vars PROVE DetailInv'
  OBVIOUS
<1>1. StoreInv'
  BY StepKeeps DEF DetailInv
<1>2. CASE UNCHANGED vars
  <2>1. DirectoriesPublished' /\ SeenBefore'
    BY <1>2 DEF DetailInv, DirectoriesPublished, SeenBefore, Published, vars
  <2>2. NothingLeftOver'
    BY <1>2 DEF DetailInv, NothingLeftOver, Awaited, Published, vars
  <2> QED BY <1>1, <2>1, <2>2 DEF DetailInv
<1>3. ASSUME NEW w \in Writer, Write(w)
      PROVE  DirectoriesPublished' /\ SeenBefore' /\ NothingLeftOver'
  BY <1>3, BeginDetails, PublishStartDetails, PublishRenameDetails,
     PublishRefusedDetails, PublishSyncDetails, ExtendStartDetails, ExtendLockDetails,
     ExtendMoveDetails, ExtendSyncDetails, ExtendSwapDetails, ExtendEndDetails,
     ExtendFailsDetails, FindRevisionDetails, SetRefDetails DEF Write
<1>4. ASSUME NEW m \in Remover, Remove(m)
      PROVE  DirectoriesPublished' /\ SeenBefore' /\ NothingLeftOver'
  BY <1>4, RemoveStartDetails, RemoveFileDetails, RemoveManifestDetails,
     RemoveDirectoryDetails DEF Remove
<1>5. CASE Next
  BY <1>1, <1>3, <1>4, <1>5, StopDetails, PowerLossDetails DEF Next, DetailInv
<1> QED BY <1>2, <1>5

(* The stronger invariant: with the directories, what operations have seen *)
(* (update_ref_for_type looks for the directory) and what is left over.    *)
THEOREM DetailInvariant == Spec => []DetailInv
BY InitDetails, StepDetails, PTL DEF Spec

(* As long as no operation dies, a revision that nobody is extending holds *)
(* exactly the files its manifest lists, so Archive::verify finds no extra *)
(* file: the error paths of the code leave none behind either.             *)
THEOREM UndisturbedVerifies == Spec => []SettledVerifies
<1>1. DetailInv => SettledVerifies
  <2> SUFFICES ASSUME DetailInv, stops = 0, losses = 0,
                      NEW c \in Commit \ condemned, Published(c), lock[c] = None
               PROVE  file[c] = manifest[c]
    BY DEF SettledVerifies
  <2>1. \A p \in Path : file[c][p] = manifest[c][p]
    BY DEF DetailInv, NothingLeftOver, Awaited
  <2>2. manifest[c] \in [Path -> Writer \cup {None}]
        /\ file[c] \in [Path -> Writer \cup {Torn, None}]
    BY DEF DetailInv, StoreInv, TypeOK, Published, Manifest
  <2> QED BY <2>1, <2>2
<1> QED BY <1>1, DetailInvariant, PTL

-----------------------------------------------------------------------------
(* The refinement.  What Archive sees of the disk:                         *)
Held(c) == IF c \in condemned THEN None ELSE View(c, manifest[c])
Earlier(c) == IF c \in condemned THEN {} ELSE {View(c, m) : m \in stale[c]}

(* The files f that a manifest shows.                                      *)
Show(m, f) ==
    IF m = None THEN None ELSE [p \in Path |-> IF m[p] = None THEN None ELSE f[p]]

(* A file that some manifest shows.                                        *)
Shown(c, p) == \E m \in Possible(c) : m # None /\ m[p] # None

Unseen(c) ==
    c \notin condemned =>
        /\ manifest'[c] = manifest[c] /\ stale'[c] = stale[c]
        /\ \A p \in Path : Shown(c, p) => file'[c][p] = file[c][p]

LEMMA UnseenAlone ==
    ASSUME NEW c \in Commit, Unseen(c), UNCHANGED condemned
    PROVE  Held(c)' = Held(c) /\ Earlier(c)' = Earlier(c)
<1>1. CASE c \in condemned
  BY <1>1 DEF Held, Earlier
<1>2. CASE c \notin condemned
  <2>1. ASSUME NEW m \in Possible(c)
        PROVE  View(c, m)' = View(c, m)
    BY <1>2, <2>1 DEF Unseen, View, Shown
  <2> QED BY <1>2, <2>1 DEF Held, Earlier, Unseen, Possible
<1> QED BY <1>1, <1>2

LEMMA Stutters ==
    ASSUME \A c \in Commit : Unseen(c), UNCHANGED <<ref, condemned>>
    PROVE  UNCHANGED Abstract!vars
<1>1. \A c \in Commit : Held(c)' = Held(c) /\ Earlier(c)' = Earlier(c)
  BY UnseenAlone
<1> QED BY <1>1 DEF Abstract!vars, Held, Earlier

LEMMA UntouchedStutters ==
    ASSUME UNCHANGED <<manifest, file, stale, ref, condemned>>
    PROVE  UNCHANGED Abstract!vars
BY Stutters DEF Unseen

(* A step that shows in one commit that nobody deletes.                    *)
LEMMA OneSeen ==
    ASSUME NEW c \in Commit \ condemned, UNCHANGED <<ref, condemned>>,
           \A d \in Commit \ {c} : Unseen(d)
    PROVE  /\ \A d \in Commit \ {c} : Held(d)' = Held(d) /\ Earlier(d)' = Earlier(d)
           /\ Held(c)' = Show(manifest'[c], file'[c])
           /\ Earlier(c)' = {Show(m, file'[c]) : m \in stale'[c]}
<1>1. \A d \in Commit \ {c} : Held(d)' = Held(d) /\ Earlier(d)' = Earlier(d)
  BY UnseenAlone
<1>2. /\ Held(c)' = Show(manifest'[c], file'[c])
      /\ Earlier(c)' = {Show(m, file'[c]) : m \in stale'[c]}
  BY DEF Held, Earlier, View, Show
<1> QED BY <1>1, <1>2

LEMMA OneShown ==
    ASSUME NEW c \in Commit, NEW h, NEW e,
           \A d \in Commit \ {c} : Held(d)' = Held(d) /\ Earlier(d)' = Earlier(d),
           Held(c)' = h, Earlier(c)' = e
    PROVE  /\ [d \in Commit |-> Held(d)]' = [[d \in Commit |-> Held(d)] EXCEPT ![c] = h]
           /\ [d \in Commit |-> Earlier(d)]'
                = [[d \in Commit |-> Earlier(d)] EXCEPT ![c] = e]
OBVIOUS

(* What is flushed cannot be lost any more.                                *)
LEMMA SettleRefines ==
    ASSUME TypeOK, NEW c \in Commit, NEW left \in SUBSET stale[c],
           stale' = [stale EXCEPT ![c] = left],
           UNCHANGED <<manifest, file, ref, condemned>>
    PROVE  [Abstract!Next]_(Abstract!vars)
<1>1. \A d \in Commit \ {c} : Unseen(d)
  BY DEF Unseen, TypeOK
<1>2. CASE c \in condemned
  BY <1>1, <1>2, Stutters DEF Unseen
<1>3. CASE c \notin condemned
  <2> PICK e : e = {Show(m, file[c]) : m \in left}
    OBVIOUS
  <2> PICK h : h = Show(manifest[c], file[c])
    OBVIOUS
  <2>1. stale'[c] = left
    BY DEF TypeOK
  <2>2. /\ [d \in Commit |-> Held(d)]' = [[d \in Commit |-> Held(d)] EXCEPT ![c] = h]
        /\ [d \in Commit |-> Earlier(d)]'
              = [[d \in Commit |-> Earlier(d)] EXCEPT ![c] = e]
    <3>1. /\ \A d \in Commit \ {c} : Held(d)' = Held(d) /\ Earlier(d)' = Earlier(d)
          /\ Held(c)' = Show(manifest'[c], file'[c])
          /\ Earlier(c)' = {Show(m, file'[c]) : m \in stale'[c]}
      BY <1>1, <1>3, OneSeen
    <3>2. Held(c)' = h /\ Earlier(c)' = e
      BY <2>1, <3>1
    <3> QED BY <3>1, <3>2, OneShown
  <2>3. h = Held(c)
    BY <1>3 DEF Held, View, Show
  <2>4. UNCHANGED [d \in Commit |-> Held(d)]
    BY <2>2, <2>3
  <2>5. e \in SUBSET [d \in Commit |-> Earlier(d)][c]
    BY <1>3 DEF Earlier, View, Show
  <2>6. Abstract!Settle(c)
    BY <2>2, <2>4, <2>5 DEF Abstract!Settle, Held, Earlier
  <2> QED BY <2>6 DEF Abstract!Next
<1> QED BY <1>2, <1>3

LEMMA PublishRefines ==
    ASSUME DetailInv, NEW w \in Writer, PublishRename(w)
    PROVE  [Abstract!Next]_(Abstract!vars)
<1> PICK c : c = target[w]
  OBVIOUS
<1> PICK new : new = ListingOf(w, paths[w])
  OBVIOUS
<1>1. /\ TypeOK /\ c \in Commit /\ ~ Published(c)
      /\ new \in Manifest /\ new # None
      /\ \E p \in Path : new[p] # None
  BY Constants
     DEF DetailInv, StoreInv, SeenBefore, PublishRename, TypeOK, Vacant, ListingOf,
         Manifest
<1>2. /\ manifest' = [manifest EXCEPT ![c] = new]
      /\ file' = [file EXCEPT ![c] = new]
      /\ stale' = [stale EXCEPT ![c] = {None}]
      /\ UNCHANGED <<ref, condemned>>
  BY DEF PublishRename
<1>3. \A d \in Commit \ {c} : Unseen(d)
  BY <1>1, <1>2 DEF Unseen, TypeOK
<1>4. CASE c \in condemned
  BY <1>1, <1>2, <1>3, <1>4, Stutters DEF Unseen
<1>5. CASE c \notin condemned
  <2>1. manifest'[c] = new /\ file'[c] = new /\ stale'[c] = {None}
    BY <1>1, <1>2 DEF TypeOK
  <2>2. Show(new, new) = new /\ Show(None, new) = None
    BY <1>1 DEF Show, Manifest
  <2>3. Show(manifest'[c], file'[c]) = new
    BY <2>1, <2>2
  <2>4. {Show(m, file'[c]) : m \in stale'[c]} = {None}
    BY <2>1, <2>2
  <2>5. /\ [d \in Commit |-> Held(d)]' = [[d \in Commit |-> Held(d)] EXCEPT ![c] = new]
        /\ [d \in Commit |-> Earlier(d)]'
             = [[d \in Commit |-> Earlier(d)] EXCEPT ![c] = {None}]
    <3>1. /\ \A d \in Commit \ {c} : Held(d)' = Held(d) /\ Earlier(d)' = Earlier(d)
          /\ Held(c)' = Show(manifest'[c], file'[c])
          /\ Earlier(c)' = {Show(m, file'[c]) : m \in stale'[c]}
      BY SMTT(60), <1>1, <1>2, <1>3, <1>5, OneSeen
    <3>2. Held(c)' = new /\ Earlier(c)' = {None}
      BY <2>3, <2>4, <3>1
    <3> QED BY ZenonT(60), <1>1, <3>1, <3>2, OneShown
  <2>6. [d \in Commit |-> Held(d)][c] = None
    BY <1>1 DEF Held, View, Published
  <2>7. new \in Abstract!FileSet
    BY <1>1 DEF Abstract!FileSet, Manifest
  <2>8. {None} \in SUBSET {None}
    OBVIOUS
  <2>9. Abstract!Publish(c)
    BY ZenonT(60), <1>1, <1>2, <1>5, <2>5, <2>6, <2>7, <2>8 DEF Abstract!Publish, Held, Earlier
  <2> QED BY <1>1, <2>9 DEF Abstract!Next
<1> QED BY <1>4, <1>5

LEMMA PublishSyncRefines ==
    ASSUME DetailInv, NEW w \in Writer, PublishSync(w)
    PROVE  [Abstract!Next]_(Abstract!vars)
<1> PICK c : c = target[w]
  OBVIOUS
<1>1. TypeOK /\ c \in Commit
  BY DEF DetailInv, StoreInv, PublishSync, TypeOK
<1>2. /\ stale' = [stale EXCEPT ![c] = @ \ {None}]
      /\ UNCHANGED <<manifest, file, ref, condemned>>
  BY DEF PublishSync
<1> QED BY <1>1, <1>2, SettleRefines DEF TypeOK

LEMMA ExtendEndRefines ==
    ASSUME DetailInv, NEW w \in Writer, ExtendEnd(w)
    PROVE  [Abstract!Next]_(Abstract!vars)
<1> PICK c : c = target[w]
  OBVIOUS
<1>1. TypeOK /\ c \in Commit
  BY DEF DetailInv, StoreInv, ExtendEnd, TypeOK
<1>2. /\ stale' = [stale EXCEPT ![c] = {}]
      /\ UNCHANGED <<manifest, file, ref, condemned>>
  BY DEF ExtendEnd
<1> QED BY <1>1, <1>2, SettleRefines DEF TypeOK

(* The swap shows the files that the extension has put there; what was     *)
(* listed is there too, so nothing changes under a reader.                 *)
LEMMA ExtendSwapRefines ==
    ASSUME DetailInv, NEW w \in Writer, ExtendSwap(w)
    PROVE  [Abstract!Next]_(Abstract!vars)
<1> PICK c : c = target[w]
  OBVIOUS
<1> PICK new : new = listing[w]
  OBVIOUS
<1>1. /\ TypeOK /\ c \in Commit /\ step[w] = "swap"
      /\ new \in Manifest /\ new # None
      /\ c \notin condemned => Adds(w) /\ Published(c) /\ Intact(c, manifest[c])
  BY Constants
     DEF DetailInv, StoreInv, DiskInv, ListedIsIntact, WriterInv, Extending, Adds,
         ExtendSwap, TypeOK, Locked
<1>2. /\ manifest' = [manifest EXCEPT ![c] = new]
      /\ stale' = [stale EXCEPT ![c] = @ \cup {manifest[c]}]
      /\ UNCHANGED <<file, ref, condemned>>
  BY DEF ExtendSwap
<1>3. \A d \in Commit \ {c} : Unseen(d)
  BY <1>1, <1>2 DEF Unseen, TypeOK
<1>4. CASE c \in condemned
  BY <1>1, <1>2, <1>3, <1>4, Stutters DEF Unseen
<1>5. CASE c \notin condemned
  <2> DEFINE held == [d \in Commit |-> Held(d)]
             earlier == [d \in Commit |-> Earlier(d)]
             grown == [p \in Path |-> IF held[c][p] # None THEN held[c][p] ELSE new[p]]
  <2>1. manifest'[c] = new /\ file'[c] = file[c] /\ stale'[c] = stale[c] \cup {manifest[c]}
    BY <1>1, <1>2 DEF TypeOK
  <2>2. \A p \in Path : \/ new[p] = manifest[c][p]
                        \/ manifest[c][p] = None /\ new[p] = w /\ file[c][p] = w
    BY <1>1, <1>5 DEF Adds
  <2>3. \A p \in Path : manifest[c][p] # None => file[c][p] # None
    BY <1>1, <1>5, Constants DEF Intact
  <2>4. held[c] = Show(manifest[c], file[c]) /\ earlier[c] = {Show(m, file[c]) : m \in stale[c]}
    BY <1>1, <1>5 DEF Held, Earlier, View, Show
  <2>5. held[c] = [p \in Path |-> IF manifest[c][p] = None THEN None ELSE file[c][p]]
    BY <1>1, <1>5, <2>4 DEF Show, Published
  <2>6. \A p \in Path : held[c][p] = IF manifest[c][p] = None THEN None ELSE file[c][p]
    BY <2>5
  <2>7. Show(manifest'[c], file'[c]) = grown
    <3>1. \A p \in Path : grown[p] = IF new[p] = None THEN None ELSE file[c][p]
      BY <2>2, <2>3, <2>6
    <3>2. grown = [p \in Path |-> IF new[p] = None THEN None ELSE file[c][p]]
      BY <3>1
    <3> QED BY <1>1, <2>1, <3>2 DEF Show
  <2>8. {Show(m, file'[c]) : m \in stale'[c]} = earlier[c] \cup {held[c]}
    BY <2>1, <2>4
  <2> QED
    <3> PICK e : e = earlier[c] \cup {held[c]}
      OBVIOUS
    <3> PICK h : h = grown
      OBVIOUS
    <3>1. held' = [held EXCEPT ![c] = h] /\ earlier' = [earlier EXCEPT ![c] = e]
      <4>1. /\ \A d \in Commit \ {c} : Held(d)' = Held(d) /\ Earlier(d)' = Earlier(d)
            /\ Held(c)' = Show(manifest'[c], file'[c])
            /\ Earlier(c)' = {Show(m, file'[c]) : m \in stale'[c]}
        BY <1>1, <1>2, <1>3, <1>5, OneSeen
      <4>2. Held(c)' = h /\ Earlier(c)' = e
        BY <2>7, <2>8, <4>1
      <4> QED BY ZenonT(60), <1>1, <4>1, <4>2, OneShown
    <3>2. held[c] # None /\ new \in Abstract!FileSet
      <4>1. held[c] \in [Path -> Writer \cup {Torn, None}]
        BY <1>1, <2>5 DEF TypeOK
      <4> QED BY <1>1, <4>1, NoneAssumption DEF Abstract!FileSet, Manifest
    <3>3. e \in SUBSET (earlier[c] \cup {held[c]})
      OBVIOUS
    <3>4. Abstract!Extend(c)
      BY ZenonT(60), <1>1, <1>2, <1>5, <3>1, <3>2, <3>3 DEF Abstract!Extend, Held, Earlier
    <3> QED BY <1>1, <3>4 DEF Abstract!Next
<1> QED BY <1>4, <1>5

LEMMA SetRefRefines ==
    ASSUME DetailInv, NEW w \in Writer, SetRef(w)
    PROVE  [Abstract!Next]_(Abstract!vars)
<1> PICK c : c = target[w]
  OBVIOUS
<1> PICK r : r = name[w]
  OBVIOUS
<1>1. /\ TypeOK /\ c \in Commit /\ r \in Ref
      /\ c \notin condemned => Published(c)
  BY DEF DetailInv, StoreInv, SeenBefore, DirectoriesPublished, SetRef, TypeOK
<1>2. ref' = [ref EXCEPT ![r] = c] /\ UNCHANGED <<manifest, file, stale, condemned>>
  BY DEF SetRef, disk
<1>3. \A d \in Commit : Held(d)' = Held(d) /\ Earlier(d)' = Earlier(d)
  BY <1>2, UnseenAlone DEF Unseen
<1>4. UNCHANGED <<[d \in Commit |-> Held(d)], [d \in Commit |-> Earlier(d)]>>
  BY <1>3
<1>5. c \in condemned \/ [d \in Commit |-> Held(d)][c] # None
  <2>1. ASSUME c \notin condemned
        PROVE  View(c, manifest[c]) \in [Path -> Writer \cup {Torn, None}]
    BY <1>1, <2>1 DEF View, Published, TypeOK
  <2> QED BY <1>1, <2>1, NoneAssumption DEF Held
<1>6. Abstract!SetRef(r, c)
  BY <1>2, <1>4, <1>5 DEF Abstract!SetRef, Held, Earlier
<1> QED BY <1>1, <1>6 DEF Abstract!Next

LEMMA RemoveStartRefines ==
    ASSUME DetailInv, NEW m \in Remover, NEW c \in Commit, RemoveStart(m, c)
    PROVE  [Abstract!Next]_(Abstract!vars)
<1>1. /\ \A r \in Ref : ref[r] # c
      /\ condemned' = condemned \cup {c}
      /\ UNCHANGED <<manifest, file, stale, ref>>
  BY DEF RemoveStart, disk
<1>2. Held(c)' = None /\ Earlier(c)' = {}
  BY <1>1 DEF Held, Earlier
<1>3. ASSUME NEW d \in Commit \ {c}
      PROVE  Held(d)' = Held(d) /\ Earlier(d)' = Earlier(d)
  BY <1>1 DEF Held, Earlier, View
<1>4. /\ [d \in Commit |-> Held(d)]' = [[d \in Commit |-> Held(d)] EXCEPT ![c] = None]
      /\ [d \in Commit |-> Earlier(d)]'
           = [[d \in Commit |-> Earlier(d)] EXCEPT ![c] = {}]
  BY <1>2, <1>3, OneShown
<1>5. Abstract!Condemn(c)
  BY <1>1, <1>4 DEF Abstract!Condemn, Held, Earlier
<1> QED BY <1>5 DEF Abstract!Next

(* A loss of power leaves each revision at one of its earlier states, but  *)
(* for bytes that nobody flushed.                                          *)
LEMMA PowerLossRefines ==
    ASSUME DetailInv, PowerLoss
    PROVE  [Abstract!Next]_(Abstract!vars)
<1>1. /\ TypeOK /\ TypeOK' /\ DiskInv
  BY PowerLossTyped DEF DetailInv, StoreInv
<1>2. ASSUME NEW c \in Commit
      PROVE  \E before \in Earlier(c) \cup {Held(c)} : Abstract!Survives(Held(c)', before)
  <2>1. CASE c \in condemned
    BY <2>1 DEF PowerLoss, Held, Abstract!Survives
  <2>2. CASE c \notin condemned
    <3> PICK m : m = manifest'[c]
      OBVIOUS
    <3>1. /\ m \in Possible(c) /\ condemned' = condemned
          /\ m # None => m \in Manifest
      BY <1>1 DEF PowerLoss, TypeOK
    <3>2. Show(m, file[c]) \in Earlier(c) \cup {Held(c)} /\ Held(c)' = Show(m, file'[c])
      <4>1. Held(c)' = Show(m, file'[c])
        BY <2>2, <3>1 DEF Held, View, Show
      <4>2. Held(c) = Show(manifest[c], file[c]) /\ Earlier(c) = {Show(n, file[c]) : n \in stale[c]}
        BY <2>2 DEF Held, Earlier, View, Show
      <4> QED BY <3>1, <4>1, <4>2 DEF Possible
    <3>3. CASE m = None
      BY <3>2, <3>3 DEF Show, Abstract!Survives
    <3>4. CASE m # None
      <4>1. Published(c) /\ \A p \in Path : m[p] # None => manifest[c][p] = m[p]
        BY <1>1, <2>2, <3>1, <3>4
           DEF DiskInv, OlderListLess, Possible, Within, Published
      <4>2. \A p \in Path : m[p] # None => p \notin unsynced[c]
        BY <1>1, <2>2, <4>1 DEF DiskInv, UnsyncedIsUnlisted
      <4>3. \A p \in unflushed[c] : file[c][p] \in Fetching
        BY <1>1 DEF DiskInv, UnflushedIsFetched
      <4>4. \A p \in Path : m[p] # None =>
              \/ file'[c][p] = file[c][p]
              \/ file'[c][p] = Torn /\ file[c][p] \in Fetching
        <5>1. PICK gone \in [Commit -> SUBSET Path], torn \in [Commit -> SUBSET Path] :
                /\ \A d \in Commit : gone[d] \subseteq unsynced[d]
                /\ \A d \in Commit : torn[d] \subseteq unflushed[d]
                /\ file' = [d \in Commit |->
                     IF d \in {e \in Commit : Published(e) /\ manifest'[e] = None}
                     THEN NoFiles
                     ELSE [q \in Path |-> IF q \in gone[d] THEN None
                                          ELSE IF q \in torn[d] THEN Torn
                                          ELSE file[d][q]]]
          BY DEF PowerLoss
        <5> QED BY <3>4, <4>2, <4>3, <5>1
      <4>5. /\ \A p \in Path : Show(m, file[c])[p] = IF m[p] = None THEN None ELSE file[c][p]
            /\ \A p \in Path : Show(m, file'[c])[p] = IF m[p] = None THEN None ELSE file'[c][p]
        BY <3>4 DEF Show
      <4>6. Abstract!Damaged(Show(m, file'[c]), Show(m, file[c]))
        BY <4>4, <4>5 DEF Abstract!Damaged
      <4>7. Show(m, file'[c]) # None /\ Show(m, file[c]) # None
        <5>1. /\ Show(m, file'[c]) \in [Path -> Writer \cup {Torn, None}]
              /\ Show(m, file[c]) \in [Path -> Writer \cup {Torn, None}]
          BY <1>1, <3>4 DEF Show, TypeOK
        <5> QED BY <5>1, NoneAssumption
      <4> QED BY <3>2, <4>6, <4>7 DEF Abstract!Survives
    <3> QED BY <3>3, <3>4
  <2> QED BY <2>1, <2>2
<1>3. \A c \in Commit : Earlier(c)' = {}
  BY DEF PowerLoss, Earlier
<1>4. [c \in Commit |-> Earlier(c)]' = [c \in Commit |-> {}]
  BY <1>3
<1>5. ASSUME NEW c \in Commit
      PROVE  \E before \in [d \in Commit |-> Earlier(d)][c]
                             \cup {[d \in Commit |-> Held(d)][c]} :
               Abstract!Survives([d \in Commit |-> Held(d)]'[c], before)
  BY <1>2
<1>6. UNCHANGED <<ref, condemned>>
  BY DEF PowerLoss
<1>7. Abstract!PowerLoss
  BY <1>4, <1>5, <1>6 DEF Abstract!PowerLoss, Held, Earlier
<1> QED BY <1>7 DEF Abstract!Next

-----------------------------------------------------------------------------
(* The steps a reader does not see.                                        *)
LEMMA ExtendMoveRefines ==
    ASSUME DetailInv, NEW w \in Writer, ExtendMove(w)
    PROVE  UNCHANGED Abstract!vars
<1> PICK c : c = target[w]
  OBVIOUS
<1>1. /\ TypeOK /\ DiskInv /\ c \in Commit
      /\ c \notin condemned => Adds(w) /\ Published(c)
      /\ step[w] = "move"
  BY DEF DetailInv, StoreInv, WriterInv, Extending, Adds, ExtendMove, TypeOK, Locked
<1>2. PICK p \in Path : p \in paths[w] /\ file' = [file EXCEPT ![c][p] = w]
  BY ZenonT(60), <1>1 DEF ExtendMove, TypeOK
<1>3. UNCHANGED <<manifest, stale, ref, condemned>>
  BY DEF ExtendMove
<1>4. c \notin condemned => manifest[c][p] = None
  BY <1>1, <1>2 DEF Adds
<1>5. c \notin condemned => ~ Shown(c, p)
  BY <1>1, <1>4 DEF Shown, Possible, DiskInv, OlderListLess, Within
<1>6. \A d \in Commit : Unseen(d)
  BY <1>1, <1>2, <1>3, <1>5 DEF Unseen, TypeOK
<1> QED BY <1>3, <1>6, Stutters

LEMMA RemovalRefines ==
    ASSUME DetailInv, NEW m \in Remover,
           RemoveFile(m) \/ RemoveManifest(m) \/ RemoveDirectory(m)
    PROVE  UNCHANGED Abstract!vars
<1> PICK c : c = removing[m]
  OBVIOUS
<1>1. /\ TypeOK /\ c \in Commit /\ c \in condemned /\ UNCHANGED <<ref, condemned>>
  BY DEF DetailInv, StoreInv, DiskInv, RemovedAreCondemned, TypeOK, RemoveFile,
         RemoveManifest, RemoveDirectory
<1>2. \A d \in Commit \ {c} :
         manifest'[d] = manifest[d] /\ file'[d] = file[d] /\ stale'[d] = stale[d]
  <2>1. CASE RemoveFile(m)
    BY <1>1, <2>1 DEF RemoveFile, TypeOK
  <2>2. CASE RemoveManifest(m)
    BY <1>1, <2>2 DEF RemoveManifest, TypeOK
  <2>3. CASE RemoveDirectory(m)
    BY <1>1, <2>3 DEF RemoveDirectory, TypeOK
  <2> QED BY <2>1, <2>2, <2>3
<1> QED BY <1>1, <1>2, Stutters DEF Unseen

LEMMA StepRefines ==
    DetailInv /\ [Next]_vars => [Abstract!Next]_(Abstract!vars)
<1> SUFFICES ASSUME DetailInv, [Next]_vars PROVE [Abstract!Next]_(Abstract!vars)
  OBVIOUS
<1>1. CASE UNCHANGED vars
  BY <1>1, UntouchedStutters DEF vars
<1>2. ASSUME NEW w \in Writer, Write(w)
      PROVE  [Abstract!Next]_(Abstract!vars)
  <2>1. CASE PublishRename(w) \/ PublishSync(w) \/ ExtendSwap(w) \/ ExtendEnd(w)
             \/ SetRef(w) \/ ExtendMove(w)
    BY <2>1, PublishRefines, PublishSyncRefines, ExtendSwapRefines, ExtendEndRefines,
       SetRefRefines, ExtendMoveRefines
  <2>2. CASE \E c \in Commit, r \in Ref \cup {None}, fetched \in (SUBSET Path) \ {{}} :
               Begin(w, c, r, fetched)
    BY <2>2, UntouchedStutters DEF Begin, disk
  <2>3. CASE PublishStart(w) \/ PublishRefused(w) \/ ExtendStart(w) \/ FindRevision(w)
    BY <2>3, UntouchedStutters DEF PublishStart, PublishRefused, ExtendStart,
       FindRevision, disk
  <2>4. CASE ExtendLock(w) \/ ExtendSync(w) \/ ExtendFails(w)
    BY <2>4, UntouchedStutters DEF ExtendLock, ExtendSync, ExtendFails, disk
  <2> QED BY <1>2, <2>1, <2>2, <2>3, <2>4 DEF Write
<1>3. ASSUME NEW m \in Remover, Remove(m)
      PROVE  [Abstract!Next]_(Abstract!vars)
  BY <1>3, RemoveStartRefines, RemovalRefines DEF Remove
<1>4. CASE Stop
  BY <1>4, UntouchedStutters DEF Stop, disk
<1>5. CASE PowerLoss
  BY <1>5, PowerLossRefines
<1> QED BY <1>1, <1>2, <1>3, <1>4, <1>5 DEF Next

LEMMA InitRefines == Init => Abstract!Init
BY DEF Init, Abstract!Init, View

(* Readers of the directories see the archive of module Archive: revisions *)
(* appear at once, grow, never change, and what was flushed survives.      *)
THEOREM StoreImplementsArchive == Spec => ImplementsArchive
BY DetailInvariant, InitRefines, StepRefines, PTL
   DEF Spec, ImplementsArchive, Abstract!Spec
=============================================================================
