------------------------ MODULE ArchiveReaders_proofs ------------------------
(***************************************************************************)
(* Proofs about everything that reads the archive, for any readers beside  *)
(* any writers and removers and any number of interruptions and losses of  *)
(* power: what was held is served, a verification passes and rejects       *)
(* rightly, a self-check reports the truth.                                *)
(*                                                                         *)
(* A reader puts its answer together from several moments, so the          *)
(* invariant says what each reading leaves true until the answer: of the   *)
(* store, that what is listed stays listed (HeldLasts); of a walk, which   *)
(* revisions it has passed or still has before it; of a verification, that *)
(* what was wrong all the time is still to be met, and what was            *)
(* undisturbed all the time still has the manifest that was read.          *)
(***************************************************************************)
EXTENDS ArchiveReaders, RevisionStore_proofs

(* A manifest that is there, or that a loss of power may bring back, is in *)
(* a directory; a directory without one is being deleted.                  *)
ManifestsHaveDirectory ==
    \A c \in Commit : \A m \in Possible(c) : m # None => c \in directory

DirectoriesArePublished ==
    \A c \in Commit : Lasting(c) /\ c \in directory => Published(c)

DirectoryInv == ManifestsHaveDirectory /\ DirectoriesArePublished

-----------------------------------------------------------------------------
Steps == {"idle", "ended", "resolve", "manifest", "file", "open", "complete",
          "files", "scan", "next", "refs", "ending"}

Reading ==
    [op : {"none", "get", "describe", "list", "verify", "audit", "check"},
     step : Steps, commit : Commit \cup Ref \cup {None}, path : Path \cup {None},
     manifest : Manifest \cup Writer \cup {None}, todo : SUBSET Path,
     left : SUBSET (Commit \cup Ref), kept : SUBSET (Commit \cup Path),
     found : SUBSET (Finding \cup Commit \cup Writer \cup {Torn}),
     answer : {None, "miss", "error", "headers", "body", "files", "done"}]

Trouble == ({"invalid_manifest"} \X Commit \X {None})
           \cup ({"missing_file", "other_bytes", "unlisted_file"} \X Commit \X Path)

Measure == [held : SUBSET (Commit \X Path), damage : SUBSET Trouble,
            quiet : SUBSET Commit]

ReadTyped == read \in [Reader -> Reading] /\ since \in [Reader -> Measure]

(* Where a reader of each kind can be, and what it works on there.         *)
Walking(x) == x.step \in {"next", "manifest", "files"}

Shape(x) ==
    /\ x.op = "none" => x.step \in {"idle", "ended"}
    /\ x.op = "get" =>
         /\ x.step \in {"resolve", "manifest", "file", "open", "ending"}
         /\ x.path \in Path
         /\ x.step = "resolve" => x.commit \in Ref
         /\ x.step \notin {"resolve", "ending"} => x.commit \in Commit
         /\ x.step # "ending" => x.found = {}
    /\ x.op = "describe" =>
         x.step \in {"manifest", "complete", "files", "ending"} /\ x.commit \in Commit
    /\ x.op = "list" => x.step \in {"refs", "scan", "next", "manifest", "ending"}
    /\ x.op = "verify" => x.step \in {"manifest", "files", "ending"}
    /\ x.op = "audit" => x.step \in {"scan", "next", "manifest", "files", "ending"}
    /\ x.op = "check" =>
         /\ x.step \in {"scan", "next", "manifest", "files", "refs", "ending"}
         /\ x.found \subseteq Finding
    /\ x.op \in {"verify", "audit"} =>
         /\ x.kept \subseteq Commit /\ x.found \subseteq Commit
         /\ x.step = "files" => x.manifest \in Manifest
    /\ x.op \in {"list", "verify", "audit", "check"} =>
         /\ x.step = "refs" => x.left \subseteq Ref
         /\ x.op = "audit" /\ x.step = "scan" => x.kept = {} /\ x.found = {}
         /\ Walking(x) => x.left \subseteq Commit
         /\ x.step \in {"manifest", "files"} => x.commit \in Commit

(* History is what has been so all the time, until the answer is fixed.    *)
Watching(x, s) ==
    x.step # "ending" => s.damage \subseteq Damage /\ s.quiet \subseteq Quiet

(* What was held is held, as long as nobody deletes it.                    *)
HeldLasts(s) ==
    \A h \in s.held : Lasting(h[1]) => h[2] \in Listed(h[1])

Still(s, c, p) == <<c, p>> \in s.held /\ Lasting(c)

(* A download has the digest of the file it is about to open.              *)
Getting(x, s) ==
    x.op = "get" /\ Still(s, x.commit, x.path) =>
        /\ x.step \in {"file", "open"} => x.manifest = manifest[x.commit][x.path]
        /\ x.step = "ending" =>
             /\ x.answer \in {"headers", "body"}
             /\ x.found \subseteq {x.manifest} \cup
                                  (IF x.manifest \in Fetching THEN {Torn} ELSE {})

Describing(x, s) ==
    x.op = "describe" /\ x.step = "ending" =>
        \A p \in Path : Still(s, x.commit, p) => p \in x.kept

(* A walk has what was held behind it or before it.                        *)
Ahead(x) == x.left \cup (IF x.step \in {"manifest", "files"} THEN {x.commit} ELSE {})

Visited(x) ==
    \/ x.op = "list" /\ x.step = "ending" /\ x.answer = "done"
    \/ x.op = "check" /\ x.step \in {"refs", "ending"}

Keeping(x, s) ==
    x.op \in {"list", "check"} =>
        \A c \in Commit, p \in Path : Still(s, c, p) =>
            /\ Walking(x) => c \in x.kept \cup Ahead(x)
            /\ Visited(x) => c \in x.kept

(* A verification that passes a revision has met everything that was wrong *)
(* with it all the time; what was undisturbed all the time is as it was.   *)
ToMeet(x, d) ==
    /\ d[1] # "invalid_manifest"
    /\ d[1] \in {"missing_file", "other_bytes"} => d[3] \in x.todo
    /\ d[1] = "unlisted_file" => x.manifest[d[3]] = None

Verifying(x, s) ==
    x.op \in {"verify", "audit"} =>
        /\ \A d \in s.damage : d[2] \notin x.kept
        /\ x.found \cap s.quiet = {}
        /\ x.kept \cap x.found = {}
        /\ x.op = "audit" /\ Walking(x) => x.left \cap (x.kept \cup x.found) = {}
        /\ x.step \in {"manifest", "files"} =>
             x.commit \notin x.left \cup x.kept \cup x.found
        /\ x.step = "files" =>
             /\ \A p \in x.todo : x.manifest[p] # None
             /\ x.commit \in s.quiet => x.manifest = manifest[x.commit]
             /\ \A d \in s.damage : d[2] = x.commit => ToMeet(x, d)

(* What a self-check reports is so, or what was wrong all the time is yet  *)
(* to be met.                                                              *)
IsSo(f, s) ==
    CASE f[1] \in {"invalid_manifest", "missing_file"} -> ~ Lasting(f[2])
      [] f[1] = "dangling_ref" -> \A p \in Path : ~ Still(s, f[3], p)
      [] OTHER -> Lasting(f[2]) => f[3] \in Listed(f[2]) /\ file[f[2]][f[3]] = Torn

Reports(x, d) ==
    \/ d \in x.found
    \/ Walking(x) /\ d[2] \in x.left
    \/ x.step = "manifest" /\ d[2] = x.commit
    \/ x.step = "files" /\ d[2] = x.commit /\ d[1] = "missing_file" /\ d[3] \in x.todo
    \/ x.step = "scan"

Checking(x, s) ==
    x.op = "check" =>
        /\ \A f \in x.found : IsSo(f, s)
        /\ \A d \in s.damage :
             d[1] \in {"invalid_manifest", "missing_file"} => Reports(x, d)
        /\ Walking(x) => \A c \in Ahead(x) : Lasting(c) => Published(c)
        /\ x.step = "files" /\ Lasting(x.commit) => x.todo \subseteq Listed(x.commit)

ReaderInv(x, s) ==
    /\ Shape(x) /\ Watching(x, s) /\ HeldLasts(s)
    /\ Getting(x, s) /\ Describing(x, s) /\ Keeping(x, s) /\ Verifying(x, s)
    /\ Checking(x, s)

ReadersInv ==
    /\ StoreInv /\ DirectoryInv
    /\ ReadTyped
    /\ \A r \in Reader : ReaderInv(read[r], since[r])
-----------------------------------------------------------------------------
(* The directories.                                                        *)
LEMMA DirectoriesAlone ==
    ASSUME DirectoryInv, UNCHANGED <<directory, manifest, stale>>,
           condemned \subseteq condemned'
    PROVE  DirectoryInv'
BY DEF DirectoryInv, ManifestsHaveDirectory, DirectoriesArePublished, Possible,
       Lasting, Published

LEMMA PublishRenameDirectories ==
    ASSUME StoreInv, DirectoryInv, NEW w \in Writer, PublishRename(w)
    PROVE  DirectoryInv'
<1> DEFINE c == target[w]
<1>1. /\ c \in Commit
      /\ directory' = directory \cup {c}
      /\ manifest' = [manifest EXCEPT ![c] = ListingOf(w, paths[w])]
      /\ stale' = [stale EXCEPT ![c] = {None}]
      /\ UNCHANGED condemned
  BY DEF PublishRename, StoreInv, TypeOK, counters
<1>2. ListingOf(w, paths[w]) \in Manifest
  BY DEF ListingOf, Manifest
<1>3. ListingOf(w, paths[w]) # None
  BY <1>2, Constants
<1>4. manifest'[c] # None
  BY <1>1, <1>3 DEF StoreInv, TypeOK
<1>5. \A d \in Commit \ {c} : manifest'[d] = manifest[d] /\ stale'[d] = stale[d]
  BY <1>1 DEF StoreInv, TypeOK
<1>6. c \in directory'
  BY <1>1
<1> HIDE DEF c
<1> QED
  BY <1>1, <1>4, <1>5, <1>6 DEF DirectoryInv, ManifestsHaveDirectory,
     DirectoriesArePublished, Possible, Lasting, Published

LEMMA LessStaleDirectories ==
    ASSUME DirectoryInv, UNCHANGED <<directory, manifest, condemned>>,
           \A c \in Commit : stale'[c] \subseteq stale[c]
    PROVE  DirectoryInv'
BY DEF DirectoryInv, ManifestsHaveDirectory, DirectoriesArePublished, Possible,
       Lasting, Published

LEMMA ExtendMoveDirectories ==
    ASSUME StoreInv, DirectoryInv, NEW w \in Writer, ExtendMove(w)
    PROVE  DirectoryInv'
<1> DEFINE c == target[w]
<1>1. /\ c \in Commit /\ step[w] \in Locked
      /\ directory' = directory \cup {c}
      /\ UNCHANGED <<manifest, stale, condemned>>
  BY DEF ExtendMove, StoreInv, TypeOK, Locked
<1>2. Lasting(c) => Published(c)
  BY <1>1 DEF StoreInv, WriterInv, Extending, Adds, Lasting
<1> HIDE DEF c
<1> QED
  BY <1>1, <1>2 DEF DirectoryInv, ManifestsHaveDirectory, DirectoriesArePublished,
     Possible, Lasting, Published

LEMMA ExtendSwapDirectories ==
    ASSUME StoreInv, DirectoryInv, NEW w \in Writer, ExtendSwap(w)
    PROVE  DirectoryInv'
<1> DEFINE c == target[w]
<1>1. /\ c \in Commit /\ c \in directory
      /\ manifest' = [manifest EXCEPT ![c] = listing[w]]
      /\ stale' = [stale EXCEPT ![c] = @ \cup {manifest[c]}]
      /\ UNCHANGED <<directory, condemned>>
  BY DEF ExtendSwap, StoreInv, TypeOK
<1>2. manifest'[c] # None
  BY <1>1, Constants DEF StoreInv, TypeOK
<1>3. \A d \in Commit \ {c} : manifest'[d] = manifest[d] /\ stale'[d] = stale[d]
  BY <1>1 DEF StoreInv, TypeOK
<1> HIDE DEF c
<1> QED
  BY <1>1, <1>2, <1>3 DEF DirectoryInv, ManifestsHaveDirectory,
     DirectoriesArePublished, Possible, Lasting, Published

LEMMA RemovalDirectories ==
    ASSUME StoreInv, DirectoryInv, NEW m \in Remover,
           RemoveManifest(m) \/ RemoveDirectory(m)
    PROVE  DirectoryInv'
<1> DEFINE c == removing[m]
<1>1. /\ c \in Commit /\ ~ Lasting(c)
      /\ UNCHANGED condemned
  BY DEF StoreInv, TypeOK, DiskInv, RemovedAreCondemned, Lasting, RemoveManifest,
     RemoveDirectory
<1>2. /\ manifest'[c] = None /\ stale'[c] \subseteq stale[c]
      /\ directory' = directory \/ (stale'[c] = {} /\ directory' = directory \ {c})
      /\ \A d \in Commit \ {c} : manifest'[d] = manifest[d] /\ stale'[d] = stale[d]
  BY <1>1 DEF StoreInv, TypeOK, RemoveManifest, RemoveDirectory, Vacant, Published
<1> HIDE DEF c
<1> QED
  BY <1>1, <1>2 DEF DirectoryInv, ManifestsHaveDirectory, DirectoriesArePublished,
     Possible, Lasting, Published

LEMMA PowerLossDirectories ==
    ASSUME StoreInv, DirectoryInv, PowerLoss
    PROVE  DirectoryInv'
<1> DEFINE unpublished == {c \in Commit : Published(c) /\ manifest'[c] = None}
<1>1. /\ \A c \in Commit : manifest'[c] \in Possible(c)
      /\ directory' = directory \ unpublished
      /\ \A c \in Commit : stale'[c] = {}
      /\ UNCHANGED condemned
  BY DEF PowerLoss
<1> QED
  BY <1>1 DEF DirectoryInv, ManifestsHaveDirectory, DirectoriesArePublished,
     Possible, Lasting, Published

LEMMA WriteDirectories ==
    ASSUME StoreInv, DirectoryInv, NEW w \in Writer, Write(w)
    PROVE  DirectoryInv'
<1>1. ASSUME NEW c \in Commit, NEW r \in Ref \cup {None}, NEW fetched \in SUBSET Path,
             Begin(w, c, r, fetched)
      PROVE  DirectoryInv'
  BY <1>1, DirectoriesAlone DEF Begin, disk
<1>2. CASE PublishStart(w) \/ PublishRefused(w)
  BY <1>2, DirectoriesAlone DEF PublishStart, PublishRefused, disk
<1>3. CASE ExtendStart(w) \/ ExtendLock(w) \/ ExtendFails(w)
  BY <1>3, DirectoriesAlone DEF ExtendStart, ExtendLock, ExtendFails, disk
<1>4. CASE FindRevision(w) \/ SetRef(w)
  BY <1>4, DirectoriesAlone DEF FindRevision, SetRef, disk
<1>5. CASE ExtendSync(w)
  BY <1>5, DirectoriesAlone DEF ExtendSync
<1>6. CASE PublishSync(w) \/ ExtendEnd(w)
  <2>1. \A c \in Commit : stale'[c] \subseteq stale[c]
    BY SMTT(60), <1>6 DEF PublishSync, ExtendEnd, StoreInv, TypeOK
  <2> QED BY <1>6, <2>1, LessStaleDirectories DEF PublishSync, ExtendEnd
<1> QED
  BY <1>1, <1>2, <1>3, <1>4, <1>5, <1>6, PublishRenameDirectories,
     ExtendMoveDirectories, ExtendSwapDirectories DEF Write

LEMMA RemoveDirectories ==
    ASSUME StoreInv, DirectoryInv, NEW m \in Remover, Remove(m)
    PROVE  DirectoryInv'
<1>1. ASSUME NEW c \in Commit, RemoveStart(m, c)
      PROVE  DirectoryInv'
  BY <1>1, DirectoriesAlone DEF RemoveStart, disk
<1>2. CASE RemoveFile(m)
  BY <1>2, DirectoriesAlone DEF RemoveFile
<1> QED BY <1>1, <1>2, RemovalDirectories DEF Remove

LEMMA StepDirectories ==
    ASSUME StoreInv, DirectoryInv, Next
    PROVE  DirectoryInv'
<1>1. CASE Stop
  BY <1>1, DirectoriesAlone DEF Stop, disk
<1> QED
  BY <1>1, WriteDirectories, RemoveDirectories, PowerLossDirectories DEF Next

-----------------------------------------------------------------------------
(* What readers rely on while the store goes on: what is listed stays      *)
(* listed, and what is undisturbed keeps its manifest.                     *)
Persists(c) ==
    Lasting(c)' /\ Published(c) =>
        /\ Published(c)'
        /\ \A p \in Listed(c) :
             /\ p \in Listed(c)' /\ manifest'[c][p] = manifest[c][p]
             /\ file[c][p] = Torn => file'[c][p] = Torn

Undisturbed(c) == c \in Quiet /\ c \in Quiet' => manifest'[c] = manifest[c]

GoesOn ==
    /\ condemned \subseteq condemned'
    /\ \A c \in Commit : Persists(c) /\ Undisturbed(c)

LEMMA SameFiles ==
    ASSUME UNCHANGED <<manifest, file>>, condemned \subseteq condemned'
    PROVE  GoesOn
BY DEF GoesOn, Persists, Undisturbed, Lasting, Published, Listed

LEMMA PublishRenameGoesOn ==
    ASSUME StoreInv, NEW w \in Writer, PublishRename(w)
    PROVE  GoesOn
<1> DEFINE c == target[w]
<1>1. /\ c \in Commit /\ ~ Published(c) /\ UNCHANGED condemned
  BY DEF PublishRename, StoreInv, TypeOK, Vacant
<1>2. \A d \in Commit \ {c} : manifest'[d] = manifest[d] /\ file'[d] = file[d]
  BY DEF PublishRename, StoreInv, TypeOK
<1>3. c \notin Quiet
  BY <1>1 DEF Quiet
<1> HIDE DEF c
<1> QED
  BY <1>1, <1>2, <1>3 DEF GoesOn, Persists, Undisturbed, Lasting, Published, Listed

LEMMA ExtendMoveGoesOn ==
    ASSUME StoreInv, NEW w \in Writer, ExtendMove(w)
    PROVE  GoesOn
<1> DEFINE c == target[w]
<1>1. /\ c \in Commit /\ step[w] = "move"
      /\ UNCHANGED <<manifest, condemned>>
  BY DEF ExtendMove, StoreInv, TypeOK
<1>2. PICK p \in paths[w] : file' = [file EXCEPT ![c][p] = w]
  BY DEF ExtendMove
<1>3. /\ p \in Path
      /\ \A d \in Commit, q \in Path : d # c \/ q # p => file'[d][q] = file[d][q]
  BY <1>1, <1>2 DEF StoreInv, TypeOK
<1>4. Lasting(c) => p \notin Listed(c)
  BY <1>1, <1>2 DEF StoreInv, WriterInv, Extending, Adds, Lasting, Listed, Locked
<1> HIDE DEF c
<1>5. ASSUME NEW d \in Commit PROVE Persists(d)
  <2>1. ASSUME NEW q \in Listed(d), Lasting(d)
        PROVE  file'[d][q] = file[d][q]
    BY <1>3, <1>4, <2>1 DEF Listed
  <2> QED BY <1>1, <2>1 DEF Persists, Lasting, Published, Listed
<1> QED
  BY <1>1, <1>5 DEF GoesOn, Undisturbed

LEMMA ExtendSwapGoesOn ==
    ASSUME StoreInv, NEW w \in Writer, ExtendSwap(w)
    PROVE  GoesOn
<1> DEFINE c == target[w]
<1>1. /\ c \in Commit /\ step[w] = "swap" /\ step[w] \in Locked
      /\ manifest' = [manifest EXCEPT ![c] = listing[w]]
      /\ UNCHANGED <<file, condemned>>
  BY DEF ExtendSwap, StoreInv, TypeOK, Locked
<1>2. /\ manifest'[c] = listing[w] /\ listing[w] # None
      /\ \A d \in Commit \ {c} : manifest'[d] = manifest[d]
  BY <1>1, Constants DEF StoreInv, TypeOK
<1>3. c \notin Quiet
  <2>1. lock[c] = w /\ w # None
    BY <1>1, Constants DEF StoreInv, TypeOK
  <2> QED BY <2>1 DEF Quiet
<1>4. Lasting(c) => \A p \in Listed(c) : listing[w][p] = manifest[c][p]
  BY <1>1 DEF StoreInv, WriterInv, Extending, Adds, Lasting, Listed
<1> HIDE DEF c
<1>5. ASSUME NEW d \in Commit PROVE Persists(d)
  <2>1. CASE d = c
    BY <1>1, <1>2, <1>4, <2>1 DEF Persists, Lasting, Published, Listed
  <2>2. CASE d # c
    BY <1>1, <1>2, <2>2 DEF Persists, Lasting, Published, Listed
  <2> QED BY <2>1, <2>2
<1> QED
  BY <1>1, <1>2, <1>3, <1>5 DEF GoesOn, Undisturbed

LEMMA RemovalGoesOn ==
    ASSUME StoreInv, NEW m \in Remover,
           RemoveFile(m) \/ RemoveManifest(m) \/ RemoveDirectory(m)
    PROVE  GoesOn
<1> DEFINE c == removing[m]
<1>1. /\ c \in Commit /\ ~ Lasting(c) /\ UNCHANGED condemned
  BY DEF StoreInv, TypeOK, DiskInv, RemovedAreCondemned, Lasting, RemoveFile,
     RemoveManifest, RemoveDirectory
<1>2. \A d \in Commit \ {c} : manifest'[d] = manifest[d] /\ file'[d] = file[d]
  BY DEF StoreInv, TypeOK, RemoveFile, RemoveManifest, RemoveDirectory
<1>3. manifest'[c] = manifest[c] \/ manifest'[c] = None
  BY <1>1 DEF StoreInv, TypeOK, RemoveFile, RemoveManifest, RemoveDirectory
<1> HIDE DEF c
<1>4. Undisturbed(c)
  BY <1>3 DEF Undisturbed, Quiet, Published
<1> QED
  BY <1>1, <1>2, <1>4 DEF GoesOn, Persists, Undisturbed, Lasting, Published, Listed

LEMMA StoreGoesOn ==
    ASSUME StoreInv,
           (\E w \in Writer : Write(w)) \/ (\E m \in Remover : Remove(m)) \/ Stop
    PROVE  GoesOn
<1>1. ASSUME NEW w \in Writer, Write(w)
      PROVE  GoesOn
  <2>1. ASSUME NEW c \in Commit, NEW r \in Ref \cup {None},
               NEW fetched \in SUBSET Path, Begin(w, c, r, fetched)
        PROVE  GoesOn
    BY <2>1, SameFiles DEF Begin, disk
  <2>2. CASE PublishStart(w) \/ PublishRefused(w) \/ PublishSync(w)
    BY <2>2, SameFiles DEF PublishStart, PublishRefused, PublishSync, disk
  <2>3. CASE ExtendStart(w) \/ ExtendLock(w) \/ ExtendFails(w)
    BY <2>3, SameFiles DEF ExtendStart, ExtendLock, ExtendFails, disk
  <2>4. CASE ExtendSync(w) \/ ExtendEnd(w) \/ FindRevision(w) \/ SetRef(w)
    BY <2>4, SameFiles DEF ExtendSync, ExtendEnd, FindRevision, SetRef, disk
  <2> QED
    BY <1>1, <2>1, <2>2, <2>3, <2>4, PublishRenameGoesOn, ExtendMoveGoesOn,
       ExtendSwapGoesOn DEF Write
<1>2. ASSUME NEW m \in Remover, Remove(m)
      PROVE  GoesOn
  <2>1. ASSUME NEW c \in Commit, RemoveStart(m, c)
        PROVE  GoesOn
    BY <2>1, SameFiles DEF RemoveStart, disk
  <2> QED BY <1>2, <2>1, RemovalGoesOn DEF Remove
<1>3. CASE Stop
  BY <1>3, SameFiles DEF Stop, disk
<1> QED BY <1>1, <1>2, <1>3
-----------------------------------------------------------------------------
(* What is wrong with a revision, case by case.                            *)
LEMMA DamageIs ==
    ASSUME NEW d \in Damage, TypeOK
    PROVE  /\ d \in Trouble /\ d = <<d[1], d[2], d[3]>> /\ d[2] \in Commit
           /\ d[1] = "invalid_manifest" =>
                d[3] = None /\ d[2] \in directory /\ ~ Published(d[2])
           /\ d[1] \in {"missing_file", "other_bytes", "unlisted_file"} =>
                d[3] \in Path /\ Published(d[2])
           /\ d[1] = "missing_file" => d[3] \in Listed(d[2]) /\ file[d[2]][d[3]] = None
           /\ d[1] = "other_bytes" => d[3] \in Listed(d[2]) /\ file[d[2]][d[3]] = Torn
           /\ d[1] = "unlisted_file" => d[3] \notin Listed(d[2]) /\ file[d[2]][d[3]] # None
<1>1. CASE \E c \in directory : ~ Published(c) /\ d = <<"invalid_manifest", c, None>>
  BY <1>1 DEF Trouble, TypeOK
<1>2. CASE \E c \in Commit, p \in Path :
             /\ p \in Listed(c) /\ file[c][p] = None
             /\ d = <<"missing_file", c, p>>
  BY <1>2 DEF Trouble, Listed
<1>3. CASE \E c \in Commit, p \in Path :
             /\ p \in Listed(c) /\ file[c][p] = Torn
             /\ d = <<"other_bytes", c, p>>
  BY <1>3 DEF Trouble, Listed
<1>4. CASE \E c \in Commit, p \in Path :
             /\ Published(c) /\ p \notin Listed(c) /\ file[c][p] # None
             /\ d = <<"unlisted_file", c, p>>
  BY <1>4 DEF Trouble
<1> QED BY <1>1, <1>2, <1>3, <1>4 DEF Damage

(* What a file that is listed and lasts can be.                            *)
LEMMA ListedFiles ==
    ASSUME StoreInv, NEW c \in Commit, Lasting(c), NEW p \in Listed(c)
    PROVE  /\ p \in Path /\ manifest[c][p] \in Writer
           /\ \/ file[c][p] = manifest[c][p]
              \/ file[c][p] = Torn /\ manifest[c][p] \in Fetching
           /\ file[c][p] # None
<1>1. p \in Path /\ Published(c) /\ manifest[c][p] # None
  BY DEF Listed
<1>2. manifest[c][p] \in Writer
  BY <1>1 DEF StoreInv, TypeOK, Manifest, Published
<1>3. Intact(c, manifest[c])
  BY <1>1 DEF StoreInv, DiskInv, ListedIsIntact, Lasting
<1> QED BY <1>1, <1>2, <1>3, Constants DEF Intact

LEMMA HeldIs ==
    ASSUME TypeOK
    PROVE  Held \subseteq Commit \X Path /\ HeldLasts([held |-> Held, damage |-> {}, quiet |-> {}])
BY DEF Held, HeldLasts

-----------------------------------------------------------------------------
(* The invariant of one reader reads the store alone.                      *)
LEMMA StoreUntouched ==
    ASSUME NEW x, NEW s, ReaderInv(x, s), UNCHANGED vars
    PROVE  ReaderInv(x, s)'
<1>1. /\ Damage' = Damage /\ Quiet' = Quiet
      /\ \A c : (Lasting(c)' <=> Lasting(c)) /\ (Published(c)' <=> Published(c))
      /\ \A c : Listed(c)' = Listed(c)
      /\ manifest' = manifest /\ file' = file
  BY DEF vars, Damage, Quiet, Lasting, Published, Listed
<1>2. Shape(x)'
  BY DEF ReaderInv, Shape, Walking, Finding
<1>3. Watching(x, s)' /\ HeldLasts(s)'
  BY <1>1 DEF ReaderInv, Watching, HeldLasts
<1>4. \A c, p : Still(s, c, p)' <=> Still(s, c, p)
  BY <1>1 DEF Still
<1>5. Getting(x, s)' /\ Describing(x, s)' /\ Keeping(x, s)'
  BY <1>1, <1>4 DEF ReaderInv, Getting, Describing, Keeping, Walking, Visited, Ahead
<1>6. Verifying(x, s)'
  BY <1>1 DEF ReaderInv, Verifying, Walking, ToMeet
<1>7. \A f : IsSo(f, s)' <=> IsSo(f, s)
  BY <1>1, <1>4 DEF IsSo
<1>8. Checking(x, s)'
  BY <1>1, <1>7 DEF ReaderInv, Checking, Reports, Walking, Ahead
<1> QED BY <1>2, <1>3, <1>5, <1>6, <1>8 DEF ReaderInv

(* So only the reader whose step it is counts.                             *)
LEMMA OneReader ==
    ASSUME ReadersInv, NEW r \in Reader, NEW y \in Reading, NEW t \in Measure,
           read' = [read EXCEPT ![r] = y], since' = [since EXCEPT ![r] = t],
           UNCHANGED vars, ReaderInv(y, t)
    PROVE  ReadersInv'
<1>1. StoreInv'
  BY StepKeeps DEF ReadersInv
<1>2. DirectoryInv'
  BY DirectoriesAlone DEF ReadersInv, vars
<1>3. ReadTyped'
  BY DEF ReadersInv, ReadTyped
<1>4. ASSUME NEW q \in Reader
      PROVE  ReaderInv(read[q], since[q])'
  <2>1. CASE q = r
    <3>1. read'[q] = y /\ since'[q] = t
      BY <2>1 DEF ReadersInv, ReadTyped
    <3>2. ReaderInv(y, t)'
      BY StoreUntouched
    <3> QED BY <3>1, <3>2
  <2>2. CASE q # r
    <3> DEFINE x == read[q]
               s == since[q]
    <3>1. PICK x0, s0 : x0 = x /\ s0 = s
      OBVIOUS
    <3>2. read'[q] = x0 /\ since'[q] = s0
      BY <2>2, <3>1 DEF ReadersInv, ReadTyped
    <3>3. ReaderInv(x0, s0)'
      BY <3>1, StoreUntouched DEF ReadersInv
    <3> QED BY <3>2, <3>3
  <2> QED BY <2>1, <2>2
<1> QED BY <1>1, <1>2, <1>3, <1>4 DEF ReadersInv

(* A step that only reads goes on with y; its history is as it was.        *)
LEMMA ReadsOn ==
    ASSUME ReadersInv, NEW r \in Reader, NEW y \in Reading,
           Becomes(r, y), OnlyReads(r), ReaderInv(y, since[r])
    PROVE  ReadersInv'
<1>1. since[r] \in Measure /\ since' = [since EXCEPT ![r] = since[r]]
  BY DEF ReadersInv, ReadTyped, OnlyReads
<1> QED BY <1>1, OneReader DEF Becomes, OnlyReads

LEMMA OfItsKind ==
    ASSUME NEW x \in Reading, NEW y \in Reading, NEW s, ReaderInv(x, s),
           x.step # "ending", y.op = x.op, Shape(y),
           Getting(y, s), Describing(y, s), Keeping(y, s), Verifying(y, s),
           Checking(y, s)
    PROVE  ReaderInv(y, s)
BY DEF ReaderInv, Watching

LEMMA Facts ==
    ASSUME ReadersInv, NEW r \in Reader
    PROVE  /\ read[r] \in Reading /\ since[r] \in Measure
           /\ ReaderInv(read[r], since[r]) /\ StoreInv /\ DirectoryInv /\ TypeOK
BY DEF ReadersInv, ReadTyped, StoreInv

LEMMA Gets ==
    ASSUME NEW x \in Reading, NEW y \in Reading, NEW s, ReaderInv(x, s), x.op = "get",
           x.step # "ending", y.op = x.op, Shape(y), Getting(y, s)
    PROVE  ReaderInv(y, s)
BY OfItsKind DEF Describing, Keeping, Verifying, Checking

LEMMA Describes ==
    ASSUME NEW x \in Reading, NEW y \in Reading, NEW s, ReaderInv(x, s),
           x.op = "describe", x.step # "ending", y.op = x.op, Shape(y), Describing(y, s)
    PROVE  ReaderInv(y, s)
BY OfItsKind DEF Getting, Keeping, Verifying, Checking

LEMMA Lists ==
    ASSUME NEW x \in Reading, NEW y \in Reading, NEW s, ReaderInv(x, s), x.op = "list",
           x.step # "ending", y.op = x.op, Shape(y), Keeping(y, s)
    PROVE  ReaderInv(y, s)
BY OfItsKind DEF Getting, Describing, Verifying, Checking

LEMMA Verifies ==
    ASSUME NEW x \in Reading, NEW y \in Reading, NEW s, ReaderInv(x, s),
           x.op \in {"verify", "audit"}, x.step # "ending", y.op = x.op, Shape(y),
           Verifying(y, s)
    PROVE  ReaderInv(y, s)
BY OfItsKind DEF Getting, Describing, Keeping, Checking

LEMMA Checks ==
    ASSUME NEW x \in Reading, NEW y \in Reading, NEW s, ReaderInv(x, s), x.op = "check",
           x.step # "ending", y.op = x.op, Shape(y), Keeping(y, s), Checking(y, s)
    PROVE  ReaderInv(y, s)
BY OfItsKind DEF Getting, Describing, Verifying

-----------------------------------------------------------------------------
(* Downloads.                                                              *)
LEMMA ResolveReads ==
    ASSUME ReadersInv, NEW r \in Reader, Resolve(r)
    PROVE  ReadersInv'
<1> DEFINE x == read[r]
           s == since[r]
           c == ref[x.commit]
<1>1. /\ x \in Reading /\ s \in Measure /\ ReaderInv(x, s) /\ TypeOK
      /\ x.op = "get" /\ x.step = "resolve" /\ OnlyReads(r)
  BY Facts DEF Resolve, At
<1>2. Shape(x) /\ x.commit \in Ref /\ x.path \in Path /\ x.found = {}
  BY <1>1 DEF ReaderInv, Shape
<1>3. x.commit \notin Commit
  BY <1>2, ReaderAssumption
<1>4. CASE c = None
  <2> DEFINE y == [x EXCEPT !.step = "ending", !.answer = "miss"]
  <2>1. y \in Reading
    BY <1>1 DEF Reading, Steps
  <2>0. Becomes(r, y)
    BY <1>4 DEF Resolve, Ending
  <2>2. y.op = "get" /\ Shape(y)
    BY <1>1, <1>2 DEF Reading, Shape
  <2>3. Getting(y, s)
    BY <1>1, <1>3 DEF Getting, Still, Reading, Measure
  <2> HIDE DEF y
  <2> QED BY <1>1, <2>0, <2>1, <2>2, <2>3, Gets, ReadsOn
<1>5. CASE c # None
  <2> DEFINE y == [x EXCEPT !.commit = c, !.step = "manifest"]
  <2>1. c \in Commit
    BY <1>1, <1>2, <1>5 DEF TypeOK
  <2>2. y \in Reading /\ Becomes(r, y)
    BY <1>1, <1>5, <2>1 DEF Reading, Steps, Resolve
  <2>3. y.op = "get" /\ Shape(y)
    BY <1>1, <1>2, <2>1 DEF Reading, Shape
  <2>4. Getting(y, s)
    BY <1>1 DEF Getting, Reading
  <2> HIDE DEF y
  <2> QED BY <1>1, <2>2, <2>3, <2>4, Gets, ReadsOn
<1> QED BY <1>4, <1>5

LEMMA GetManifestReads ==
    ASSUME ReadersInv, NEW r \in Reader, GetManifest(r)
    PROVE  ReadersInv'
<1> DEFINE x == read[r]
           s == since[r]
<1>1. /\ x \in Reading /\ s \in Measure /\ ReaderInv(x, s) /\ TypeOK
      /\ x.op = "get" /\ x.step = "manifest" /\ OnlyReads(r)
  BY Facts DEF GetManifest, At
<1>2. x.commit \in Commit /\ x.path \in Path /\ x.found = {} /\ HeldLasts(s)
  BY <1>1 DEF ReaderInv, Shape
<1>3. Still(s, x.commit, x.path) => x.path \in Listed(x.commit)
  BY <1>2 DEF HeldLasts, Still
<1>4. CASE x.path \notin Listed(x.commit)
  <2> DEFINE y == [x EXCEPT !.step = "ending", !.answer = "miss"]
  <2>1. y \in Reading
    BY ZenonT(60), <1>1 DEF Reading, Steps
  <2>0. Becomes(r, y)
    BY <1>4 DEF GetManifest, Ending
  <2>2. y.op = "get" /\ Shape(y)
    BY <1>1, <1>2 DEF Reading, Shape
  <2>3. Getting(y, s)
    BY <1>1, <1>3, <1>4 DEF Getting, Reading
  <2> HIDE DEF y
  <2> QED BY <1>1, <2>0, <2>1, <2>2, <2>3, Gets, ReadsOn
<1>5. CASE x.path \in Listed(x.commit)
  <2> DEFINE y == [x EXCEPT !.step = "file", !.manifest = manifest[x.commit][x.path]]
  <2>1. manifest[x.commit][x.path] \in Writer \cup {None}
    BY <1>1, <1>2, <1>5 DEF TypeOK, Listed, Published, Manifest
  <2>2. y \in Reading /\ Becomes(r, y)
    BY ZenonT(60), <1>1, <1>5, <2>1 DEF Reading, Steps, GetManifest
  <2>3. y.op = "get" /\ Shape(y)
    BY <1>1, <1>2 DEF Reading, Shape
  <2>4. Getting(y, s)
    BY <1>1 DEF Getting, Reading
  <2> HIDE DEF y
  <2> QED BY <1>1, <2>2, <2>3, <2>4, Gets, ReadsOn
<1> QED BY <1>4, <1>5

(* The file of a download whose revision lasts.                            *)
LEMMA WhatIsGot ==
    ASSUME NEW x \in Reading, NEW s \in Measure, ReaderInv(x, s), StoreInv,
           x.op = "get", x.step \in {"file", "open"}, Still(s, x.commit, x.path)
    PROVE  /\ file[x.commit][x.path] # None
           /\ \/ file[x.commit][x.path] = x.manifest
              \/ file[x.commit][x.path] = Torn /\ x.manifest \in Fetching
<1>1. x.commit \in Commit /\ x.path \in Listed(x.commit) /\ Lasting(x.commit)
      /\ x.manifest = manifest[x.commit][x.path]
  BY DEF ReaderInv, Shape, HeldLasts, Still, Getting
<1> QED BY <1>1, ListedFiles

LEMMA GetFileReads ==
    ASSUME ReadersInv, NEW r \in Reader, GetFile(r)
    PROVE  ReadersInv'
<1> DEFINE x == read[r]
           s == since[r]
<1>1. /\ x \in Reading /\ s \in Measure /\ ReaderInv(x, s) /\ StoreInv
      /\ x.op = "get" /\ x.step = "file" /\ OnlyReads(r)
  BY Facts DEF GetFile, At
<1>2. x.commit \in Commit /\ x.path \in Path /\ x.found = {}
  BY <1>1 DEF ReaderInv, Shape
<1>3. CASE file[x.commit][x.path] = None
  <2> DEFINE y == [x EXCEPT !.step = "ending", !.answer = "miss"]
  <2>1. y \in Reading
    BY <1>1 DEF Reading, Steps
  <2>0. Becomes(r, y)
    BY <1>3 DEF GetFile, Ending
  <2>2. y.op = "get" /\ Shape(y)
    BY <1>1, <1>2 DEF Reading, Shape
  <2>3. ~ Still(s, x.commit, x.path)
    BY <1>1, <1>3, WhatIsGot
  <2>4. Getting(y, s)
    BY <1>1, <2>3 DEF Getting, Reading
  <2> HIDE DEF y
  <2> QED BY <1>1, <2>0, <2>1, <2>2, <2>4, Gets, ReadsOn
<1>4. CASE file[x.commit][x.path] # None
  <2> DEFINE y == [x EXCEPT !.step = "open"]
  <2>1. y \in Reading /\ Becomes(r, y)
    BY <1>1, <1>4 DEF Reading, Steps, GetFile
  <2>2. y.op = "get" /\ Shape(y)
    BY <1>1, <1>2 DEF Reading, Shape
  <2>3. Getting(y, s)
    BY <1>1 DEF Getting, Reading, ReaderInv
  <2> HIDE DEF y
  <2> QED BY <1>1, <2>1, <2>2, <2>3, Gets, ReadsOn
<1> QED BY <1>3, <1>4

LEMMA GetBodyReads ==
    ASSUME ReadersInv, NEW r \in Reader, GetBody(r)
    PROVE  ReadersInv'
<1> DEFINE x == read[r]
           s == since[r]
           body == file[x.commit][x.path]
<1>1. /\ x \in Reading /\ s \in Measure /\ ReaderInv(x, s) /\ StoreInv /\ TypeOK
      /\ x.op = "get" /\ x.step = "open" /\ OnlyReads(r)
  BY Facts DEF GetBody, At
<1>2. x.commit \in Commit /\ x.path \in Path /\ x.found = {}
  BY <1>1 DEF ReaderInv, Shape
<1>3. Still(s, x.commit, x.path) =>
        body # None /\ (body = x.manifest \/ (body = Torn /\ x.manifest \in Fetching))
  BY <1>1, WhatIsGot
<1>4. ASSUME NEW a \in {"headers", "error"}, Ending(r, a), a = "error" => body = None
      PROVE  ReadersInv'
  <2> DEFINE y == [x EXCEPT !.step = "ending", !.answer = a]
  <2>1. y \in Reading /\ Becomes(r, y)
    BY ZenonT(60), <1>1, <1>4 DEF Reading, Steps, Ending
  <2>2. y.op = "get" /\ Shape(y)
    BY <1>1, <1>2 DEF Reading, Shape
  <2>3. Getting(y, s)
    BY <1>1, <1>2, <1>3, <1>4 DEF Getting, Reading
  <2> HIDE DEF y
  <2> QED BY <1>1, <2>1, <2>2, <2>3, Gets, ReadsOn
<1>5. ASSUME body # None,
             Becomes(r, [x EXCEPT !.step = "ending", !.answer = "body", !.found = {body}])
      PROVE  ReadersInv'
  <2> DEFINE y == [x EXCEPT !.step = "ending", !.answer = "body", !.found = {body}]
  <2>1. body \in Writer \cup {Torn}
    BY <1>1, <1>2, <1>5 DEF TypeOK
  <2>2. y \in Reading
    BY ZenonT(60), <1>1, <2>1 DEF Reading, Steps
  <2>3. y.op = "get" /\ Shape(y)
    BY <1>1, <1>2 DEF Reading, Shape
  <2>4. Getting(y, s)
    BY <1>1, <1>3 DEF Getting, Reading
  <2>5. Becomes(r, y)
    BY <1>5
  <2> HIDE DEF y
  <2> QED BY <1>1, <2>2, <2>3, <2>4, <2>5, Gets, ReadsOn
<1> QED BY <1>4, <1>5 DEF GetBody

-----------------------------------------------------------------------------
(* Metadata.                                                               *)
LEMMA DescribeReads ==
    ASSUME ReadersInv, NEW r \in Reader,
           FindCommit(r) \/ FindComplete(r) \/ Describe(r)
    PROVE  ReadersInv'
<1> DEFINE x == read[r]
           s == since[r]
<1>1. /\ x \in Reading /\ s \in Measure /\ ReaderInv(x, s) /\ DirectoryInv
      /\ x.op = "describe" /\ x.step \in {"manifest", "complete", "files"} /\ OnlyReads(r)
  BY Facts DEF FindCommit, FindComplete, Describe, At
<1>2. x.commit \in Commit /\ HeldLasts(s)
  BY <1>1 DEF ReaderInv, Shape
<1>3. ASSUME NEW p, Still(s, x.commit, p)
      PROVE  p \in Listed(x.commit) /\ Published(x.commit) /\ x.commit \in directory
  <2>1. p \in Listed(x.commit) /\ Published(x.commit)
    BY <1>2, <1>3 DEF HeldLasts, Still, Listed
  <2> QED
    BY <1>1, <1>2, <2>1 DEF DirectoryInv, ManifestsHaveDirectory, Possible, Published
<1>4. ASSUME NEW a \in {"miss", "error"}, Ending(r, a), \A p : ~ Still(s, x.commit, p)
      PROVE  ReadersInv'
  <2> DEFINE y == [x EXCEPT !.step = "ending", !.answer = a]
  <2>1. y \in Reading /\ Becomes(r, y)
    BY ZenonT(60), <1>1, <1>4 DEF Reading, Steps, Ending
  <2>2. y.op = "describe" /\ Shape(y)
    BY <1>1, <1>2 DEF Reading, Shape
  <2>3. Describing(y, s)
    BY <1>1, <1>4 DEF Describing, Reading
  <2> HIDE DEF y
  <2> QED BY <1>1, <2>1, <2>2, <2>3, Describes, ReadsOn
<1>5. ASSUME NEW l \in {"complete", "files"}, Becomes(r, [x EXCEPT !.step = l])
      PROVE  ReadersInv'
  <2> DEFINE y == [x EXCEPT !.step = l]
  <2>1. y \in Reading /\ Becomes(r, y)
    BY <1>1, <1>5 DEF Reading, Steps
  <2>2. y.op = "describe" /\ Shape(y)
    BY <1>1, <1>2 DEF Reading, Shape
  <2>3. Describing(y, s)
    BY <1>1 DEF Describing, Reading
  <2> HIDE DEF y
  <2> QED BY <1>1, <2>1, <2>2, <2>3, Describes, ReadsOn
<1>6. ASSUME Becomes(r, [x EXCEPT !.step = "ending", !.answer = "files",
                                  !.kept = Listed(x.commit)])
      PROVE  ReadersInv'
  <2> DEFINE y == [x EXCEPT !.step = "ending", !.answer = "files",
                            !.kept = Listed(x.commit)]
  <2>1. Listed(x.commit) \subseteq Path
    BY DEF Listed
  <2>2. y \in Reading
    BY <1>1, <2>1 DEF Reading, Steps
  <2>3. Becomes(r, y)
    BY <1>6
  <2>4. y.op = "describe" /\ Shape(y)
    BY <1>1, <1>2 DEF Reading, Shape
  <2>5. Describing(y, s)
    BY <1>1, <1>3 DEF Describing, Reading
  <2> HIDE DEF y
  <2> QED BY <1>1, <2>2, <2>3, <2>4, <2>5, Describes, ReadsOn
<1> QED BY <1>3, <1>4, <1>5, <1>6 DEF FindCommit, FindComplete, Describe

-----------------------------------------------------------------------------
(* Walks.                                                                  *)
LEMMA ScanReads ==
    ASSUME ReadersInv, NEW r \in Reader, Scan(r)
    PROVE  ReadersInv'
<1> DEFINE x == read[r]
           s == since[r]
           y == [x EXCEPT !.step = "next", !.left = directory]
<1>1. /\ x \in Reading /\ s \in Measure /\ ReaderInv(x, s) /\ DirectoryInv /\ TypeOK
      /\ x.op \in {"audit", "check", "list"} /\ x.step = "scan" /\ OnlyReads(r)
      /\ Becomes(r, y)
  BY Facts DEF Scan, At
<1>2. directory \subseteq Commit
  BY <1>1 DEF TypeOK
<1>3. /\ y \in Reading /\ y.op = x.op /\ y.step = "next" /\ y.left = directory
      /\ y.kept = x.kept /\ y.found = x.found
  BY ZenonT(60), <1>1, <1>2 DEF Reading, Steps
<1>4. Shape(y)
  BY <1>1, <1>2, <1>3 DEF ReaderInv, Shape, Walking
<1>5. HeldLasts(s) /\ s.damage \subseteq Damage
  BY <1>1 DEF ReaderInv, Watching
<1>6. \A c \in Commit : Published(c) => c \in directory
  BY <1>1 DEF DirectoryInv, ManifestsHaveDirectory, Possible, Published
<1> HIDE DEF y
<1>7. CASE x.op \in {"list", "check"}
  <2>1. Keeping(y, s)
    <3>1. ASSUME NEW c \in Commit, NEW p \in Path, Still(s, c, p)
          PROVE  c \in directory
      BY <1>5, <1>6, <3>1 DEF HeldLasts, Still, Listed
    <3> QED BY <1>3, <3>1 DEF Keeping, Walking, Ahead, Visited
  <2>2. CASE x.op = "check"
    <3>1. \A f \in y.found : IsSo(f, s)
      BY <1>1, <1>3, <2>2 DEF ReaderInv, Checking
    <3>2. ASSUME NEW d \in s.damage, d[1] \in {"invalid_manifest", "missing_file"}
          PROVE  Reports(y, d)
      <4>1. d[2] \in directory
        BY <1>1, <1>5, <1>6, <3>2, DamageIs DEF Listed
      <4> QED BY <1>3, <4>1 DEF Reports, Walking
    <3>3. \A c \in Ahead(y) : Lasting(c) => Published(c)
      BY <1>1, <1>2, <1>3 DEF Ahead, DirectoryInv, DirectoriesArePublished
    <3>4. Checking(y, s)
      BY <1>3, <3>1, <3>2, <3>3 DEF Checking
    <3> QED BY <1>1, <1>3, <1>4, <2>1, <2>2, <3>4, Checks, ReadsOn
  <2>3. CASE x.op = "list"
    BY <1>1, <1>3, <1>4, <2>1, <2>3, Lists, ReadsOn
  <2> QED BY <1>7, <2>2, <2>3
<1>8. CASE x.op = "audit"
  <2>1. y.kept = {} /\ y.found = {}
    BY <1>1, <1>3, <1>8 DEF ReaderInv, Shape
  <2>2. Verifying(y, s)
    BY <1>3, <2>1 DEF Verifying
  <2> QED BY <1>1, <1>3, <1>4, <1>8, <2>2, Verifies, ReadsOn
<1> QED BY <1>1, <1>7, <1>8

LEMMA AdvanceReads ==
    ASSUME ReadersInv, NEW r \in Reader, Advance(r)
    PROVE  ReadersInv'
<1> DEFINE x == read[r]
           s == since[r]
<1>1. /\ x \in Reading /\ s \in Measure /\ ReaderInv(x, s)
      /\ x.op \in {"audit", "check", "list"} /\ x.step = "next" /\ OnlyReads(r)
  BY Facts DEF Advance, At
<1>2. x.left \subseteq Commit /\ Shape(x)
  BY <1>1 DEF ReaderInv, Shape, Walking
<1>3. ASSUME NEW c \in x.left,
             Becomes(r, [x EXCEPT !.step = "manifest", !.commit = c, !.left = @ \ {c}])
      PROVE  ReadersInv'
  <2> DEFINE y == [x EXCEPT !.step = "manifest", !.commit = c, !.left = @ \ {c}]
  <2>1. /\ y \in Reading /\ y.op = x.op /\ y.step = "manifest" /\ y.commit = c
        /\ y.left = x.left \ {c} /\ y.kept = x.kept /\ y.found = x.found
    BY ZenonT(60), <1>1, <1>2 DEF Reading, Steps
  <2>2. Shape(y)
    BY <1>1, <1>2, <2>1 DEF Shape, Walking
  <2>3. Becomes(r, y)
    BY <1>3
  <2> HIDE DEF y
  <2>4. Ahead(y) = Ahead(x)
    BY <1>1, <2>1 DEF Ahead
  <2>5. CASE x.op \in {"list", "check"}
    <3>1. Keeping(y, s)
      BY <1>1, <2>1, <2>4, <2>5 DEF ReaderInv, Keeping, Walking, Visited
    <3>2. CASE x.op = "check"
      <4>1. Checking(y, s)
        BY <1>1, <2>1, <2>4, <3>2 DEF ReaderInv, Checking, Walking, Reports
      <4> QED BY <1>1, <2>1, <2>2, <2>3, <3>1, <3>2, <4>1, Checks, ReadsOn
    <3>3. CASE x.op = "list"
      BY <1>1, <2>1, <2>2, <2>3, <3>1, <3>3, Lists, ReadsOn
    <3> QED BY <2>5, <3>2, <3>3
  <2>6. CASE x.op = "audit"
    <3>1. Verifying(y, s)
      BY <1>1, <2>1, <2>6 DEF ReaderInv, Verifying, Walking
    <3> QED BY <1>1, <2>1, <2>2, <2>3, <2>6, <3>1, Verifies, ReadsOn
  <2> QED BY <1>1, <2>5, <2>6
<1>4. ASSUME x.left = {}, x.op = "check",
             Becomes(r, [x EXCEPT !.step = "refs", !.commit = None, !.left = Ref])
      PROVE  ReadersInv'
  <2> DEFINE y == [x EXCEPT !.step = "refs", !.commit = None, !.left = Ref]
  <2>1. /\ y \in Reading /\ y.op = x.op /\ y.step = "refs" /\ y.left = Ref
        /\ y.kept = x.kept /\ y.found = x.found
    BY <1>1 DEF Reading, Steps
  <2>2. Shape(y)
    BY <1>2, <1>4, <2>1 DEF Shape, Walking
  <2>3. Becomes(r, y)
    BY <1>4
  <2> HIDE DEF y
  <2>4. Keeping(y, s)
    BY <1>1, <1>4, <2>1 DEF ReaderInv, Keeping, Walking, Visited, Ahead
  <2>5. Checking(y, s)
    BY <1>1, <1>4, <2>1 DEF ReaderInv, Checking, Walking, Reports
  <2> QED BY <1>1, <1>4, <2>1, <2>2, <2>3, <2>4, <2>5, Checks, ReadsOn
<1>5. ASSUME x.left = {}, x.op # "check", Ending(r, "done")
      PROVE  ReadersInv'
  <2> DEFINE y == [x EXCEPT !.step = "ending", !.answer = "done"]
  <2>1. /\ y \in Reading /\ y.op = x.op /\ y.step = "ending" /\ y.answer = "done"
        /\ y.kept = x.kept /\ y.found = x.found /\ y.left = {} /\ Becomes(r, y)
    BY ZenonT(60), <1>1, <1>5 DEF Reading, Steps, Ending
  <2>2. Shape(y)
    BY <1>1, <1>2, <1>5, <2>1 DEF Shape, Walking
  <2> HIDE DEF y
  <2>3. CASE x.op = "list"
    <3>1. Keeping(y, s)
      BY <1>1, <1>5, <2>1, <2>3 DEF ReaderInv, Keeping, Walking, Visited, Ahead
    <3> QED BY <1>1, <2>1, <2>2, <2>3, <3>1, Lists, ReadsOn
  <2>4. CASE x.op = "audit"
    <3>1. Verifying(y, s)
      BY <1>1, <2>1, <2>4 DEF ReaderInv, Verifying, Walking
    <3> QED BY <1>1, <2>1, <2>2, <2>4, <3>1, Verifies, ReadsOn
  <2> QED BY <1>1, <1>5, <2>3, <2>4
<1> QED BY ZenonT(60), <1>3, <1>4, <1>5 DEF Advance

(* A revision is done with.                                                *)
LEMMA PassedIs ==
    ASSUME NEW x \in Reading
    PROVE  LET y == Passed(x)
           IN /\ y \in Reading /\ y.op = x.op /\ y.commit = x.commit /\ y.left = x.left
              /\ y.kept = x.kept /\ y.found = x.found
              /\ Walks(x.op) => y.step = "next" /\ y.answer = x.answer
              /\ ~ Walks(x.op) => y.step = "ending"
<1>1. CASE Walks(x.op)
  <2>1. Passed(x) = [x EXCEPT !.step = "next", !.answer = @, !.manifest = None,
                              !.path = None, !.todo = {}]
    BY <1>1 DEF Passed
  <2> QED BY ZenonT(60), <1>1, <2>1 DEF Reading, Steps
<1>2. CASE ~ Walks(x.op)
  <2>1. Passed(x) = [x EXCEPT !.step = "ending", !.answer = "done", !.manifest = None,
                              !.path = None, !.todo = {}]
    BY <1>2 DEF Passed
  <2> QED BY ZenonT(60), <1>2, <2>1 DEF Reading, Steps
<1> QED BY <1>1, <1>2

LEMMA ListRevisionReads ==
    ASSUME ReadersInv, NEW r \in Reader, ListRevision(r)
    PROVE  ReadersInv'
<1> DEFINE x == read[r]
           s == since[r]
<1>1. /\ x \in Reading /\ s \in Measure /\ ReaderInv(x, s)
      /\ x.op = "list" /\ x.step = "manifest" /\ OnlyReads(r)
  BY Facts DEF ListRevision, At
<1>2. Shape(x) /\ x.commit \in Commit
  BY <1>1 DEF ReaderInv, Shape
<1>3. CASE Becomes(r, [Passed(x) EXCEPT !.kept = @ \cup {x.commit}])
  <2> DEFINE y == [Passed(x) EXCEPT !.kept = @ \cup {x.commit}]
  <2>1. /\ y \in Reading /\ y.op = x.op /\ y.left = x.left /\ y.step = "next"
        /\ y.kept = x.kept \cup {x.commit}
    BY <1>1, <1>2, PassedIs DEF Reading, Walks
  <2>2. Shape(y)
    BY <1>1, <1>2, <2>1 DEF Shape, Walking
  <2>3. Becomes(r, y)
    BY <1>3
  <2> HIDE DEF y
  <2>4. Keeping(y, s)
    BY <1>1, <2>1 DEF ReaderInv, Keeping, Walking, Visited, Ahead
  <2> QED BY <1>1, <2>1, <2>2, <2>3, <2>4, Lists, ReadsOn
<1>4. CASE Ending(r, "error")
  <2> DEFINE y == [x EXCEPT !.step = "ending", !.answer = "error"]
  <2>1. /\ y \in Reading /\ y.op = x.op /\ y.step = "ending" /\ y.answer = "error"
        /\ Becomes(r, y)
    BY ZenonT(60), <1>1, <1>4 DEF Reading, Steps, Ending
  <2>2. Shape(y)
    BY <1>1, <1>2, <2>1 DEF Shape, Walking
  <2> HIDE DEF y
  <2>3. Keeping(y, s)
    BY <1>1, <2>1 DEF Keeping, Walking, Visited
  <2> QED BY <1>1, <2>1, <2>2, <2>3, Lists, ReadsOn
<1> QED BY <1>3, <1>4 DEF ListRevision

-----------------------------------------------------------------------------
(* Verifications.                                                          *)
LEMMA VerdictKeeps ==
    ASSUME NEW x \in Reading, NEW s \in Measure, ReaderInv(x, s),
           x.op \in {"verify", "audit"}, x.step \in {"manifest", "files"},
           NEW k \in {{}, {x.commit}}, NEW f \in {{}, {x.commit}},
           k = {} \/ f = {},
           k # {} => \A d \in s.damage : d[2] # x.commit,
           f # {} => x.commit \notin s.quiet,
           NEW y \in Reading, y.op = x.op, y.left = x.left,
           y.kept = x.kept \cup k, y.found = x.found \cup f,
           y.step \in {"next", "ending"}, x.op = "verify" => y.step = "ending"
    PROVE  ReaderInv(y, s)
<1>1. Shape(x) /\ Verifying(x, s) /\ x.commit \in Commit
      /\ x.kept \subseteq Commit /\ x.found \subseteq Commit
  BY DEF ReaderInv, Shape
<1>2. Shape(y)
  BY <1>1 DEF Shape, Walking
<1>3. \A d \in s.damage : d[2] \notin y.kept
  BY <1>1 DEF Verifying
<1>4. y.found \cap s.quiet = {}
  BY <1>1 DEF Verifying
<1>5. x.commit \notin x.left \cup x.kept \cup x.found /\ x.kept \cap x.found = {}
      /\ (x.op = "audit" => x.left \cap (x.kept \cup x.found) = {})
  BY <1>1 DEF Verifying, Walking
<1>6. y.kept \cap y.found = {}
      /\ (y.op = "audit" => y.left \cap (y.kept \cup y.found) = {})
  BY <1>5
<1>7. Verifying(y, s)
  BY <1>3, <1>4, <1>6 DEF Verifying, Walking
<1> QED BY <1>2, <1>7, Verifies

LEMMA RejectsRightly ==
    ASSUME ReadersInv, NEW r \in Reader, read[r].op \in {"verify", "audit"},
           read[r].step \in {"manifest", "files"}, OnlyReads(r),
           read[r].commit \notin since[r].quiet,
           Becomes(r, [Passed(read[r]) EXCEPT !.found = @ \cup {read[r].commit}])
    PROVE  ReadersInv'
<1> DEFINE x == read[r]
           s == since[r]
<1>1. x \in Reading /\ s \in Measure /\ ReaderInv(x, s) /\ x.commit \in Commit
  BY Facts DEF ReaderInv, Shape
<1>2. PICK z : z = Passed(x)
  OBVIOUS
<1>3. /\ z \in Reading /\ z.op = x.op /\ z.left = x.left /\ z.kept = x.kept
      /\ z.found = x.found /\ z.step \in {"next", "ending"}
      /\ (x.op = "verify" => z.step = "ending")
  BY <1>1, <1>2, PassedIs DEF Walks
<1> DEFINE y == [z EXCEPT !.found = @ \cup {x.commit}]
<1>4. /\ y \in Reading /\ y.op = x.op /\ y.left = x.left /\ y.kept = x.kept \cup {}
      /\ y.found = x.found \cup {x.commit} /\ y.step = z.step
  BY <1>1, <1>3 DEF Reading
<1>5. Becomes(r, y)
  BY <1>2
<1> HIDE DEF y
<1>6. ReaderInv(y, s)
  BY <1>1, <1>3, <1>4, VerdictKeeps
<1> QED BY <1>4, <1>5, <1>6, ReadsOn

LEMMA PassesRightly ==
    ASSUME ReadersInv, NEW r \in Reader, read[r].op \in {"verify", "audit"},
           read[r].step \in {"manifest", "files"}, OnlyReads(r),
           \A d \in since[r].damage : d[2] # read[r].commit,
           Becomes(r, [Passed(read[r]) EXCEPT !.kept = @ \cup {read[r].commit}])
    PROVE  ReadersInv'
<1> DEFINE x == read[r]
           s == since[r]
<1>1. x \in Reading /\ s \in Measure /\ ReaderInv(x, s) /\ x.commit \in Commit
  BY Facts DEF ReaderInv, Shape
<1>2. PICK z : z = Passed(x)
  OBVIOUS
<1>3. /\ z \in Reading /\ z.op = x.op /\ z.left = x.left /\ z.kept = x.kept
      /\ z.found = x.found /\ z.step \in {"next", "ending"}
      /\ (x.op = "verify" => z.step = "ending")
  BY <1>1, <1>2, PassedIs DEF Walks
<1> DEFINE y == [z EXCEPT !.kept = @ \cup {x.commit}]
<1>4. /\ y \in Reading /\ y.op = x.op /\ y.left = x.left /\ y.found = x.found \cup {}
      /\ y.kept = x.kept \cup {x.commit} /\ y.step = z.step
  BY <1>1, <1>3 DEF Reading
<1>5. Becomes(r, y)
  BY <1>2
<1> HIDE DEF y
<1>6. ReaderInv(y, s)
  BY <1>1, <1>3, <1>4, VerdictKeeps
<1> QED BY <1>4, <1>5, <1>6, ReadsOn

LEMMA VerifyManifestReads ==
    ASSUME ReadersInv, NEW r \in Reader, VerifyManifest(r)
    PROVE  ReadersInv'
<1> DEFINE x == read[r]
           s == since[r]
           c == x.commit
<1>1. /\ x \in Reading /\ s \in Measure /\ ReaderInv(x, s) /\ TypeOK
      /\ x.op \in {"verify", "audit"} /\ x.step = "manifest" /\ OnlyReads(r)
  BY Facts DEF VerifyManifest, At
<1>2. /\ Shape(x) /\ c \in Commit /\ Verifying(x, s)
      /\ s.damage \subseteq Damage /\ s.quiet \subseteq Quiet
  BY <1>1 DEF ReaderInv, Shape, Watching
<1>3. CASE Published(c)
  <2> DEFINE y == [x EXCEPT !.step = "files", !.manifest = manifest[c], !.todo = Listed(c)]
  <2>1. manifest[c] \in Manifest /\ Listed(c) \subseteq Path
    BY <1>1, <1>2, <1>3 DEF TypeOK, Published, Listed
  <2>2. /\ y \in Reading /\ y.op = x.op /\ y.step = "files" /\ y.commit = c
        /\ y.left = x.left /\ y.kept = x.kept /\ y.found = x.found
        /\ y.manifest = manifest[c] /\ y.todo = Listed(c)
    BY ZenonT(60), <1>1, <2>1 DEF Reading, Steps
  <2>3. Shape(y)
    BY <1>1, <1>2, <2>1, <2>2 DEF Shape, Walking
  <2>4. Becomes(r, y)
    BY <1>3 DEF VerifyManifest
  <2> HIDE DEF y
  <2>5. \A p \in y.todo : y.manifest[p] # None
    BY <2>2 DEF Listed
  <2>6. ASSUME NEW d \in s.damage, d[2] = c
        PROVE  ToMeet(y, d)
    <3>1. d \in Damage
      BY <1>2
    <3>2. d[1] # "invalid_manifest"
      BY <1>1, <1>3, <2>6, <3>1, DamageIs
    <3>3. d[1] \in {"missing_file", "other_bytes"} => d[3] \in y.todo
      BY <1>1, <2>2, <2>6, <3>1, DamageIs
    <3>4. d[1] = "unlisted_file" => y.manifest[d[3]] = None
      BY <1>1, <1>3, <2>2, <2>6, <3>1, DamageIs DEF Listed
    <3> QED BY <3>2, <3>3, <3>4 DEF ToMeet
  <2>7. Verifying(y, s)
    BY <1>1, <1>2, <2>2, <2>5, <2>6 DEF Verifying, Walking
  <2> QED BY <1>1, <2>2, <2>3, <2>4, <2>7, Verifies, ReadsOn
<1>4. CASE ~ Published(c)
  <2>1. c \notin s.quiet
    BY <1>2, <1>4 DEF Quiet
  <2> QED BY <1>1, <1>4, <2>1, RejectsRightly DEF VerifyManifest
<1> QED BY <1>3, <1>4

(* What a verification of an undisturbed revision reads.                   *)
LEMMA QuietReads ==
    ASSUME NEW x \in Reading, NEW s \in Measure, ReaderInv(x, s),
           x.op \in {"verify", "audit"}, x.step = "files", x.commit \in s.quiet
    PROVE  /\ Published(x.commit) /\ x.commit \in Commit
           /\ file[x.commit] = x.manifest /\ manifest[x.commit] = x.manifest
BY DEF ReaderInv, Watching, Verifying, Quiet

LEMMA VerifyFileReads ==
    ASSUME ReadersInv, NEW r \in Reader, VerifyFile(r)
    PROVE  ReadersInv'
<1> DEFINE x == read[r]
           s == since[r]
           c == x.commit
<1>1. /\ x \in Reading /\ s \in Measure /\ ReaderInv(x, s) /\ TypeOK
      /\ x.op \in {"verify", "audit"} /\ x.step = "files" /\ OnlyReads(r)
  BY Facts DEF VerifyFile, At
<1>2. /\ Shape(x) /\ c \in Commit /\ Verifying(x, s) /\ x.manifest \in Manifest
      /\ s.damage \subseteq Damage
  BY <1>1 DEF ReaderInv, Shape, Watching
<1>3. PICK p \in x.todo :
        IF p \in Listed(c) /\ file[c][p] = x.manifest[p]
        THEN Becomes(r, [x EXCEPT !.todo = @ \ {p}])
        ELSE Becomes(r, [Passed(x) EXCEPT !.found = @ \cup {c}])
  BY DEF VerifyFile
<1>4. p \in Path /\ x.manifest[p] # None /\ x.manifest[p] \in Writer
  BY <1>1, <1>2 DEF Reading, Verifying, Manifest
<1>5. CASE p \in Listed(c) /\ file[c][p] = x.manifest[p]
  <2> DEFINE y == [x EXCEPT !.todo = @ \ {p}]
  <2>1. /\ y \in Reading /\ y.op = x.op /\ y.step = "files" /\ y.commit = c
        /\ y.left = x.left /\ y.kept = x.kept /\ y.found = x.found
        /\ y.manifest = x.manifest /\ y.todo = x.todo \ {p}
    BY <1>1 DEF Reading, Steps
  <2>2. Shape(y)
    BY <1>1, <1>2, <2>1 DEF Shape, Walking
  <2>3. Becomes(r, y)
    BY <1>3, <1>5
  <2> HIDE DEF y
  <2>4. ASSUME NEW d \in s.damage, d[2] = c
        PROVE  ToMeet(y, d)
    <3>1. ToMeet(x, d) /\ d \in Damage
      BY <1>1, <1>2, <2>4 DEF Verifying
    <3>2. d[1] \in {"missing_file", "other_bytes"} => d[3] # p
      BY <1>1, <1>4, <1>5, <2>4, <3>1, DamageIs, Constants
    <3> QED BY <2>1, <3>1, <3>2 DEF ToMeet
  <2>5. Verifying(y, s)
    BY <1>1, <1>2, <2>1, <2>4 DEF Verifying, Walking
  <2> QED BY <1>1, <2>1, <2>2, <2>3, <2>5, Verifies, ReadsOn
<1>6. CASE ~ (p \in Listed(c) /\ file[c][p] = x.manifest[p])
  <2>1. c \notin s.quiet
    BY <1>1, <1>4, <1>6, QuietReads DEF Listed
  <2>2. Becomes(r, [Passed(x) EXCEPT !.found = @ \cup {c}])
    BY <1>3, <1>6
  <2> QED BY <1>1, <2>1, <2>2, RejectsRightly
<1> QED BY <1>5, <1>6

LEMMA VerifySetReads ==
    ASSUME ReadersInv, NEW r \in Reader, VerifySet(r)
    PROVE  ReadersInv'
<1> DEFINE x == read[r]
           s == since[r]
           c == x.commit
           expected == {p \in Path : x.manifest[p] # None}
<1>1. /\ x \in Reading /\ s \in Measure /\ ReaderInv(x, s) /\ TypeOK /\ x.todo = {}
      /\ x.op \in {"verify", "audit"} /\ x.step = "files" /\ OnlyReads(r)
  BY Facts DEF VerifySet, At
<1>2. /\ Shape(x) /\ c \in Commit /\ Verifying(x, s) /\ s.damage \subseteq Damage
  BY <1>1 DEF ReaderInv, Shape, Watching
<1>3. CASE Actual(c) = expected
  <2>1. ASSUME NEW d \in s.damage, d[2] = c
        PROVE  FALSE
    <3>1. ToMeet(x, d) /\ d \in Damage
      BY <1>1, <1>2, <2>1 DEF Verifying
    <3>2. d[1] = "unlisted_file"
      BY <1>1, <3>1, DamageIs DEF ToMeet, Trouble
    <3>3. d[3] \in Actual(c) /\ d[3] \notin expected
      BY <1>1, <2>1, <3>1, <3>2, DamageIs DEF ToMeet, Actual
    <3> QED BY <1>3, <3>3
  <2>2. Becomes(r, [Passed(x) EXCEPT !.kept = @ \cup {c}])
    BY <1>3 DEF VerifySet
  <2> QED BY <1>1, <2>1, <2>2, PassesRightly
<1>4. CASE Actual(c) # expected
  <2>1. c \notin s.quiet
    BY <1>1, <1>4, QuietReads DEF Actual
  <2>2. Becomes(r, [Passed(x) EXCEPT !.found = @ \cup {c}])
    BY <1>4 DEF VerifySet
  <2> QED BY <1>1, <2>1, <2>2, RejectsRightly
<1> QED BY <1>3, <1>4

-----------------------------------------------------------------------------
(* The self-check.                                                         *)
LEMMA CheckManifestReads ==
    ASSUME ReadersInv, NEW r \in Reader, CheckManifest(r)
    PROVE  ReadersInv'
<1> DEFINE x == read[r]
           s == since[r]
           c == x.commit
<1>1. /\ x \in Reading /\ s \in Measure /\ ReaderInv(x, s) /\ TypeOK
      /\ x.op = "check" /\ x.step = "manifest" /\ OnlyReads(r)
  BY Facts DEF CheckManifest, At
<1>2. /\ Shape(x) /\ c \in Commit /\ Keeping(x, s) /\ Checking(x, s) /\ HeldLasts(s)
      /\ s.damage \subseteq Damage /\ x.found \subseteq Finding
  BY <1>1 DEF ReaderInv, Shape, Watching
<1>3. CASE Published(c)
  <2> DEFINE y == [x EXCEPT !.step = "files", !.todo = Listed(c)]
  <2>1. /\ y \in Reading /\ y.op = x.op /\ y.step = "files" /\ y.commit = c
        /\ y.left = x.left /\ y.kept = x.kept /\ y.found = x.found /\ y.todo = Listed(c)
    BY ZenonT(60), <1>1 DEF Reading, Steps, Listed
  <2>2. Shape(y)
    BY <1>1, <1>2, <2>1 DEF Shape, Walking
  <2>3. Becomes(r, y)
    BY <1>3 DEF CheckManifest
  <2> HIDE DEF x, y, s
  <2>4. Ahead(y) = Ahead(x)
    BY <1>1, <2>1 DEF Ahead
  <2>5. Keeping(y, s)
    BY <1>1, <1>2, <2>1, <2>4 DEF Keeping, Walking, Visited
  <2>6. ASSUME NEW d \in s.damage, d[1] \in {"invalid_manifest", "missing_file"}
        PROVE  Reports(y, d)
    <3>1. Reports(x, d) /\ d \in Damage
      BY <1>1, <1>2, <2>6 DEF Checking
    <3>2. CASE d[2] = c
      <4>1. d[1] = "missing_file" /\ d[3] \in y.todo
        BY <1>1, <1>3, <2>1, <2>6, <3>1, <3>2, DamageIs
      <4> QED BY <2>1, <3>2, <4>1 DEF Reports
    <3>3. CASE d[2] # c
      BY <1>1, <2>1, <3>1, <3>3 DEF Reports, Walking
    <3> QED BY <3>2, <3>3
  <2>7. Checking(y, s)
    <3>1. \A f \in y.found : IsSo(f, s)
      BY <1>1, <1>2, <2>1 DEF Checking
    <3>2. \A e \in Ahead(y) : Lasting(e) => Published(e)
      BY <1>1, <1>2, <2>4 DEF Checking, Walking
    <3>3. y.todo = Listed(y.commit)
      BY <2>1
    <3> QED BY <2>6, <3>1, <3>2, <3>3, Zenon DEF Checking
  <2> QED BY SMTT(60), <1>1, <2>1, <2>2, <2>3, <2>5, <2>7, Checks, ReadsOn DEF x, s
<1>4. CASE ~ Published(c)
  <2> DEFINE g == <<"invalid_manifest", c, None>>
             y == [Passed(x) EXCEPT !.found = @ \cup {g}]
  <2>1. g \in Finding
    BY <1>2 DEF Finding
  <2>2. /\ y \in Reading /\ y.op = x.op /\ y.step = "next" /\ y.left = x.left
        /\ y.kept = x.kept /\ y.found = x.found \cup {g}
    BY <1>1, <2>1, PassedIs DEF Reading, Walks
  <2>3. Shape(y)
    BY <1>1, <1>2, <2>1, <2>2 DEF Shape, Walking
  <2>4. Becomes(r, y)
    BY <1>4 DEF CheckManifest
  <2> HIDE DEF y
  <2>5. ~ Lasting(c)
    BY <1>1, <1>2, <1>4 DEF Checking, Walking, Ahead
  <2>6. IsSo(g, s)
    BY <2>5 DEF IsSo
  <2>7. Keeping(y, s)
    <3>1. \A p : ~ Still(s, c, p)
      BY <2>5 DEF Still
    <3> QED BY <1>1, <1>2, <2>2, <3>1 DEF Keeping, Walking, Visited, Ahead
  <2>8. ASSUME NEW d \in s.damage, d[1] \in {"invalid_manifest", "missing_file"}
        PROVE  Reports(y, d)
    <3>1. Reports(x, d) /\ d \in Damage
      BY <1>1, <1>2, <2>8 DEF Checking
    <3>2. CASE d[2] = c
      <4>1. d[1] = "invalid_manifest" /\ d[3] = None /\ d = <<d[1], d[2], d[3]>>
        BY <1>1, <1>4, <2>8, <3>1, <3>2, DamageIs DEF Listed
      <4>2. d = g
        BY <3>2, <4>1
      <4> QED BY <2>2, <4>2 DEF Reports
    <3>3. CASE d[2] # c
      BY <1>1, <2>2, <3>1, <3>3 DEF Reports, Walking
    <3> QED BY <3>2, <3>3
  <2>9. \A f \in y.found : IsSo(f, s)
    BY <1>1, <1>2, <2>2, <2>6 DEF Checking
  <2>10. \A e \in Ahead(y) : Lasting(e) => Published(e)
    BY <1>1, <1>2, <2>2 DEF Checking, Walking, Ahead
  <2>11. Checking(y, s)
    BY <2>2, <2>8, <2>9, <2>10 DEF Checking, Walking
  <2> QED BY <1>1, <2>2, <2>3, <2>4, <2>7, <2>11, Checks, ReadsOn
<1> QED BY <1>3, <1>4

(* The files still to be compared are listed, and so are they without one. *)
LEMMA TodoListed ==
    ASSUME NEW x, NEW y, NEW s, Checking(x, s), x.op = "check", x.step = "files",
           y.commit = x.commit, NEW p, y.todo = x.todo \ {p}
    PROVE  Lasting(y.commit) => y.todo \subseteq Listed(y.commit)
BY DEF Checking

LEMMA CheckOneFile ==
    ASSUME ReadersInv, NEW r \in Reader, read[r].op = "check", read[r].step = "files",
           OnlyReads(r), NEW p \in read[r].todo, NEW wrong \in SUBSET Finding,
           \A f \in wrong : IsSo(f, since[r]),
           file[read[r].commit][p] = None =>
               <<"missing_file", read[r].commit, p>> \in wrong,
           Becomes(r, [read[r] EXCEPT !.todo = @ \ {p}, !.found = @ \cup wrong])
    PROVE  ReadersInv'
<1> DEFINE x == read[r]
           s == since[r]
           c == x.commit
           y == [x EXCEPT !.todo = @ \ {p}, !.found = @ \cup wrong]
<1>1. x \in Reading /\ s \in Measure /\ ReaderInv(x, s) /\ TypeOK
  BY Facts
<1>2. /\ Shape(x) /\ Keeping(x, s) /\ Checking(x, s) /\ x.op = "check" /\ x.step = "files"
      /\ s.damage \subseteq Damage /\ x.found \subseteq Finding
  BY <1>1 DEF ReaderInv, Shape, Watching
<1>3. /\ y \in Reading /\ y.op = x.op /\ y.step = "files" /\ y.commit = c
      /\ y.left = x.left /\ y.kept = x.kept /\ y.found = x.found \cup wrong
      /\ y.todo = x.todo \ {p}
  BY ZenonT(60), <1>1 DEF Reading, Steps
<1>4. Shape(y)
  BY <1>2, <1>3 DEF Shape, Walking
<1>5. Becomes(r, y)
  OBVIOUS
<1>6. file[c][p] = None => <<"missing_file", c, p>> \in wrong
  OBVIOUS
<1>7. \A f \in wrong : IsSo(f, s)
  OBVIOUS
<1>8. p \in x.todo
  OBVIOUS
<1> HIDE DEF x, y, s
<1>9. Ahead(y) = Ahead(x)
  BY <1>2, <1>3 DEF Ahead
<1>10. Keeping(y, s)
  BY <1>2, <1>3, <1>9 DEF Keeping, Walking, Visited
<1>11. ASSUME NEW d \in s.damage, d[1] \in {"invalid_manifest", "missing_file"}
      PROVE  Reports(y, d)
  <2>1. Reports(x, d) /\ d \in Damage
    BY <1>2, <1>11 DEF Checking
  <2>2. CASE d[2] = c /\ d[1] = "missing_file" /\ d[3] = p
    <3>1. d = <<"missing_file", c, p>> /\ file[c][p] = None
      BY <1>1, <2>1, <2>2, DamageIs
    <3> QED BY <1>3, <1>6, <3>1 DEF Reports
  <2>3. CASE ~ (d[2] = c /\ d[1] = "missing_file" /\ d[3] = p)
    BY <1>2, <1>3, <2>1, <2>3 DEF Reports, Walking
  <2> QED BY <2>2, <2>3
<1>12. \A f \in y.found : IsSo(f, s)
  <2>1. \A f \in x.found : IsSo(f, s)
    BY <1>2 DEF Checking
  <2> QED BY <1>3, <1>7, <2>1
<1>13. Checking(y, s)
  <2>1. \A e \in Ahead(y) : Lasting(e) => Published(e)
    BY <1>2, <1>9 DEF Checking, Walking
  <2>2. Lasting(y.commit) => y.todo \subseteq Listed(y.commit)
    <3>1. y.todo = x.todo \ {p} /\ y.commit = x.commit
      BY SMTT(60), <1>3
    <3>2. Checking(x, s) /\ x.op = "check" /\ x.step = "files"
      BY SMTT(60), <1>2
    <3> QED BY <3>1, <3>2, TodoListed, Zenon
  <2> QED BY <1>11, <1>12, <2>1, <2>2, Zenon DEF Checking
<1> QED BY <1>1, <1>2, <1>3, <1>4, <1>5, <1>10, <1>13, Checks, ReadsOn DEF x, s

LEMMA CheckFileReads ==
    ASSUME ReadersInv, NEW r \in Reader, CheckFile(r)
    PROVE  ReadersInv'
<1> DEFINE x == read[r]
           s == since[r]
           c == x.commit
<1>1. /\ x \in Reading /\ s \in Measure /\ ReaderInv(x, s) /\ StoreInv
      /\ x.op = "check" /\ x.step = "files" /\ OnlyReads(r)
  BY Facts DEF CheckFile, At
<1>2. /\ Shape(x) /\ c \in Commit /\ Keeping(x, s) /\ Checking(x, s)
      /\ x.found \subseteq Finding /\ x.todo \subseteq Path
  BY SMTT(60), <1>1 DEF ReaderInv, Shape, Reading
<1>3. ASSUME NEW p \in x.todo, Lasting(c)
      PROVE  p \in Listed(c) /\ file[c][p] # None
  BY SMTT(60), <1>1, <1>2, <1>3, ListedFiles DEF Checking
<1>4. ASSUME NEW p \in x.todo, file[c][p] = None,
             Becomes(r, [x EXCEPT !.todo = @ \ {p},
                                  !.found = @ \cup {<<"missing_file", c, p>>}])
      PROVE  ReadersInv'
  <2> DEFINE g == <<"missing_file", c, p>>
  <2>1. {g} \in SUBSET Finding
    BY <1>2 DEF Finding
  <2>2. IsSo(g, s)
    BY SMTT(60), <1>3, <1>4 DEF IsSo
  <2> QED BY ZenonT(60), <1>1, <1>4, <2>1, <2>2, CheckOneFile
<1>5. ASSUME NEW p \in x.todo, file[c][p] = Torn,
             Becomes(r, [x EXCEPT !.todo = @ \ {p},
                                  !.found = @ \cup {<<"size_mismatch", c, p>>}])
      PROVE  ReadersInv'
  <2> DEFINE g == <<"size_mismatch", c, p>>
  <2>1. {g} \in SUBSET Finding
    BY <1>2 DEF Finding
  <2>2. IsSo(g, s)
    BY <1>3, <1>5 DEF IsSo
  <2>3. file[c][p] # None
    BY <1>5, Constants
  <2> QED BY ZenonT(60), <1>1, <1>5, <2>1, <2>2, <2>3, CheckOneFile
<1>6. ASSUME NEW p \in x.todo, file[c][p] # None,
             Becomes(r, [x EXCEPT !.todo = @ \ {p}, !.found = @ \cup {}])
      PROVE  ReadersInv'
  <2>1. {} \in SUBSET Finding /\ \A f \in {} : IsSo(f, s)
    OBVIOUS
  <2> QED BY <1>1, <1>6, <2>1, CheckOneFile
<1>7. ASSUME x.todo = {},
             Becomes(r, [Passed(x) EXCEPT !.kept = @ \cup {c}])
      PROVE  ReadersInv'
  <2> DEFINE y == [Passed(x) EXCEPT !.kept = @ \cup {c}]
  <2>1. /\ y \in Reading /\ y.op = x.op /\ y.step = "next" /\ y.left = x.left
        /\ y.kept = x.kept \cup {c} /\ y.found = x.found
    BY <1>1, <1>2, PassedIs DEF Reading, Walks
  <2>2. Shape(y)
    BY <1>1, <1>2, <2>1 DEF Shape, Walking
  <2>3. Becomes(r, y)
    BY <1>7
  <2> HIDE DEF x, y, s
  <2>4. Keeping(y, s)
    BY <1>1, <1>2, <2>1 DEF Keeping, Walking, Visited, Ahead
  <2>5. \A d \in s.damage :
           d[1] \in {"invalid_manifest", "missing_file"} => Reports(y, d)
    BY <1>1, <1>2, <1>7, <2>1 DEF Checking, Reports, Walking
  <2>6. \A e \in Ahead(y) : Lasting(e) => Published(e)
    BY <1>1, <1>2, <2>1 DEF Checking, Walking, Ahead
  <2>7. Checking(y, s)
    BY SMTT(60), <1>1, <1>2, <2>1, <2>5, <2>6 DEF Checking, Walking
  <2> QED BY <1>1, <2>1, <2>2, <2>3, <2>4, <2>7, Checks, ReadsOn DEF x, s
<1>8. \/ \E p \in x.todo :
            \/ file[c][p] = None /\ Becomes(r, [x EXCEPT !.todo = @ \ {p},
                                     !.found = @ \cup {<<"missing_file", c, p>>}])
            \/ file[c][p] = Torn /\ Becomes(r, [x EXCEPT !.todo = @ \ {p},
                                     !.found = @ \cup {<<"size_mismatch", c, p>>}])
            \/ file[c][p] # None /\ Becomes(r, [x EXCEPT !.todo = @ \ {p},
                                                         !.found = @ \cup {}])
      \/ x.todo = {} /\ Becomes(r, [Passed(x) EXCEPT !.kept = @ \cup {c}])
  <2> DEFINE Seen(p) == CASE file[c][p] = None -> {{<<"missing_file", c, p>>}}
                          [] file[c][p] = Torn -> {{}, {<<"size_mismatch", c, p>>}}
                          [] OTHER -> {{}}
  <2>1. \/ \E p \in x.todo : \E wrong \in Seen(p) :
               Becomes(r, [x EXCEPT !.todo = @ \ {p}, !.found = @ \cup wrong])
        \/ x.todo = {} /\ Becomes(r, [Passed(x) EXCEPT
                                        !.kept = IF Servable(x) THEN @ \cup {c} ELSE @])
    BY DEF CheckFile
  <2>2. CASE x.todo = {} /\ Becomes(r, [Passed(x) EXCEPT
                                        !.kept = IF Servable(x) THEN @ \cup {c} ELSE @])
    BY <2>2 DEF Servable
  <2>3. ASSUME NEW p \in x.todo, NEW wrong \in Seen(p),
               Becomes(r, [x EXCEPT !.todo = @ \ {p}, !.found = @ \cup wrong])
        PROVE  \/ file[c][p] = None /\ wrong = {<<"missing_file", c, p>>}
               \/ file[c][p] = Torn /\ wrong = {<<"size_mismatch", c, p>>}
               \/ file[c][p] # None /\ wrong = {}
    BY <2>3, Constants
  <2> HIDE DEF Seen
  <2> QED BY ZenonT(60), <2>1, <2>2, <2>3
<1> QED BY ZenonT(60), <1>4, <1>5, <1>6, <1>7, <1>8

LEMMA ReadRefReads ==
    ASSUME ReadersInv, NEW r \in Reader, ReadRef(r)
    PROVE  ReadersInv'
<1> DEFINE x == read[r]
           s == since[r]
<1>1. /\ x \in Reading /\ s \in Measure /\ ReaderInv(x, s) /\ TypeOK
      /\ x.op \in {"list", "check"} /\ x.step = "refs" /\ OnlyReads(r)
  BY Facts DEF ReadRef, At
<1>2. Shape(x) /\ Keeping(x, s) /\ Checking(x, s) /\ x.left \subseteq Ref
      /\ (x.op = "check" => x.found \subseteq Finding)
  BY <1>1 DEF ReaderInv, Shape
<1>3. PICK n \in x.left :
        LET c == ref[n]
            bad == x.op = "check" /\ c # None /\ c \notin x.kept
        IN Becomes(r, [x EXCEPT !.left = @ \ {n},
               !.found = CASE bad -> @ \cup {<<"dangling_ref", n, c>>}
                           [] x.op = "list" /\ c # None -> @ \cup {c}
                           [] OTHER -> @])
  BY DEF ReadRef
<1> DEFINE c == ref[n]
<1>4. c \in Commit \cup {None} /\ n \in Ref
  BY <1>1, <1>2 DEF TypeOK
<1>5. ASSUME NEW g, Becomes(r, [x EXCEPT !.left = @ \ {n}, !.found = g]),
             g = x.found \/ (x.op = "list" /\ c # None /\ g = x.found \cup {c})
               \/ (/\ x.op = "check" /\ c # None /\ c \notin x.kept
                   /\ g = x.found \cup {<<"dangling_ref", n, c>>})
      PROVE  ReadersInv'
  <2> DEFINE y == [x EXCEPT !.left = @ \ {n}, !.found = g]
  <2>1. g \subseteq Finding \cup Commit \cup Writer \cup {Torn}
        /\ (x.op = "check" => g \subseteq Finding)
    BY <1>1, <1>2, <1>4, <1>5 DEF Reading, Finding
  <2>2. /\ y \in Reading /\ y.op = x.op /\ y.step = "refs" /\ y.left = x.left \ {n}
        /\ y.kept = x.kept /\ y.found = g
    BY ZenonT(60), <1>1, <2>1 DEF Reading, Steps
  <2>3. Shape(y)
    BY <1>1, <1>2, <2>1, <2>2 DEF Shape, Walking
  <2>4. Becomes(r, y)
    BY <1>5
  <2> HIDE DEF y
  <2>5. Keeping(y, s)
    BY <1>1, <1>2, <2>2 DEF Keeping, Walking, Visited
  <2>6. CASE x.op = "check"
    <3>1. ASSUME NEW f \in g
          PROVE  IsSo(f, s)
      <4>1. CASE f \in x.found
        BY <1>2, <2>6, <4>1 DEF Checking
      <4>2. CASE c # None /\ c \notin x.kept /\ f = <<"dangling_ref", n, c>>
        <5>1. c \in Commit
          BY <1>4, <4>2
        <5>2. \A p \in Path : ~ Still(s, c, p)
          BY <1>1, <1>2, <2>6, <4>2, <5>1 DEF Keeping, Visited
        <5> QED BY <4>2, <5>2 DEF IsSo
      <4> QED BY <1>5, <2>6, <3>1, <4>1, <4>2
    <3>2. \A d \in s.damage :
             d[1] \in {"invalid_manifest", "missing_file"} => Reports(y, d)
      BY <1>1, <1>2, <1>5, <2>2, <2>6 DEF Checking, Reports, Walking
    <3>3. Checking(y, s)
      BY <2>2, <3>1, <3>2 DEF Checking, Walking
    <3> QED BY <1>1, <2>2, <2>3, <2>4, <2>5, <2>6, <3>3, Checks, ReadsOn
  <2>7. CASE x.op = "list"
    BY <1>1, <2>2, <2>3, <2>4, <2>5, <2>7, Lists, ReadsOn
  <2> QED BY <1>1, <2>6, <2>7
<1> DEFINE bad == x.op = "check" /\ c # None /\ c \notin x.kept
           g == CASE bad -> x.found \cup {<<"dangling_ref", n, c>>}
                  [] x.op = "list" /\ c # None -> x.found \cup {c}
                  [] OTHER -> x.found
<1>6. Becomes(r, [x EXCEPT !.left = @ \ {n}, !.found = g])
  BY <1>3
<1>7. g = x.found \/ (x.op = "list" /\ c # None /\ g = x.found \cup {c})
        \/ (/\ x.op = "check" /\ c # None /\ c \notin x.kept
            /\ g = x.found \cup {<<"dangling_ref", n, c>>})
  BY <1>1
<1> HIDE DEF g
<1> QED BY <1>5, <1>6, <1>7

LEMMA RefsReadReads ==
    ASSUME ReadersInv, NEW r \in Reader, RefsRead(r)
    PROVE  ReadersInv'
<1> DEFINE x == read[r]
           s == since[r]
<1>1. /\ x \in Reading /\ s \in Measure /\ ReaderInv(x, s)
      /\ x.op \in {"list", "check"} /\ x.step = "refs" /\ OnlyReads(r)
  BY Facts DEF RefsRead, At
<1>2. Shape(x) /\ Keeping(x, s) /\ Checking(x, s)
  BY <1>1 DEF ReaderInv
<1>3. CASE x.op = "list"
  <2> DEFINE y == [x EXCEPT !.step = "scan"]
  <2>1. y \in Reading /\ y.op = x.op /\ y.step = "scan"
    BY <1>1 DEF Reading, Steps
  <2>2. Shape(y) /\ Keeping(y, s)
    BY <1>2, <1>3, <2>1 DEF Shape, Keeping, Walking, Visited
  <2>3. Becomes(r, y)
    BY <1>3 DEF RefsRead
  <2> HIDE DEF y
  <2> QED BY <1>1, <1>3, <2>1, <2>2, <2>3, Lists, ReadsOn
<1>4. CASE x.op = "check"
  <2> DEFINE y == [x EXCEPT !.step = "ending", !.answer = "done"]
  <2>1. /\ y \in Reading /\ y.op = x.op /\ y.step = "ending"
        /\ y.kept = x.kept /\ y.found = x.found
    BY ZenonT(60), <1>1 DEF Reading, Steps
  <2>2. Shape(y)
    BY <1>2, <1>4, <2>1 DEF Shape, Walking
  <2>3. Becomes(r, y)
    BY <1>4 DEF RefsRead, Ending
  <2> HIDE DEF y
  <2>4. Keeping(y, s)
    BY <1>1, <1>2, <1>4, <2>1 DEF Keeping, Walking, Visited
  <2>5. Checking(y, s)
    BY <1>1, <1>2, <1>4, <2>1 DEF Checking, Walking, Reports
  <2> QED BY <1>1, <1>4, <2>1, <2>2, <2>3, <2>4, <2>5, Checks, ReadsOn
<1> QED BY <1>1, <1>3, <1>4

-----------------------------------------------------------------------------
(* Beginnings and ends.                                                    *)
LEMMA BegunIs ==
    ASSUME TypeOK, NEW op
    PROVE  /\ Begun(op) \in Measure /\ HeldLasts(Begun(op))
           /\ Begun(op).damage \subseteq Damage /\ Begun(op).quiet \subseteq Quiet
<1>1. Held \subseteq Commit \X Path
  BY DEF Held
<1>2. Damage \subseteq Trouble
  BY DamageIs
<1>3. Quiet \subseteq Commit
  BY DEF Quiet
<1>4. \A h \in Held : h[2] \in Listed(h[1])
  BY DEF Held
<1> QED BY <1>1, <1>2, <1>3, <1>4 DEF Begun, Measure, HeldLasts

(* Every reader begins with nothing found, as far as its first step.       *)
LEMMA StartsReading ==
    ASSUME ReadersInv, NEW r \in Reader, NEW y \in Reading, Starts(r, y), Shape(y),
           y.kept = {}, y.found = {}, y.left \cap Commit = {},
           \/ y.op = "get" /\ y.step \in {"resolve", "manifest"}
           \/ y.op = "describe" /\ y.step = "manifest"
           \/ y.op = "list" /\ y.step = "refs"
           \/ y.op = "verify" /\ y.step = "manifest" /\ y.left = {}
           \/ y.op \in {"audit", "check"} /\ y.step = "scan"
    PROVE  ReadersInv'
<1> DEFINE t == Begun(y.op)
<1>1. TypeOK
  BY Facts
<1>2. /\ t \in Measure /\ HeldLasts(t)
      /\ t.damage \subseteq Damage /\ t.quiet \subseteq Quiet
  BY <1>1, BegunIs
<1> HIDE DEF t
<1>3. Watching(y, t) /\ Getting(y, t) /\ Describing(y, t)
  BY <1>2 DEF Watching, Getting, Describing
<1>4. Keeping(y, t)
  BY DEF Keeping, Walking, Visited
<1>5. Verifying(y, t)
  BY DEF Verifying, Walking
<1>6. Checking(y, t)
  BY SMTT(60) DEF Checking, Reports, Walking
<1>7. ReaderInv(y, t)
  BY <1>2, <1>3, <1>4, <1>5, <1>6 DEF ReaderInv
<1> QED BY ZenonT(60), <1>2, <1>7, OneReader DEF Starts, Becomes, t

LEMMA AskReads ==
    ASSUME ReadersInv, NEW r \in Reader,
           \/ AskFile(r) \/ AskMetadata(r) \/ AskVerify(r)
           \/ AskAudit(r) \/ AskInventory(r) \/ AskCheck(r)
    PROVE  ReadersInv'
<1>1. Idle \in Reading /\ Idle.left = {} /\ Idle.kept = {} /\ Idle.found = {}
  BY DEF Idle, Reading, Steps
<1>2. CASE AskFile(r)
  <2>1. PICK v \in Ref \cup Commit, p \in Path :
          Starts(r, [Idle EXCEPT !.op = "get", !.commit = v, !.path = p,
                                 !.step = IF v \in Ref THEN "resolve" ELSE "manifest"])
    BY <1>2 DEF AskFile
  <2> DEFINE y == [Idle EXCEPT !.op = "get", !.commit = v, !.path = p,
                               !.step = IF v \in Ref THEN "resolve" ELSE "manifest"]
  <2>2. /\ y \in Reading /\ y.op = "get" /\ y.kept = {} /\ y.found = {} /\ y.left = {}
        /\ y.path = p /\ y.commit = v
        /\ y.step = IF v \in Ref THEN "resolve" ELSE "manifest"
    <3>1. (IF v \in Ref THEN "resolve" ELSE "manifest") \in Steps
      BY DEF Steps
    <3> QED BY ZenonT(60), <1>1, <3>1 DEF Reading
  <2>3. Shape(y)
    BY <2>2 DEF Shape
  <2>4. Starts(r, y)
    BY <2>1
  <2> HIDE DEF y
  <2> QED BY <2>2, <2>3, <2>4, StartsReading
<1>3. ASSUME NEW op \in {"describe", "verify"}, NEW c \in Commit,
             Starts(r, [Idle EXCEPT !.op = op, !.commit = c, !.step = "manifest"])
      PROVE  ReadersInv'
  <2> DEFINE y == [Idle EXCEPT !.op = op, !.commit = c, !.step = "manifest"]
  <2>1. /\ y \in Reading /\ y.op = op /\ y.kept = {} /\ y.found = {} /\ y.left = {}
        /\ y.commit = c /\ y.step = "manifest"
    BY ZenonT(60), <1>1 DEF Reading, Steps
  <2>2. Shape(y)
    BY <2>1 DEF Shape, Walking
  <2>3. Starts(r, y)
    BY <1>3
  <2> HIDE DEF y
  <2> QED BY <2>1, <2>2, <2>3, StartsReading
<1>4. ASSUME NEW op \in {"audit", "check"},
             Starts(r, [Idle EXCEPT !.op = op, !.step = "scan"])
      PROVE  ReadersInv'
  <2> DEFINE y == [Idle EXCEPT !.op = op, !.step = "scan"]
  <2>1. /\ y \in Reading /\ y.op = op /\ y.kept = {} /\ y.found = {} /\ y.left = {}
        /\ y.step = "scan"
    BY ZenonT(60), <1>1 DEF Reading, Steps
  <2>2. Shape(y)
    BY <2>1 DEF Shape, Walking
  <2>3. Starts(r, y)
    BY <1>4
  <2> HIDE DEF y
  <2> QED BY <2>1, <2>2, <2>3, StartsReading
<1>5. CASE AskInventory(r)
  <2> DEFINE y == [Idle EXCEPT !.op = "list", !.step = "refs", !.left = Ref]
  <2>1. /\ y \in Reading /\ y.op = "list" /\ y.kept = {} /\ y.found = {} /\ y.left = Ref
        /\ y.step = "refs"
    BY ZenonT(60), <1>1 DEF Reading, Steps
  <2>2. Shape(y)
    BY <2>1 DEF Shape, Walking
  <2>3. Starts(r, y)
    BY <1>5 DEF AskInventory
  <2> HIDE DEF y
  <2> QED BY <2>1, <2>2, <2>3, StartsReading, ReaderAssumption
<1> QED
  BY <1>2, <1>3, <1>4, <1>5 DEF AskMetadata, AskVerify, AskAudit, AskCheck

(* Who has ended, or has not begun, has nothing to keep.                   *)
LEMMA NothingToServe ==
    ASSUME NEW y, y.op = "none", y.step \in {"idle", "ended"}
    PROVE  ReaderInv(y, Nothing)
<1>1. Shape(y)
  BY DEF Shape, Walking
<1>2. Watching(y, Nothing) /\ HeldLasts(Nothing)
  BY DEF Watching, HeldLasts, Nothing
<1> QED
  BY <1>1, <1>2 DEF ReaderInv, Getting, Describing, Keeping, Verifying, Checking

LEMMA EndedIs ==
    /\ Idle \in Reading /\ Idle.op = "none" /\ Idle.step = "idle"
    /\ LET y == [Idle EXCEPT !.step = "ended"]
       IN y \in Reading /\ y.op = "none" /\ y.step = "ended"
    /\ Nothing \in Measure
BY DEF Idle, Reading, Steps, Nothing, Measure

LEMMA AnswerReads ==
    ASSUME ReadersInv, NEW r \in Reader, Answer(r)
    PROVE  ReadersInv'
<1> DEFINE y == [Idle EXCEPT !.step = "ended"]
<1>1. y \in Reading /\ y.op = "none" /\ y.step = "ended" /\ Nothing \in Measure
  BY EndedIs
<1>2. Becomes(r, y) /\ since' = [since EXCEPT ![r] = Nothing] /\ UNCHANGED vars
  BY DEF Answer
<1> HIDE DEF y
<1>3. ReaderInv(y, Nothing)
  BY <1>1, NothingToServe
<1> QED BY <1>1, <1>2, <1>3, OneReader DEF Becomes

-----------------------------------------------------------------------------
(* The store goes on under the readers.                                    *)
LEMMA HistoryGoesOn ==
    ASSUME ReadTyped, Observed, UNCHANGED read, NEW r \in Reader
    PROVE  /\ since'[r] \in Measure /\ since'[r].held = since[r].held
           /\ since'[r].damage \subseteq since[r].damage
           /\ since'[r].quiet \subseteq since[r].quiet
           /\ read[r].step # "ending" =>
                since'[r].damage \subseteq Damage' /\ since'[r].quiet \subseteq Quiet'
<1>1. since[r] \in Measure
  BY DEF ReadTyped
<1>2. CASE read[r].step = "ending"
  BY ZenonT(60), <1>1, <1>2 DEF Observed
<1>3. CASE read[r].step # "ending"
  <2>1. since'[r] = [since[r] EXCEPT !.damage = @ \cap Damage', !.quiet = @ \cap Quiet']
    BY <1>3 DEF Observed
  <2> QED BY ZenonT(60), <1>1, <2>1 DEF Measure
<1> QED BY <1>2, <1>3

LEMMA ReaderUndisturbed ==
    ASSUME NEW x \in Reading, NEW s \in Measure, NEW t \in Measure,
           ReaderInv(x, s), TypeOK, GoesOn,
           t.held = s.held, t.damage \subseteq s.damage, t.quiet \subseteq s.quiet,
           x.step # "ending" => t.damage \subseteq Damage' /\ t.quiet \subseteq Quiet'
    PROVE  ReaderInv(x, t)'
<1>1. /\ \A c : Lasting(c)' => Lasting(c)
      /\ \A c, p : Still(t, c, p)' => Still(s, c, p) /\ Lasting(c)'
  BY DEF GoesOn, Lasting, Still
<1>2. ASSUME NEW c, Lasting(c)', Published(c)
      PROVE  Published(c)' /\ Listed(c) \subseteq Listed(c)'
  BY <1>2 DEF GoesOn, Persists, Lasting
<1>3. Shape(x)' /\ Watching(x, t)'
  BY DEF ReaderInv, Shape, Walking, Finding, Watching
<1>4. HeldLasts(t)'
  BY <1>1, <1>2 DEF ReaderInv, HeldLasts, Listed
<1>5. Getting(x, t)'
  <2> SUFFICES ASSUME x.op = "get", Still(t, x.commit, x.path)'
               PROVE  /\ x.step \in {"file", "open"} =>
                           x.manifest = manifest'[x.commit][x.path]
                      /\ x.step = "ending" =>
                           /\ x.answer \in {"headers", "body"}
                           /\ x.found \subseteq {x.manifest} \cup
                                  (IF x.manifest \in Fetching THEN {Torn} ELSE {})
    BY DEF Getting
  <2>1. Still(s, x.commit, x.path) /\ Lasting(x.commit)' /\ Getting(x, s)
    BY <1>1 DEF ReaderInv
  <2>2. x.path \in Listed(x.commit) /\ Published(x.commit)
    BY <2>1 DEF ReaderInv, HeldLasts, Still, Listed
  <2>3. manifest'[x.commit][x.path] = manifest[x.commit][x.path]
    BY <2>1, <2>2 DEF GoesOn, Persists, Lasting
  <2> QED BY <2>1, <2>3 DEF Getting
<1>6. Describing(x, t)' /\ Keeping(x, t)'
  BY <1>1 DEF ReaderInv, Describing, Keeping, Walking, Visited, Ahead
<1>7. Verifying(x, t)'
  <2> SUFFICES ASSUME x.op \in {"verify", "audit"}, Verifying(x, s)
               PROVE  Verifying(x, t)'
    BY DEF Verifying, ReaderInv
  <2>1. ASSUME x.step = "files", x.commit \in t.quiet
        PROVE  x.manifest = manifest'[x.commit]
    <3>1. x.commit \in Commit /\ x.commit \in Quiet /\ x.commit \in Quiet'
          /\ x.manifest = manifest[x.commit]
      BY <2>1 DEF ReaderInv, Watching, Verifying, Shape
    <3> QED BY <3>1 DEF GoesOn, Undisturbed
  <2> QED BY <2>1 DEF Verifying, Walking, ToMeet
<1>8. Checking(x, t)'
  <2> SUFFICES ASSUME x.op = "check", Checking(x, s)
               PROVE  Checking(x, t)'
    BY DEF Checking, ReaderInv
  <2>1. ASSUME NEW f \in x.found
        PROVE  IsSo(f, t)'
    <3>1. IsSo(f, s) /\ f \in Finding
      BY <2>1 DEF Checking, ReaderInv, Shape
    <3>2. CASE f[1] \in {"invalid_manifest", "missing_file"}
      BY <1>1, <3>1, <3>2 DEF IsSo
    <3>3. CASE f[1] = "dangling_ref"
      BY <1>1, <3>1, <3>3 DEF IsSo
    <3>4. CASE f[1] \notin {"invalid_manifest", "missing_file", "dangling_ref"}
      <4>1. ASSUME Lasting(f[2])'
            PROVE  f[3] \in Listed(f[2])' /\ file'[f[2]][f[3]] = Torn
        <5>1. f[3] \in Listed(f[2]) /\ file[f[2]][f[3]] = Torn /\ Published(f[2])
              /\ f[2] \in Commit
          BY <1>1, <3>1, <3>4, <4>1 DEF IsSo, Listed, Lasting
        <5> QED BY <4>1, <5>1 DEF GoesOn, Persists
      <4> QED BY <3>4, <4>1 DEF IsSo
    <3> QED BY <3>2, <3>3, <3>4
  <2>2. ASSUME Walking(x), NEW c \in Ahead(x), Lasting(c)'
        PROVE  Published(c)'
    BY <1>1, <1>2, <2>2 DEF Checking
  <2>3. ASSUME x.step = "files", Lasting(x.commit)'
        PROVE  x.todo \subseteq Listed(x.commit)'
    <3>1. x.todo \subseteq Listed(x.commit)
      BY <1>1, <2>3 DEF Checking
    <3>2. Published(x.commit)
      BY <1>1, <2>3 DEF Checking, Walking, Ahead
    <3> QED BY <1>2, <2>3, <3>1, <3>2
  <2>4. \A d \in t.damage :
          d[1] \in {"invalid_manifest", "missing_file"} => Reports(x, d)
    BY DEF Checking
  <2> QED
    BY <2>1, <2>2, <2>3, <2>4 DEF Checking, Walking, Ahead, Reports
<1> QED BY <1>3, <1>4, <1>5, <1>6, <1>7, <1>8 DEF ReaderInv

LEMMA StoreStepReads ==
    ASSUME ReadersInv, StoreStep
    PROVE  ReadersInv'
<1>1. StoreInv /\ DirectoryInv /\ TypeOK /\ ReadTyped /\ Next /\ Observed /\ UNCHANGED read
  BY DEF ReadersInv, StoreInv, StoreStep, Next
<1>2. StoreInv' /\ DirectoryInv' /\ GoesOn
  BY SMTT(60), <1>1, StepKeeps, StepDirectories, StoreGoesOn DEF StoreStep
<1>3. since' \in [Reader -> Measure]
  BY <1>1, HistoryGoesOn DEF Observed
<1>4. ReadTyped'
  BY <1>1, <1>3 DEF ReadTyped
<1>5. ASSUME NEW r \in Reader
      PROVE  ReaderInv(read[r], since[r])'
  <2>1. PICK x \in Reading, s \in Measure, t \in Measure :
          x = read[r] /\ s = since[r] /\ t = since'[r]
    BY <1>1, <1>3 DEF ReadTyped
  <2>2. ReaderInv(x, t)'
    BY <1>1, <1>2, <2>1, HistoryGoesOn, ReaderUndisturbed DEF ReadersInv
  <2>3. read'[r] = x
    BY <1>1, <2>1
  <2> QED BY <2>1, <2>2, <2>3
<1> QED BY <1>2, <1>4, <1>5 DEF ReadersInv

LEMMA BlackoutReads ==
    ASSUME ReadersInv, Blackout
    PROVE  ReadersInv'
<1>1. StoreInv' /\ DirectoryInv'
  BY StepKeeps, StepDirectories DEF ReadersInv, Blackout, Next
<1>2. ASSUME NEW r \in Reader
      PROVE  /\ read'[r] \in Reading /\ since'[r] = Nothing
             /\ read'[r].op = "none" /\ read'[r].step \in {"idle", "ended"}
  BY EndedIs DEF Blackout
<1>3. ReadTyped'
  BY <1>2, EndedIs DEF Blackout, ReadTyped
<1>4. ASSUME NEW r \in Reader
      PROVE  ReaderInv(read[r], since[r])'
  <2>1. PICK y : y = read'[r]
    OBVIOUS
  <2>2. ReaderInv(y, Nothing)'
    <3>1. y.op = "none" /\ y.step \in {"idle", "ended"}
      BY <1>2, <2>1
    <3>2. Shape(y)'
      BY <3>1 DEF Shape, Walking
    <3>3. Watching(y, Nothing)' /\ HeldLasts(Nothing)'
      BY DEF Watching, HeldLasts, Nothing
    <3> QED
      BY <3>1, <3>2, <3>3 DEF ReaderInv, Getting, Describing, Keeping, Verifying,
         Checking
  <2> QED BY <1>2, <2>1, <2>2
<1> QED BY <1>1, <1>3, <1>4 DEF ReadersInv

-----------------------------------------------------------------------------
LEMMA InitReads == InitReaders => ReadersInv
<1> SUFFICES ASSUME InitReaders PROVE ReadersInv
  OBVIOUS
<1>1. StoreInv
  BY InitKeeps DEF InitReaders
<1>2. DirectoryInv
  BY DEF InitReaders, Init, DirectoryInv, ManifestsHaveDirectory,
     DirectoriesArePublished, Possible
<1>3. ReadTyped
  BY EndedIs DEF InitReaders, ReadTyped
<1>4. \A r \in Reader : ReaderInv(read[r], since[r])
  BY EndedIs, NothingToServe DEF InitReaders
<1> QED BY <1>1, <1>2, <1>3, <1>4 DEF ReadersInv

LEMMA StepReads == ReadersInv /\ [NextReaders]_<<vars, readers>> => ReadersInv'
<1> SUFFICES ASSUME ReadersInv, [NextReaders]_<<vars, readers>> PROVE ReadersInv'
  OBVIOUS
<1>1. CASE UNCHANGED <<vars, readers>>
  <2>1. StoreInv' /\ DirectoryInv' /\ ReadTyped'
    BY <1>1, StepKeeps, DirectoriesAlone DEF ReadersInv, ReadTyped, readers, vars
  <2>2. ASSUME NEW r \in Reader
        PROVE  ReaderInv(read[r], since[r])'
    <3>1. PICK x, s : x = read[r] /\ s = since[r]
      OBVIOUS
    <3>2. ReaderInv(x, s)'
      BY <1>1, <3>1, StoreUntouched DEF ReadersInv
    <3> QED BY <1>1, <3>1, <3>2 DEF readers
  <2> QED BY <2>1, <2>2 DEF ReadersInv
<1>2. ASSUME NEW r \in Reader,
             \/ Resolve(r) \/ GetManifest(r) \/ GetFile(r) \/ GetBody(r)
             \/ FindCommit(r) \/ FindComplete(r) \/ Describe(r)
      PROVE  ReadersInv'
  BY <1>2, ResolveReads, GetManifestReads, GetFileReads, GetBodyReads, DescribeReads
<1>3. ASSUME NEW r \in Reader,
             \/ Scan(r) \/ Advance(r) \/ ListRevision(r) \/ ReadRef(r) \/ RefsRead(r)
             \/ VerifyManifest(r) \/ VerifyFile(r) \/ VerifySet(r)
             \/ CheckManifest(r) \/ CheckFile(r)
      PROVE  ReadersInv'
  BY <1>3, ScanReads, AdvanceReads, ListRevisionReads, ReadRefReads, RefsReadReads,
     VerifyManifestReads, VerifyFileReads, VerifySetReads, CheckManifestReads,
     CheckFileReads
<1>4. CASE NextReaders
  BY <1>2, <1>3, <1>4, StoreStepReads, BlackoutReads, AskReads, AnswerReads
     DEF NextReaders
<1> QED BY <1>1, <1>4

(* The strengthened invariant holds whatever the store does under the      *)
(* readers.                                                                *)
THEOREM ReadersInvariant == SpecReaders => []ReadersInv
BY InitReads, StepReads, PTL DEF SpecReaders

(* What the readers hold is always of its type, and no verification both   *)
(* passes and rejects a revision.                                          *)
THEOREM ReadersTypeCorrect == SpecReaders => []ReadersTypeOK
<1>1. ReadersInv => ReadersTypeOK
  <2> SUFFICES ASSUME ReadersInv, NEW r \in Reader
               PROVE  LET x == read[r]
        IN /\ x.commit \in Commit \cup Ref \cup {None} /\ x.path \in Path \cup {None}
           /\ x.manifest \in Manifest \cup Writer \cup {None}
           /\ x.todo \subseteq Path /\ x.left \subseteq Commit \cup Ref
           /\ x.kept \subseteq Commit \cup Path
           /\ x.op \in {"verify", "audit"} => x.kept \cap x.found = {}
           /\ x.found \subseteq Finding \cup Commit \cup Writer \cup {Torn}
           /\ x.answer \in {None, "miss", "error", "headers", "body", "files", "done"}
    BY DEF ReadersTypeOK
  <2>1. read[r] \in Reading /\ Verifying(read[r], since[r])
    BY Facts DEF ReaderInv
  <2> QED BY <2>1 DEF Reading, Verifying
<1> QED BY <1>1, ReadersInvariant, PTL

(* What is in the archive when a request arrives is served with its own    *)
(* bytes, described with every path it listed then and found by the        *)
(* inventory, whatever is published, extended, half done, cut short or     *)
(* lost meanwhile, as long as nobody deletes it.                           *)
THEOREM ArchivedIsServed == SpecReaders => []HeldIsServed
<1>1. ReadersInv => HeldIsServed
  <2> SUFFICES ASSUME ReadersInv, NEW r \in Reader, read[r].step = "ending"
               PROVE  LET x == read[r]
            held == {h \in since[r].held : Lasting(h[1])}
        IN /\ x.op = "get" /\ <<x.commit, x.path>> \in held =>
                /\ x.answer \in {"headers", "body"}
                /\ x.found \subseteq {x.manifest} \cup (IF x.manifest \in Fetching THEN {Torn} ELSE {})
           /\ x.op = "describe" => {h[2] : h \in {g \in held : g[1] = x.commit}} \subseteq x.kept
           /\ x.op = "list" /\ x.answer = "done" => {h[1] : h \in held} \subseteq x.kept
    BY DEF HeldIsServed
  <2> DEFINE x == read[r]
             s == since[r]
             held == {h \in s.held : Lasting(h[1])}
  <2>1. ReaderInv(x, s) /\ s \in Measure
    BY Facts
  <2>2. ASSUME NEW h \in held
        PROVE  h[1] \in Commit /\ h[2] \in Path /\ Still(s, h[1], h[2])
    BY <2>1 DEF Measure, Still
  <2>3. x.op = "get" /\ <<x.commit, x.path>> \in held => Still(s, x.commit, x.path)
    BY <2>2
  <2>4. x.op = "get" /\ <<x.commit, x.path>> \in held =>
                /\ x.answer \in {"headers", "body"}
                /\ x.found \subseteq {x.manifest} \cup
                                     (IF x.manifest \in Fetching THEN {Torn} ELSE {})
    BY <2>1, <2>3 DEF ReaderInv, Getting
  <2>5. x.op = "describe" => \A h \in held : h[1] = x.commit => h[2] \in x.kept
    BY <2>1, <2>2 DEF ReaderInv, Describing
  <2>6. x.op = "list" /\ x.answer = "done" => \A h \in held : h[1] \in x.kept
    BY <2>1, <2>2 DEF ReaderInv, Keeping, Visited
  <2> QED BY <2>4, <2>5, <2>6
<1> QED BY <1>1, ReadersInvariant, PTL

(* verify and audit pass no revision with which something was wrong all    *)
(* the time they ran, and reject none that was complete and undisturbed,   *)
(* though they read it file by file.                                       *)
THEOREM VerificationTells == SpecReaders => []VerifyTells
<1>1. ReadersInv => VerifyTells
  <2> SUFFICES ASSUME ReadersInv, NEW r \in Reader, read[r].step = "ending",
                      read[r].op \in {"verify", "audit"}
               PROVE  /\ read[r].kept \cap {d[2] : d \in since[r].damage} = {}
                      /\ read[r].found \cap since[r].quiet = {}
    BY DEF VerifyTells
  <2>1. Verifying(read[r], since[r])
    BY Facts DEF ReaderInv
  <2> QED BY <2>1 DEF Verifying
<1> QED BY <1>1, ReadersInvariant, PTL

(* A self-check reports all that was wrong all the time it ran, as far as  *)
(* manifests and file metadata can tell, and of revisions that nobody      *)
(* deletes nothing else, but for what a loss of power did; nor does it     *)
(* call a reference dangling whose revision was there when it began.       *)
THEOREM SelfCheckIsTrue == SpecReaders => []ReportIsTrue
<1>1. ReadersInv => ReportIsTrue
  <2> SUFFICES ASSUME ReadersInv, NEW r \in Reader, read[r].step = "ending",
                      read[r].op = "check"
               PROVE  /\ {d \in since[r].damage : d[1] \in {"invalid_manifest", "missing_file"}}
              \subseteq read[r].found
        /\ \A f \in read[r].found :
             CASE f[1] \in {"invalid_manifest", "missing_file"} -> ~ Lasting(f[2])
               [] f[1] = "dangling_ref" ->
                    Lasting(f[3]) => f[3] \notin {h[1] : h \in since[r].held}
               [] OTHER -> Lasting(f[2]) => file[f[2]][f[3]] = Torn
    BY DEF ReportIsTrue
  <2> DEFINE x == read[r]
             s == since[r]
  <2>1. Checking(x, s) /\ s \in Measure /\ x.step = "ending" /\ x.op = "check"
    BY Facts DEF ReaderInv
  <2>2. \A d \in s.damage : d[1] \in {"invalid_manifest", "missing_file"} => d \in x.found
    BY <2>1 DEF Checking, Reports, Walking
  <2>3. ASSUME NEW f \in x.found
        PROVE  CASE f[1] \in {"invalid_manifest", "missing_file"} -> ~ Lasting(f[2])
               [] f[1] = "dangling_ref" ->
                    Lasting(f[3]) => f[3] \notin {h[1] : h \in s.held}
               [] OTHER -> Lasting(f[2]) => file[f[2]][f[3]] = Torn
    <3>1. IsSo(f, s)
      BY <2>1, <2>3 DEF Checking
    <3>2. ASSUME f[1] = "dangling_ref", Lasting(f[3]), NEW h \in s.held, h[1] = f[3]
          PROVE  FALSE
      <4>1. h[2] \in Path /\ Still(s, f[3], h[2])
        BY <2>1, <3>2 DEF Measure, Still
      <4> QED BY <3>1, <3>2, <4>1 DEF IsSo
    <3> QED BY <3>1, <3>2 DEF IsSo
  <2> QED BY <2>2, <2>3
<1> QED BY <1>1, ReadersInvariant, PTL
=============================================================================
