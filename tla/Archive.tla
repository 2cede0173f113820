------------------------------- MODULE Archive -------------------------------
(***************************************************************************)
(* What the archive of one repository promises its readers (ADR-0002,      *)
(* ADR-0008, ADR-0020): a revision appears at once with a set of files,    *)
(* its files may grow in number and never change, a reference is set to a  *)
(* revision that is there, and a loss of power takes back only what nobody  *)
(* was told is there.  RevisionStore implements this with directories.     *)
(***************************************************************************)
CONSTANTS
    Commit, Ref, Path,
    Content,        \* the bytes of a file
    Fragile,        \* bytes that were never flushed
    Torn,           \* what a loss of power makes of those
    None

VARIABLES
    held,           \* the files a reader finds of each revision, or None
    earlier,        \* earlier states of it that a loss of power may bring back
    ref,            \* the revision each reference names
    condemned       \* revisions somebody has started to delete: no promise

vars == <<held, earlier, ref, condemned>>

FileSet == [Path -> Content \cup {None}]

Init ==
    /\ held = [c \in Commit |-> None]
    /\ earlier = [c \in Commit |-> {}]
    /\ ref = [r \in Ref |-> None]
    /\ condemned = {}

(* A revision appears with at least one file.  Whether it may be lost      *)
(* again is up to who publishes it.                                        *)
Publish(c) ==
    /\ c \notin condemned
    /\ held[c] = None
    /\ \E files \in FileSet :
        /\ \E p \in Path : files[p] # None
        /\ held' = [held EXCEPT ![c] = files]
    /\ \E left \in SUBSET {None} : earlier' = [earlier EXCEPT ![c] = left]
    /\ UNCHANGED <<ref, condemned>>

(* A revision grows: what it has stays as it is.                           *)
Extend(c) ==
    /\ c \notin condemned
    /\ held[c] # None
    /\ \E added \in FileSet :
         held' = [held EXCEPT ![c] =
                    [p \in Path |-> IF @[p] # None THEN @[p] ELSE added[p]]]
    /\ \E left \in SUBSET (earlier[c] \cup {held[c]}) :
         earlier' = [earlier EXCEPT ![c] = left]
    /\ UNCHANGED <<ref, condemned>>

(* What a writer has been told is there will not be taken back.            *)
Settle(c) ==
    /\ \E left \in SUBSET earlier[c] : earlier' = [earlier EXCEPT ![c] = left]
    /\ UNCHANGED <<held, ref, condemned>>

(* A reference is only set to a revision that is there.                    *)
SetRef(r, c) ==
    /\ c \in condemned \/ held[c] # None
    /\ ref' = [ref EXCEPT ![r] = c]
    /\ UNCHANGED <<held, earlier, condemned>>

(* Deletion is only started on a revision that no reference names.         *)
Condemn(c) ==
    /\ \A r \in Ref : ref[r] # c
    /\ condemned' = condemned \cup {c}
    /\ held' = [held EXCEPT ![c] = None]
    /\ earlier' = [earlier EXCEPT ![c] = {}]
    /\ UNCHANGED ref

(* Each revision is what it was or one of its earlier states, but for      *)
(* bytes that nobody flushed.                                              *)
Damaged(files, before) ==
    \A p \in Path : files[p] = before[p] \/ (files[p] = Torn /\ before[p] \in Fragile)

Survives(now, before) ==
    IF before = None THEN now = None ELSE now # None /\ Damaged(now, before)

PowerLoss ==
    /\ \A c \in Commit :
         \E before \in earlier[c] \cup {held[c]} : Survives(held'[c], before)
    /\ earlier' = [c \in Commit |-> {}]
    /\ UNCHANGED <<ref, condemned>>

Next ==
    \/ \E c \in Commit : Publish(c) \/ Extend(c) \/ Settle(c) \/ Condemn(c)
    \/ \E r \in Ref, c \in Commit : SetRef(r, c)
    \/ PowerLoss

Spec == Init /\ [][Next]_vars
=============================================================================
