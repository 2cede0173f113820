---------------------------- MODULE StagingListing ----------------------------
(***************************************************************************)
(* What an operator is told of the staging directories that module         *)
(* FetchStaging moves: the listing of retained staging and the orphans of  *)
(* the self-check.  Both take the names in the temporary area, and then    *)
(* read each entry's lease and its identity by that name, while owners     *)
(* renew, publish and preserve, and others claim and rename.  One entry of *)
(* one listing is followed at a time; nothing passes from one entry to the *)
(* next.  A name that is gone when its lease is read is listed as having   *)
(* none, whatever happens then, so an entry starts with its lease.         *)
(***************************************************************************)
EXTENDS FetchStaging

VARIABLE
    listing     \* the entry: its name, and history: whether it could be
                \* resumed from at any time since its lease was read

NotListing == [at |-> NoPath, resumable |-> FALSE]

InitListing == Init /\ listing = NotListing

-----------------------------------------------------------------------------
(* The paths a later acquisition could resume from.                        *)
Resumable == {p \in Entries({"active", "abandoned"}) :
                lease[p[1]] = 0 /\ commit[p[1]]
                /\ \E s \in Selection : Adoptable(p[1], s)}

(* read_lease_expiry, compared with the time.                              *)
LeaseRead(p) ==
    IF ~Present(p) \/ lease[p[1]] = NoLease THEN "absent"
    ELSE IF Live(p[1]) THEN "active" ELSE "expired"

(* Mutant of RetentionOf: any identity that can be read is taken to be     *)
(* resumable.                                                              *)
RetentionOfAny(l, identified, resolved) ==
    CASE l = "active" -> "active"
      [] l = "absent" -> "unreadable_lease"
      [] identified -> "resumable"
      [] OTHER -> "stale"

(* classify_staging_retention, staging_is_adoptable.                       *)
RetentionOf(l, identified, resolved) ==
    CASE l = "active" -> "active"
      [] l = "absent" -> "unreadable_lease"
      [] identified /\ resolved -> "resumable"
      [] OTHER -> "stale"

(* read_fetch_staging_metadata: an identity can be read by this name.      *)
Identified(p) == Present(p) /\ recorded[p[1]] # None

(* The verdict on this entry, with what is read of its identity.           *)
Verdict(l) ==
    LET p == listing.at
    IN RetentionOf(l, Identified(p), Identified(p) /\ commit[p[1]])

(* The verdict depends on the identity only if the lease was expired.      *)
ListLease(p) ==
    /\ listing = NotListing
    /\ LeaseRead(p) = "expired"
    /\ listing' = [at |-> p, resumable |-> p \in Resumable]
    /\ UNCHANGED vars

(* The entry is listed, with its verdict.                                  *)
ListIdentity ==
    /\ listing # NotListing
    /\ listing' = NotListing
    /\ UNCHANGED vars

(* History: after every step of the directories.                           *)
Observed ==
    listing' = [listing EXCEPT !.resumable = @ \/ listing.at \in Resumable']

NextListing ==
    \/ Next /\ Observed
    \/ \E d \in Dir : ListLease(<<d, name[d]>>)
    \/ ListIdentity

SpecListing == InitListing /\ [][NextListing]_<<vars, listing>>

-----------------------------------------------------------------------------
(* An entry is listed as resumable only if a later acquisition could have  *)
(* resumed from it at some time after its lease was read                   *)
(* (staging_is_adoptable: "this reports the conditions that function       *)
(* requires"), whoever claimed, preserved, emptied or removed it between   *)
(* the two reads.  Stated for when no renewal failed or no operator        *)
(* removed anything: with both, the expired lease of a late preservation   *)
(* is read under the name of a claim that has found the directory emptied, *)
(* and that has written its identity and its own lease by the second read. *)
ListingTells ==
    missed = 0 \/ removals = 0 =>
        (listing # NotListing /\ Verdict("expired") = "resumable" => listing.resumable)
=============================================================================
