---------------------------- MODULE MCPullThrough ----------------------------
(* PullThrough for TLC.                                                    *)
EXTENDS PullThrough, TLC

CONSTANTS a, b, p, q, r

TwoCommits == <<{p, q}, {q, r}>>

Asks(op, revision, sel) == [op |-> op, revision |-> revision, sel |-> sel]
(* The requests of a small day: a file and the metadata by name, a file by *)
(* commit, selections by commit and by name, a refresh and a dry run.      *)
Day == <<Asks("file", Main, Named({q})), Asks("metadata", Main, All),
         Asks("file", 1, Named({p})), Asks("prefetch", 1, All),
         Asks("prefetch", 1, Named({p})), Asks("prefetch", 1, Named({p, q})),
         Asks("prefetch", 1, [kind |-> "pattern", paths |-> {q, r}]),
         Asks("prefetch", Main, All), Asks("refresh", Main, All), Asks("dry_run", Main, All)>>
(* Every pair of them; which caller is which makes no difference.          *)
DayPairs == {(a :> Day[i]) @@ (b :> Day[j]) :
                <<i, j>> \in {<<k, l>> \in (DOMAIN Day) \X (DOMAIN Day) : k <= l}}
=============================================================================
