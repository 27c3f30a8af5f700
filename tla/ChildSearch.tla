---------------------------- MODULE ChildSearch -----------------------------
(***************************************************************************)
(* Reading the store: the client asks for the children of a span or sends  *)
(* a query (SpanQuery).  The search for children goes through the htrace   *)
(* command and its client (cmd.go, client.go), the REST handler that       *)
(* parses the limit (rest.go) and dataStore.FindChildren (datastore.go),   *)
(* which visits the shards one after the other, starting with the one of   *)
(* the parent, while the shard goroutines go on writing.                   *)
(***************************************************************************)
EXTENDS SpanQuery

CONSTANTS
    Limits,     \* the limits that a client asks for in a child search
    LimRange    \* 2^32 in the code

ASSUME LimitsAssumption == Limits \subseteq Int /\ LimRange \in Nat \ {0}

VARIABLES
    sid,       \* the parent asked for
    asked,     \* the limit the client asked for
    lim,       \* the limit that is left
    idx,       \* the shard to visit next
    childIds,  \* what has been found
    childPc    \* "none", "request", "search", "done", "badRequest"

childVars == <<sid, asked, lim, idx, childIds, childPc>>
queryVars == <<query, sourceVars, ret, pc, clientVars>>
readVars == <<vars, childVars>>

Found == {childIds[i] : i \in 1 .. Len(childIds)}
SpansOf(db) == {db.data[id] : id \in {i \in SpanIds : db.data[i] # Nil}}

-----------------------------------------------------------------------------

\* The client runs "htrace findChildren".
ChildInit ==
    /\ sid \in SpanIds
    /\ asked \in Limits
    /\ lim = 0 /\ idx = 0 /\ childIds = <<>>
    /\ childPc = "request"

\* A request is a query or a search for children.
NoChildSearch ==
    /\ sid = 0 /\ asked = 0 /\ lim = 0 /\ idx = 0 /\ childIds = <<>>
    /\ childPc = "none"
NoQuery ==
    /\ query = [preds |-> <<>>, lim |-> 0, prev |-> Nil]
    /\ NoSource
    /\ ret = <<>> /\ pc = "idle"
    /\ pages = <<>> /\ pageNum = 0

ReadInit ==
    /\ StoreInit
    /\ (QueryInit /\ NoChildSearch) \/ (NoQuery /\ ChildInit)

\* The client prints the limit in decimal; getReqField32 reads the digits as a
\* hexadecimal number.
HexOfDecimal[n \in Nat] == IF n < 10 THEN n ELSE 16 * HexOfDecimal[n \div 10] + (n % 10)

\* The handler refuses a limit with a sign or of more than 32 bits, or starts the
\* search.  Its limit is a signed number of these bits, which counts down to zero
\* in as many steps as the one without a sign.
ServeFindChildren ==
    /\ childPc = "request"
    /\ IF asked < 0 \/ HexOfDecimal[asked] \notin 0 .. (LimRange - 1)
       THEN childPc' = "badRequest" /\ UNCHANGED <<lim, idx>>
       ELSE /\ childPc' = "search"
            /\ lim' = HexOfDecimal[asked]
            /\ idx' = getShardIndex(sid)
    /\ UNCHANGED <<ldb, sid, asked, childIds, queryVars, writes>>

\* The ids that the parent index of a shard lists under sid, in their order.
ParentEntries(s) == {key.sec : key \in {k \in ldb[s].index : k.tag = "p" /\ k.fir = sid}}
SortedIds(S) == CHOOSE seq \in [1 .. Cardinality(S) -> S] :
                    \A i, j \in 1 .. Cardinality(S) : i < j => seq[i] < seq[j]

\* shard.FindChildren: as many entries as the limit allows.
FromShard(s) ==
    LET all == SortedIds(ParentEntries(s)) IN
    IF lim < Len(all) THEN SubSeq(all, 1, lim) ELSE all

NextIdx == IF idx + 1 >= NumShards THEN 0 ELSE idx + 1

VisitShard_StopsAtLast ==
    LET found == FromShard(idx) IN
    /\ childPc = "search" /\ lim # 0
    /\ childIds' = childIds \o found
    /\ lim' = lim - Len(found)
    /\ idx' = NextIdx
    /\ childPc' = IF idx + 1 >= NumShards THEN "done" ELSE "search"
    /\ UNCHANGED <<ldb, sid, asked, queryVars, writes>>

\* One round of the loop of FindChildren.
VisitShard ==
    LET found == FromShard(idx) IN
    /\ childPc = "search" /\ lim # 0
    /\ childIds' = childIds \o found
    /\ lim' = lim - Len(found)
    /\ idx' = NextIdx
    /\ childPc' = IF NextIdx = getShardIndex(sid) THEN "done" ELSE "search"
    /\ UNCHANGED <<ldb, sid, asked, queryVars, writes>>

LimitReached ==
    /\ childPc = "search" /\ lim = 0
    /\ childPc' = "done"
    /\ UNCHANGED <<ldb, sid, asked, lim, idx, childIds, queryVars, writes>>

ReadNext ==
    \/ Next /\ UNCHANGED childVars
    \/ ServeFindChildren \/ VisitShard \/ LimitReached

ReadSpec == ReadInit /\ [][ReadNext]_readVars

-----------------------------------------------------------------------------
\* Correctness.

Children(db) == {span.id : span \in {a \in SpansOf(db) : sid \in a.parents}}
AllChildren(dbs) == UNION {Children(dbs[s]) : s \in Shards}

\* The answer holds no child twice and nothing but children of the span, and
\* unless the limit cut it short it holds every child stored before the
\* request, whatever arrives while the shards are visited.
AnswerExact ==
    childPc = "done" =>
        /\ Cardinality(Found) = Len(childIds)
        /\ Found \subseteq AllChildren(ldb)
        /\ lim > 0 => AllChildren(startDb) \subseteq Found

=============================================================================
