------------------------------ MODULE MCReads ------------------------------
(***************************************************************************)
(* Two shards: even identifiers live in shard 0, odd ones in shard 1.      *)
(* Identifier 7 is the largest of the type.                                *)
(***************************************************************************)
EXTENDS ChildSearch

mcTimes == -1 .. 2

\* The process is another one than the description says.
MkSpan(id, begin, end, parents, desc) ==
    [id |-> id, begin |-> begin, end |-> end, parents |-> parents, desc |-> desc,
     process |-> 1 - desc]

\* Spans 1, 2 and 4 begin at the same time.  Span 1 has children in both
\* shards, span 2 in the other one.
mcWritten == {MkSpan(1, 0, 1, {}, 0), MkSpan(2, 0, 2, {1}, 1),
              MkSpan(3, 1, 2, {1, 2}, 0), MkSpan(4, 0, 0, {1}, 1),
              MkSpan(6, -1, 2, {3}, 0)}

\* The text of rank 1 contains the one of rank 0.
mcContainsRel == {<<0, 0>>, <<1, 1>>, <<1, 0>>}

Pred(op, field, val) == [op |-> op, field |-> field, val |-> val]

mcPreds ==
    {<<Pred(op, "spanid", 2)>> : op \in {"eq", "le", "ge", "gt"}}
    \cup {<<Pred(op, "begin", 0)>> : op \in {"eq", "le", "ge", "gt", "cn"}}
    \cup {<<Pred("ge", "end", 1)>>, <<Pred("gt", "duration", 0)>>,
          <<Pred("ge", "begin", BadVal)>>, <<Pred("xx", "begin", 0)>>,
          <<Pred("ge", "parents", 0)>>, <<>>,
          <<Pred("cn", "description", 0)>>,
          <<Pred("cn", "processid", 1), Pred("ge", "spanid", 2)>>,
          <<Pred("eq", "description", 1), Pred("ge", "begin", 0)>>,
          <<Pred("ge", "begin", 0), Pred("le", "end", 1)>>}

mcLessOrEqual == {<<Pred("le", "begin", 0)>>}

\* 19 stands for 0x19, which is in the range, 20 for 0x20, which is not.
mcLimits == {-1, 0, 1, 2, 19, 20}
=============================================================================
