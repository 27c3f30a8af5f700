---------------------------- MODULE MCDataStore ----------------------------
(***************************************************************************)
(* Two shards; identifiers 1 and 3 share shard 1.  Identifier 1 comes in   *)
(* two versions, as after an identifier collision or a second write of the *)
(* same span with other times.                                             *)
(***************************************************************************)
EXTENDS DataStore

CONSTANTS h1, h2

mcHandlers == {h1, h2}
mcTimes == -1 .. 1

spanA == [id |-> 1, begin |-> 0, end |-> 1, parents |-> {}, desc |-> 0, process |-> 0]
spanB == [id |-> 1, begin |-> -1, end |-> 1, parents |-> {2}, desc |-> 0, process |-> 0]
spanC == [id |-> 2, begin |-> 0, end |-> 0, parents |-> {1}, desc |-> 0, process |-> 0]

mcRequests == {<<spanA, spanC>>, <<spanB>>}
=============================================================================
