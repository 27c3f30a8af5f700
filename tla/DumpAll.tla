------------------------------ MODULE DumpAll -------------------------------
(***************************************************************************)
(* The command "htrace dumpAll" (doDumpAll in cmd.go, Client.DumpAll in    *)
(* client.go).  A goroutine queries the server page by page and sends the  *)
(* spans down a channel; the main goroutine writes them to a file until    *)
(* the channel is closed, and then asks for the goroutine's error.  The    *)
(* queries ascend by span id, which SpanQuery shows to be exact.           *)
(***************************************************************************)
EXTENDS Integers, Sequences, FiniteSets, FiniteSetsExt

CONSTANTS
    MaxId,       \* the largest span id, 2^64 - 1 in the code
    Ids,         \* the span ids in use
    Lim,         \* the --lim flag: spans to transfer at once
    ChanSize,    \* the capacity of the channel, 50 in the code
    MaxWrites    \* bound: spans that arrive at the server meanwhile

VARIABLES
    stored,      \* ids of the spans at the server
    initial,     \* history: stored when the command started
    searchId,    \* DumpAll: the first id of the next page
    batch,       \* DumpAll: the spans of the page still to be sent
    dumpPc,      \* DumpAll: "query", "send", "close", "assign", "gone"
    failing,     \* DumpAll: the error that it will return
    dumpErr,     \* the variable shared with the main goroutine
    out,         \* the channel
    closed,      \* the channel is closed
    mainPc,      \* doDumpAll: "recv", "check", "ok", "failed"
    writeErr,    \* doDumpAll: the first write error
    file,        \* what has been written
    writes       \* bound counter

dumpVars == <<searchId, batch, dumpPc, failing, dumpErr>>
mainVars == <<mainPc, writeErr, file>>
vars == <<stored, initial, searchId, batch, dumpPc, failing, dumpErr, out,
          closed, mainPc, writeErr, file, writes>>

Init ==
    /\ stored \in SUBSET Ids /\ initial = stored
    /\ searchId = 0 /\ batch = <<>> /\ dumpPc = "query"
    /\ failing = FALSE /\ dumpErr = FALSE
    /\ out = <<>> /\ closed = FALSE
    /\ mainPc = "recv" /\ writeErr = FALSE /\ file = <<>>
    /\ writes = 0

\* A span arrives at the server.
Arrive(id) ==
    /\ writes < MaxWrites /\ id \notin stored
    /\ stored' = stored \cup {id}
    /\ writes' = writes + 1
    /\ UNCHANGED <<initial, dumpVars, out, closed, mainVars>>

-----------------------------------------------------------------------------
\* The goroutine.

\* The answer to the query: the Lim smallest ids from searchId on.
Page ==
    LET from == {id \in stored : id >= searchId}
        n == IF Cardinality(from) < Lim THEN Cardinality(from) ELSE Lim
        taken == CHOOSE S \in SUBSET from :
                    /\ Cardinality(S) = n
                    /\ \A a \in S : \A b \in from \ S : a < b
    IN  CHOOSE seq \in [1 .. n -> taken] : \A i, j \in 1 .. n : i < j => seq[i] < seq[j]

\* An empty page ends the dump; the channel is closed on return.
QueryPage ==
    /\ dumpPc = "query"
    /\ batch' = Page
    /\ dumpPc' = IF Page = <<>> THEN "close" ELSE "send"
    /\ UNCHANGED <<stored, initial, searchId, failing, dumpErr, out, closed,
                   mainVars, writes>>

QueryFails ==
    /\ dumpPc = "query"
    /\ failing' = TRUE
    /\ dumpPc' = "close"
    /\ UNCHANGED <<stored, initial, searchId, batch, dumpErr, out, closed,
                   mainVars, writes>>

SendToChannel_RepeatsLast ==
    /\ dumpPc = "send" /\ Len(out) < ChanSize
    /\ out' = Append(out, Head(batch))
    /\ batch' = Tail(batch)
    /\ IF Len(batch) = 1 THEN searchId' = Head(batch) /\ dumpPc' = "query"
       ELSE UNCHANGED <<searchId, dumpPc>>
    /\ UNCHANGED <<stored, initial, failing, dumpErr, closed, mainVars, writes>>

\* One span of the page; after the last one the next page starts behind it.
SendToChannel ==
    /\ dumpPc = "send" /\ Len(out) < ChanSize
    /\ out' = Append(out, Head(batch))
    /\ batch' = Tail(batch)
    /\ IF Len(batch) = 1
         THEN searchId' = (Head(batch) + 1) % (MaxId + 1) /\ dumpPc' = "query"
         ELSE UNCHANGED <<searchId, dumpPc>>
    /\ UNCHANGED <<stored, initial, failing, dumpErr, closed, mainVars, writes>>

\* The deferred function of DumpAll closes the channel ...
CloseChannel ==
    /\ dumpPc = "close"
    /\ closed' = TRUE
    /\ dumpPc' = "assign"
    /\ UNCHANGED <<stored, initial, searchId, batch, failing, dumpErr, out,
                   mainVars, writes>>

\* ... before the goroutine assigns what DumpAll returned.
AssignDumpErr ==
    /\ dumpPc = "assign"
    /\ dumpErr' = failing
    /\ dumpPc' = "gone"
    /\ UNCHANGED <<stored, initial, searchId, batch, failing, out, closed,
                   mainVars, writes>>

-----------------------------------------------------------------------------
\* The main goroutine.

ReceiveSpan_StopsOnWriteError ==
    /\ mainPc = "recv" /\ out # <<>> /\ ~ writeErr
    /\ out' = Tail(out)
    /\ \E ok \in BOOLEAN :
          /\ file' = IF ok THEN Append(file, Head(out)) ELSE file
          /\ writeErr' = ~ ok
    /\ UNCHANGED <<stored, initial, dumpVars, closed, mainPc, writes>>

\* A span is written unless an earlier write failed; the channel is drained
\* in either case.
ReceiveSpan ==
    /\ mainPc = "recv" /\ out # <<>>
    /\ out' = Tail(out)
    /\ \E ok \in BOOLEAN :
          /\ file' = IF ok /\ ~ writeErr THEN Append(file, Head(out)) ELSE file
          /\ writeErr' = (writeErr \/ ~ ok)
    /\ UNCHANGED <<stored, initial, dumpVars, closed, mainPc, writes>>

SeeClosed ==
    /\ mainPc = "recv" /\ out = <<>> /\ closed
    /\ mainPc' = "check"
    /\ UNCHANGED <<stored, initial, dumpVars, out, closed, writeErr, file, writes>>

\* The errors are examined, then the file is flushed and closed, which may
\* fail as well.
Finish ==
    /\ mainPc = "check"
    /\ \/ mainPc' = "failed"
       \/ ~ writeErr /\ ~ dumpErr /\ mainPc' = "ok"
    /\ UNCHANGED <<stored, initial, dumpVars, out, closed, writeErr, file, writes>>

Goroutine == QueryPage \/ QueryFails \/ SendToChannel \/ CloseChannel \/ AssignDumpErr
Main == ReceiveSpan \/ SeeClosed \/ Finish

Next == (\E id \in Ids : Arrive(id)) \/ Goroutine \/ Main

\* Both goroutines run when they can.
Fairness == WF_vars(Goroutine) /\ WF_vars(Main)
Spec == Init /\ [][Next]_vars /\ Fairness

-----------------------------------------------------------------------------
\* Correctness.

\* The file lists every span at most once, in the order of the ids, and when
\* the dump came to its end without an error it lists every span that was
\* there from the start.  (Behind the largest id the search would wrap.)
DumpExact ==
    MaxId \notin stored =>
        /\ \A i, j \in 1 .. Len(file) : i < j => file[i] < file[j]
        /\ mainPc = "ok" /\ ~ failing =>
              initial \subseteq {file[i] : i \in 1 .. Len(file)}

\* The command ends, also when a write fails while spans are still coming.
Done == mainPc \in {"ok", "failed"} \/ MaxId \in stored
DumpEnds == <>Done

\* "Dump all spans from the htraced daemon." (cmd.go:264): a command that
\* reports success has dumped them all.
SuccessMeansAll ==
    mainPc = "ok" => initial \subseteq {file[i] : i \in 1 .. Len(file)}

=============================================================================
