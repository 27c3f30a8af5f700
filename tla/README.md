# A TLA+ verification of HTrace

HTrace is a tracing system. Instrumented programs create *spans*; a *span
receiver* in the client library hands finished spans to a backend, most often the
daemon *htraced*, which stores them in sharded LevelDB instances and answers
queries. A web application, served by htraced, searches the spans and draws them.
This directory models the parts of the system where threads, goroutines, callbacks,
failures and orderings meet, checks them with TLC, and proves the central
invariants of the span store, the queries and searches for children, the receivers, the
tracer, and the timers, requests, events, models and pages of the web application with
TLAPS.

Paths below are relative to `src/`; `G` stands for
`htrace-htraced/go/src/org/apache/htrace`, `W` for `htrace-webapp/src/main/web`.

## 1. Inventory

### 1.1 htraced, the daemon (Go)

* **Data store** (`G/htraced/datastore.go`). State: per shard a LevelDB instance
  (span data under `s`, indices under `p b e d`, a version record under `v`), a
  buffered channel `incoming` and a goroutine `processIncoming`; the shards
  array; counters. Operations: `CreateDataStore`, `CreateShard`, `WriteSpan`,
  `Close`, `FindSpan`, `FindChildren`, `HandleQuery`. Hard: handlers, shard
  goroutines and `Close` run at the same time; LevelDB is written without sync;
  queries read snapshots of several shards, taken at different times, and look up
  spans in the live database. Correct means: data and indices agree, also
  after a crash; an accepted span is written or its failure is logged; nothing is
  written to a closed database; answers are sound and complete.
* **REST server** (`G/htraced/rest.go`) and **HRPC server** (`G/htraced/hrpc.go`):
  stateless handlers that call the data store; every request is a goroutine.
* **Go client and htrace command** (`G/client`, `G/htrace`): requests, paging
  (`dumpAll` uses a goroutine and a channel), a query parser, output formats.
* **Logging, configuration, process names** (`G/common`, `G/conf`).

### 1.2 The C client (`htrace-c/src`)

* **htraced receiver** (`receiver/htraced.c`): two send buffers, a mutex, a
  transmission thread, `flush` and `free`. Hard: the full buffer is sent and reset
  without the lock; retries; times compared across threads. Correct means: no span
  is lost or sent from a buffer that another thread is writing; `flush` and `free`
  return and have sent what they should.
* **HRPC client** (`receiver/hrpc.c`): connection, framing, partial I/O.
* **Tracer, scopes, spans** (`core/`): thread-local stacks of scopes.
* **Hash table, configuration, samplers, utilities** (`util/`, `sampler/`).

### 1.3 The Java client (`htrace-core` and the receivers)

* **Tracer, scopes and spans** (`Trace`, `Tracer`, `TraceScope`, `MilliSpan`,
  wrappers). State: a current span per thread, the list of receivers, the flags of
  spans and scopes. Hard: scopes and spans are shared by threads; receivers come
  and go and throw. Correct means: a span is delivered once to every receiver; the
  current span follows the discipline of a stack.
* **Queue receivers** (Zipkin, HBase, Flume): a bounded queue, worker threads,
  batches, reconnection, re-queueing after an error, `close`.
* **REST receiver** (`HTracedRESTReceiver`): a bounded deque, a thread that waits
  on a condition variable for a period, `startFlushing`, `close`.
* **Local file receiver** (`LocalFileSpanReceiver`): an array under one lock and a
  file under another. For all receivers, correct means that accepted spans are
  neither lost nor repeated and that calls return.
* **Samplers, builders, TraceTree, ProcessId, simple receivers.**

### 1.4 The web application (`W/app`) and its libraries (`W/lib`)

* **Pages** (`router.js`, `about_view.js`, `search_view.js`, `predicate*.js`,
  `query_results.js`, `modal.js`). State: the router's view, the views on the element
  `#app`, the criteria, the results, `searchInProgress`. Hard: answers of the server
  arrive for pages that were left; the last result is the token for the next page.
  Correct means: one view has the page; as long as the criteria stay, the results
  match them, once and in order; a search that ended, in whatever way, does not
  block the next.
* **Results** (`span.js`, `tree.js`, `search_results_view.js`, the widgets). State:
  span models with the parents and children fetched for them, selections, a range
  of time, widgets on a canvas that register with a manager for the mouse. Hard:
  expansions answered late and out of order, a page drawn anew between the press
  and the release of the mouse. Correct means: the canvas shows the tree; a click
  counts once; clearing removes what was chosen.
* **jQuery** (callback lists, deferreds, requests, events, queues), **Backbone**
  (events, models, collections, history and routers), **Bootstrap** (dialogs, tips,
  accordions, carousels, tabs, buttons, menus, scrolling), **underscore** (functions on
  lists, objects and text, throttle and debounce) and **moment** (dates). Hard: user
  code runs inside their loops and calls them again; transitions and timeouts are
  overtaken by the next event; edges of arrays and of the calendar.
* **HBase viewer** (`htrace-hbase`): servlets, and a page that draws one trace.

### 1.5 The rest

Generated code (protocol buffers, Thrift), MessagePack, d3. `PROJECT.json` lists every
part with the reason why it is or is not modelled.

### 1.6 Interactions

    application -> Tracer/TraceScope -> receivers --REST/HRPC--> handlers
                                                                   |  channels
    htrace command, web app --REST--> query, children, find   shard goroutines
                                                   \               |
                                                    +---- LevelDB shards

    web app:  address -> Backbone.history -> router -> views -> jQuery.ajax -> REST
              answers -> models, collections -> events -> canvas;  Bootstrap: dialogs

## 2. Modules

| module | models | state and actions |
|---|---|---|
| `SpanSchema` | spans, key encoding, index entries of a span | constants and operators: `Span`, `s2u64`, `getShardIndex`, `IndexKeys`, `PutBatch`; the predicate `Consistent` |
| `DataStore` | writing, the shard goroutines, `Close`, crash, restart | one action per blocking point of `WriteSpan`, `processIncoming`, `writeSpan`, `shard.Close` |
| `SequenceLemmas`, `DataStoreProofs`, `ReadsProofs`, `HtracedRcvProofs`, `QueueReceiverProofs`, `ClientsProofs`, `TraceScopeProofs`, `WebProofs` | theorems about the modules above and below (section 4) | |
| `SpanQuery` | `HandleQuery`, `createSource`, `populateNextFromShard`, `next`, a paging client | one action per iterator opened, entry read, best entry chosen; `Write` at any time |
| `ChildSearch` | `FindChildren` and its limit; extends `SpanQuery`, so that a request is a query or a search | one action per shard visited |
| `DumpAll` | `htrace dumpAll`: client goroutine, channel, main goroutine | one action per query, channel operation and write |
| `HtracedRcv` | the C htraced receiver | `add_span` in four steps, the transmission thread with both resets as steps of their own, `flush`, `free`, a clock |
| `QueueReceiver` | the Zipkin, HBase and Flume receivers; a variable says which | `receiveSpan`, the worker's loop step by step, `close` |
| `RestReceiver` | `HTracedRESTReceiver` | one action per critical section, and post |
| `LocalFileReceiver` | `LocalFileSpanReceiver` | critical sections of the two locks, one action per `channel.write` |
| `TraceScope` | `Trace`, `Tracer`, `TraceScope`, `MilliSpan`, `TraceRunnable`, `TraceCallable` | `startSpan` in its forms, `continueSpan`, `detach`, `close`, `stop`, delivery receiver by receiver |
| `JQueryCallbacks`, `JQueryCallbackList` | `jQuery.Callbacks` with its flags | one action per API call, per call of a callback and per return; callbacks call the list |
| `Promises` | abstract specification: what a set of promises owes its users | `Settle`, `Run`, `Register` |
| `JQueryDeferred` | `Deferred`, `then`, `always`, `when`; implements `Promises` | an explicit call stack of fire loops and running functions |
| `JQueryAjax` | `jQuery.ajax` and the XMLHttpRequest transport | `ajax`, `abort`, timeouts, answers; user code at every point where the code calls it |
| `JQueryEvent` | `jQuery.event`: binding, delegation, namespaces, triggers, bubbling | handlers that bind, unbind, remove and trigger during a dispatch |
| `JQueryQueue` | private data, fx queues, `promise` | `queue`, `dequeue`, `clearQueue`, `promise`, `next` |
| `Underscore`, `MomentDates` | functions on arrays, objects, texts and dates | operators; the variables are the arguments |
| `UnderscoreTimers` | `throttle`, `debounce` | calls, timers, a clock that may be set |
| `BackboneEvents`, `BackboneModel`, `BackboneCollection` | the classes of Backbone | API calls from outside and from handlers, answers of the server |
| `WebNav` | Backbone's history and router (`HistorySpec`); the application's router, about page and search page on top (`Spec`) | the browser's history and its delayed events; routes, clicks, answers |
| `Predicates` | the search criteria and what htraced reads of them | operators |
| `SpanTree`, `CanvasWidgets` | the results on the canvas; the mouse on it | expanding, selecting, clearing, zooming, answers; mouse events |
| `BsOverlays`, `BsPanels`, `BsControls` | the plugins of Bootstrap (and `modal.js`): dialogs and tips; panels, carousels and tabs; alerts, buttons, menus and scrolling | clicks, calls, ends of transitions, timeouts |
| `HBaseViewer` | the picture of `spans.js` | operators |

`MCClients`, `MCLibraries` and `MCWeb` compose several modules in one run: a variable
(`part`, in `MCLibraries` `library`) says which one a behaviour exercises, the others keep
their initial states. `LibraryParts` and `WebParts` declare the constants and variables of
the modules that `WebProofs` is about, and state their properties, for the runs and the
proofs alike.
`MCDataStore` and `MCReads` hold the values for TLC; the other modules are checked as
they are. Definitions named `X_Something`, placed before `X`, are faulty variants of
`X`, and are not used by any specification; each shows that a property notices that
fault.

Choices that hold for all modules:

* A span is a record in the store and a model value in the receivers. A buffer is
  measured in spans. Names, JSON and MessagePack are left out, except where a
  conversion matters: signed times become unsigned index keys (`s2u64`), durations
  wrap around, and the decimal limit of a child search is read in hexadecimal.
* 64-bit numbers are numbers of `2 * HalfRange` values with the same wrap-around.
* A failed call to a server may or may not have had its effect.
* LevelDB, the operating system, clocks and condition variables are external, and
  modelled by what the code relies on: batches are atomic, iterators are snapshots,
  `Seek` moves to the next key that exists, waits may end without a reason.
* Undefined behaviour is a choice: a C thread that unlocks a mutex it does not hold
  may or may not release it.

## 3. Runs

| run | checks | shows |
|---|---|---|
| `datastore` | `TypeOK`, `IndexMatchesData`, `NoWriteAfterClose`, `LatestAcceptedWins`, `AcceptedIsDecided`, `CloseFinishes` | two handlers, two shards, channels of one span, requests that write one id in two versions, failing writes, `Close`, a crash of the process or of the machine and a restart |
| `reads` | `SoundPage`, `PagingExact`, `AnswerExact` | twenty kinds of queries and child searches over all subsets of five spans, page sizes 0 to 2, while one span is written |
| `htraced_rcv` | `NothingLost`, `SentBufferIsPrivate`, `FlushSends`, `CallsReturn` | three threads that add, one that flushes, one that frees, two tries for each send |
| `queue_receiver` | `NothingLost`, `CloseDelivers` | two workers, three spans, a queue of two, two failures, each receiver |
| `clients` | `ExactlyOnePlace`, `CloseCompletes`, `FilesExact`, `AcceptedIsDelivered`, `EverythingEnds` | the REST receiver (four spans, a deque of three, lost signals, spurious wake-ups), the local file receiver (an array of two, two threads that close, a failing write), the queue receivers with one worker, `dumpAll` with failing queries and writes |
| `trace_scope` | `DeliveredExactly`, `StackDiscipline` | two threads, two spans, two scopes, two receivers, one exception |
| `libraries` | `BatchExact`, `IsPromise`, `Derivation`, `OneAnswer`, `Answered`, `Bookkeeping`, `QueuesInOrder`, `Algorithms`, `TimersExact` | jQuery, underscore and moment |
| `web` | `Delivery`, `ChangeTracking`, `Indexed`, `RightPage`, `SearchPages`, `Canvas`, `ChosenOnly`, `ClickOnce`, `WidgetsSettle` | Backbone, the pages, Bootstrap, the HBase viewer |
| `query_less_or_equal` | violation of `LessOrEqualComplete` | a "less than or equal" query finds nothing in a shard that has no entry at or above the bound (and of several entries equal to the bound only the first) |
| `dump_all_error` | violation of `SuccessMeansAll` | a dump whose query failed is reported as a success |
| `htraced_rcv_full` | violation of `CopiesWithLockAndSpace` | without space in the buffer, a span is copied without the lock and past the end |
| `reify` | violation of `ReifyAnswers` | a failed request for a parent or child leaves the promise pending |

What the properties of the last two passing runs say:

* `BatchExact`: a batch of a callback list calls what is in the list exactly once,
  whatever callbacks add and remove meanwhile. `IsPromise`: deferreds implement
  `Promises` (a refinement, `INSTANCE Promises WITH` in `JQueryDeferred`).
  `Derivation`: what `then` and `when` return follows what it was derived from.
  `OneAnswer`: a request calls its callbacks once, and `ajaxStart`, `ajaxStop` bracket the
  requests in flight as long as no handler of `ajaxSend` aborts one (section 5). `Answered`: a request that was sent is answered in the end.
  `Bookkeeping`: the counts and lists of event handlers agree, and handlers run from
  the innermost element outwards. `QueuesInOrder`: queued functions run one after the
  other, and promises wait for them. `TimersExact`: a throttled or debounced function
  runs neither too often nor too seldom, with the arguments of the last call.
* `Algorithms`: underscore's functions on all pairs of arrays of up to three items and
  all graphs of three objects; escaping and templates; moment's parsing of dates with
  every flaw (bounds of every unit, signs, hour 24), formatting, month and week
  arithmetic, differences and units on every day of 2000 and 2009, checked against
  definitions from the calendar.
* `Delivery`: a trigger calls what was bound when it began, once is once, a listener can
  always stop listening. `ChangeTracking`: a model knows what changed and every change
  is told. `Indexed`: list, index and ties of a collection agree. `RightPage`: the router
  follows the address, and one view has the page. `SearchPages`: results that were all
  asked for with the same criteria match these, in the order of their source, and once
  unless the source is an "at most" criterion; a view is busy exactly while a query of
  it is in flight; the criteria reach htraced in a form it reads.
  `Canvas`: the rows are the tree of the current models, for the results and in the
  HBase viewer. `ChosenOnly`: a clear removes exactly the results that it is meant to,
  and the range of time is never too short. `ClickOnce`: the mouse.
  `WidgetsSettle`: when their transitions and timeouts have ended, the widgets are in
  the state that was asked for last.

### Bounds and why they are enough

Every bound is a constant named `Max...`, and stands in a guard. Two shards are
the least number for which routing and merging matter, two handlers the least for
races on one channel; channels of capacity one are full after one span. Five spans
in two shards include three with equal times, a time before 1970 and spans that
match some predicates only; 7 is the largest identifier of the type. Two buffers
are what the C code has; three adders fill one buffer while the other is under way.
Two tries reach both the retry and the giving up. In the queue receivers two
failures are the least that make `MAX_ERRORS = 2` errors in a row, and a queue of
two is full when a batch of two comes back. Four spans and an array of two give two
flushes at the same time.

In `libraries` and `web`, two callbacks and a nesting of two are the least for a
callback that removes another one and for a trigger inside a trigger; three models
of which two share an id, five hashes of which two name one page, three spans
with a shared ancestor and limits of two results give ties, second pages and
duplicates. Four clicks and moves (counted together) make a search, change a criterion,
search again and clear, or leave the page in between; the criteria are one of each kind
that a source can be (`gt`, `le`, `eq`) and one that only filters. Five operations on the
tree bring two results that share a span, expand one, select a span and clear; the range
of time is only changed among the first two of them. The clicks on a widget are enough to open it, to overtake the transition
and its timeout, and to come back. Times are units of the timers
(150 ms for dialogs). Arrays of three items have all their edges inside. The years of
`MomentDates` are those around its special cases: before 1970, two digits, centuries,
leap years; 2009 has 53 ISO weeks that begin in the year before and end in the one
after, the first days of 2000 belong to a week of 1999. Deadlock is checked for `htraced_rcv`; the other
specifications end when the bounds are used up, and their liveness properties say
what must happen before.

### Fairness and its justification

* `DataStore`: goroutines that can run do run (weak fairness of each step of
  `processIncoming` and of `Close`); `Close`'s send of nil is strongly fair,
  since blocked senders of a Go channel are served in the order of their arrival.
  Nothing obliges clients to send or `Close` to be called.
* `DumpAll`: both goroutines run; a request ends with an answer or an error.
* `HtracedRcv`: threads run, and a thread that asks for the mutex again and again
  gets it (strong fairness of the steps that lock). The server may fail for ever:
  `MaxSendTries` bounds a round.
* `QueueReceiver`: workers run; the collector fails at most `MaxFails` times.
* `RestReceiver`: the thread runs, the clock advances although spurious wake-ups
  happen (strong fairness of `Tick`), a post ends by its timeouts. Signals may be lost.
* `JQueryAjax`: code that runs goes on (JavaScript runs to completion), and the browser
  reports the end of a request in one of the ways that `Answers` lists. The other
  modules of the web application state no liveness: their properties are about the
  states in which nothing is pending any more.

## 4. Proofs

TLAPS checks the following for every value of the constants. Each module of proofs
extends the module it is about; `SequenceLemmas` holds what the proofs share about
sequences without repetitions, sorted listings of finite sets, and the two forms in
which induction over a finite set is used (a smallest set with a property, a largest
number with a property). `WebProofs` is about the instances in `LibraryParts` and `WebParts`.

### Data store: `DataStoreProofs`

* `TypeCorrect`: `Spec => []TypeOK`. The conjunct that a goroutine in `write`
  has a span at hand is needed to type the batch.
* `IndexConsistency`: `Spec => []IndexMatchesData`. Not inductive by itself: a batch
  keeps a shard consistent only if its span belongs there. The invariant is
  `TypeOK /\ RoutedToOwner /\ IndexMatchesData`, where `RoutedToOwner` says that
  every span in a channel or in the hands of a goroutine is in the shard
  that `getShardIndex` names. The durable copy is carried along, so that a crash
  leads to a consistent state again.
* `CloseSafety`: `Spec => []NoWriteAfterClose`, from an invariant that relates
  `closeIdx`, `closePc`, the goroutines that have exited and the instances that are
  open.
* `ChannelOrder`: `Spec => []LatestAcceptedWins`. The property speaks of the moment
  when nothing of an id is under way; the invariant `OrderInv` follows the span that
  was accepted last through its places. It is the last of its id among the spans
  ahead of Close's nil in the channel; or it is at the hand of the goroutine with none
  of its id behind it; or it is stored with none of its id under way. A failed write
  takes it out of the claim. A second invariant, `NilInv`, says that nil is in the
  channel, or the goroutine has exited, exactly when Close has sent it: without
  it a span sent too late could pass for an accepted one. The steps of a shard are
  lemmas about sequences (`AppendOther`, `AppendAccepted`, `ReceiveSpan`,
  `ReceiveNil`), without variables, and `OrderStep` applies one of them per action.
* `S2U64PreservesOrder`: the order of index keys is the order of signed numbers.

### Queries and child search: `ReadsProofs`

* `ChildrenExact`: `UniqueIds` implies `ReadSpec => []AnswerExact`. `UniqueIds` says
  that a span is not stored in two versions: the old version would leave its index
  entries behind, and a child be listed that is none any more. The invariant has two
  parts. `StoreInv`: the parent index of a shard lists the children of its spans, and
  what was stored at the start is stored still. `SearchInv`: what has been found are
  children, each once, from the shards between that of the parent and the next one
  around the ring (`Visited`); while the limit is not used up, all their children
  are found.
* `PagesAreSound`: `UniqueIds` and `NonzeroIds` imply `ReadSpec => []SoundPage`. Without
  the first, a stale index entry leads to the new version of its span, out of order;
  without the second, the page after span 0 of a *less than or equal* query would start
  at the largest id, and the one after an *equals* query for an id would find span 0
  (the clients generate ids with `nonZeroRandom64`). The argument has four layers.
  *Keys*: they are totally ordered, a set of them has a first and a last one, so `Seek`,
  `Next` and `Prev` pass none (`KeyOrder`, `KeyExtremes`, `SeekFacts`, `MoveFacts`).
  *Predicates*: the source and the filters together mean the query, on signed times
  too, and the predicate adjusted to `prev` implies the one that was sent
  (`SourceMeaning`, `AdjustedMeaning`); hence the last row of a page satisfies the query,
  which the next page relies on. *One shard*: a snapshot lies between what was
  stored at the start and what is stored now, every entry of it leads to its span
  (`Rehydrated`), the entry that a shard offers comes after all rows and the position of
  its iterator after both (`NextOK`, `AtOK`). *The merge*: when the best entry is chosen,
  every other shard has an entry or has ended, so that all of them stay behind the
  new row (`BestFacts`, `BehindRow`). For the first page of an ascending query `CompleteInv`
  says of each matching span stored at the start: it is a row, a filter refused it,
  its shard offers it, or its iterator has not passed it (`Covered`). The invariant is
  `QueryInv`; one lemma per action shows that it is kept.
* `PagingIsExact`: `UniqueIds` and `NonzeroIds` imply `ReadSpec => []PagingExact`, under
  the conditions that the property itself states (`PagingHyp`). `PagingInv` adds to
  `QueryInv` what holds from page to page. `PagesOK`: the earlier pages hold the expected
  spans in strictly ascending order up to `prev`, and every other expected span lies
  behind `prev`. `CoveredGt`: a *greater than* query, which every continued *greater than
  or equal* query becomes, still has each span ahead of it; the iterator is at an entry
  equal to the bound only while `numRead` is 0, so that the one skip of
  `populateNextFromShard` is enough. This is where `NoTies` is needed: a second equal
  entry would end the shard. `EqOver`: the second page of an *equals* query starts behind
  the entry of `prev` and finds nothing, unless `prev.id + 1` wraps around to 0, which
  the condition on the largest id excludes. The rows of a page then come after all
  earlier ones (`PageBehind`), nothing expected is left between them (`StillExpected`,
  `StillBehind`), and an empty page means that every iterator has ended.

### C receiver: `HtracedRcvProofs`

* `LockedCopiesLoseNothing`, `LockedCopiesArePrivate`, `LockedCopiesAreFlushed`:
  `Spec /\ []CopiesWithLockAndSpace` implies `[]NothingLost`, `SentBufferIsPrivate` and
  `FlushSends`. The code copies a span without the lock when both buffers are full
  (run `htraced_rcv_full`), and then nothing can be said; the hypothesis is what the
  comment in `add_span` claims. The invariant `RcvInv`: the mutex belongs to the
  adder that copies or publishes and to the thread that decides (`LockInv`); adders
  write to the active buffer, the other one is being sent or is empty (`BufInv`);
  every span is somewhere, and a buffer about to be reset holds nothing that was not
  sent or given up (`SpanInv`); the order of shutdown (`FreeInv`); a round that began
  after a flush takes along what the flush waits for (`FlushInv`).
* `FewSpansCopiedWithLock`: the hypothesis holds when one buffer takes all the spans
  that are ever added (`FewSpans`), by counting: a buffer holds no span twice
  (`CountInv`). `FewSpansAreSafe` puts the two together, for any number of threads
  that add and flush, any number of tries and any times.

### Java receivers: `QueueReceiverProofs`, `ClientsProofs`

* `QueueLosesNothing`: `Spec => []NothingLost` for the Zipkin, HBase and Flume
  receivers. The property is about live workers; the invariant `AllKept` counts the
  lists of dead ones too.
* `CloseLeavesNothing`: `Spec => []CloseDelivers`. `CloseInv`: a worker that has
  ended saw an empty queue after close was called, and without failures a worker goes
  round with an empty list only. It assumes that there is a worker, as the code does.
* `AcceptedInOnePlace`, `CloseIsComplete`: `Spec => []ExactlyOnePlace` and
  `Spec => []CloseCompletes` for the REST receiver (`RestInv`, `RestPlaces`: a span has
  been posted once exactly if it was added and is neither in the deque nor in the
  buffer; both without repetitions; if a runtime exception ended the posting thread, close
  returns too, and what was left unposted is lost) and the local file receiver (`FileInv`,
  `FilePlaces`, `FileClose`: array, batches under way, file and failures are disjoint).
* `FilesAreExact`: `Lim > 0` implies `Spec => []FilesExact`. The batches of
  concurrent flushes are written without a line of another batch between them and
  each in its order (`FileFlushes`: what is left of a batch is its end, the rest is in
  the file, and while a thread writes, nobody writes behind it). A dump writes ids in
  increasing order, and at its end all that were there at its start (`DumpSafe`: file,
  channel and page in one increasing sequence below `searchId`; a span that is not
  yet in one of them lies at or above `searchId`). With a page size of zero the
  first page is empty and ends the dump.

### Java tracer: `TraceScopeProofs`

* `DeliveredExactlyOnce`: `Spec => []DeliveredExactly`. The monitor of a span belongs
  to the thread that delivers it (`MonitorInv`); a receiver that is still to be called
  has not got the span, one that was called got it once (`OnceInv`), and every receiver
  that is due is on the list at hand or has got it (`AllInv`).
* `ScopesAreStacks`: `Spec => []StackDiscipline`. The property is about the youngest
  scope only; the invariant is that the whole chain of saved spans is a stack
  (`IsStack`): each open scope saved the span of the one below it.

### Web application and libraries: `WebProofs`

`LibraryParts` instantiates the libraries (`T` the timers, `A` the requests), `WebParts` the
rest (`Events`, `Model`, `Nav`, `Criteria`); the runs compose the same instances. The
theorems are about each specification by itself, for any value of its bounds, and state
the properties of the runs.

* `TimersAreExact`: `Wait \in Nat` and `Jump \in Int` imply `T!Spec => []TimersExact`, for
  `throttle` and `debounce` with all their options, calls from inside the function, and a
  clock that is set. `TimersInv` adds: a timeout keeps the arguments of the last call
  (`ArgsKept`); and while the clock was not set, `previous` of `throttle` is 0 or not
  before the last run, and a timeout is due `Wait` after it (`ThrottleApart`), and
  `debounce` has a timeout unless the last call is `Wait` ago (`DebounceQuiet`).
* `AjaxAnswersOnce`: `A!Spec => []OneAnswer` for a finite set of requests, with user code
  that aborts at every point, `ajaxSend` included.
  `AjaxInv` is about the stack of running code: a request has at most one activation
  that opens it and one that closes it (`OneAt`), what it has called so far follows from
  where that one stands (`FrameOK`), and a request that is neither in flight, ended nor
  lost to an exception has an activation that will go on with it (`RequestOK`).
  `jQuery.active` counts what was opened and has not ended, less the requests that were
  aborted in `ajaxSend` and counted down a second time (`twice`); without such a
  request the bracket holds.
* `EventsDelivered`: `Events!Spec => []Delivery`, without a
  hypothesis. An array of callbacks belongs to one object and name (`Arrays`), and is only
  appended to, because `off` makes new ones (`HeapGrows`): what a trigger saw when it
  came to an array is the beginning of it as long as it runs (`Triggers`). Wrappers of
  `once` that ran are spent (`Wrappers`), and a callback with a context has its object on
  the list of that listener (`Listening`). The parts of `EventInv` are kept
  one by one, with lemmas on what `on` and `off` do to a list.
* `ModelTracksChanges`: `Model!Spec => []ChangeTracking`, for a finite set of attributes with
  `id`. `Books`: `changed` is the difference from `_previousAttributes`, `id` the
  attribute, and a change not yet told has asked for its event (`_pending`). `TopAct`: while
  `_changing`, the loop of the outermost `set` is still to run, in the activation on
  top or below; and a `set` that is silent runs its loop at once (`Loud`), so that
  no change that is not silent is lost to it.
* `HistorySynced`: `StripOnce` implies `Nav!HistorySpec => []Nav!Synced`, for every order of
  `start`, `stop`, `navigate`, links, back and forward. `StripOnce` says that a fragment
  has nothing left to strip. `routeStripper` (`backbone-1.1.2.js:1332`) takes one leading `#`
  or `/` away, so that the theorem is about addresses with at most one; `//about` has
  the fragment `/about`, which `navigate` strips again. The argument: no step changes
  the address without an event (`Announced`).
* `PagesFollowAddress`: `PagesConstants` implies `Nav!Spec => []RightPage`; it says that each
  fragment finds a route of `router.js` and `about` its own, that `Spans` and `Lim` are
  numbers, and what `PredsFit` says of the criteria. `PageKept`: the router's view is the only one that is live, delegated and in
  the navigation bar. `Agrees`: it is the one that the fragment asks for, or the
  about page is still on its way, or came late, or failed.
* `ResultsInOrder`: `PagesConstants` and `CriteriaConstants` imply that `SearchPages` always
  holds under `Nav!Spec`, if in the part `criteria` the criterion and the text are among
  those that can be chosen and entered. It holds for any criteria of which `PredsFit` is
  true: "more than" is closed upwards in the values of its field, "at most" downwards,
  and an id is one span's. `Paged`: a view has at most one query under way; a query that
  continues results for its own criteria was asked with a last result that matches them,
  and that no result left of a clear comes after (`Awaits`). The page that answers it
  is behind that result in the order of the source (`PageAfter`), and strictly behind it
  unless the source is an "at most" criterion. The criteria reach htraced in a form it
  reads for any last date and any larger 64-bit limit (`CriteriaNormalized`).

### Assumptions

Those of `WebProofs` stand in its theorems, and `MCWeb` has them evaluated for the
routes of the application and its criteria (`ConstantsFit`). The others are those of the modules on their constants, which TLC evaluates in the runs: a positive
number of shards, identifiers within the unsigned and times within the signed range,
the numbers in predicates within the range of their field (what `strconv` accepts),
requests that are sequences of spans, `Nil` not a span; at least one worker; names of
threads that differ from one another and from the words `xmit` and `free` that stand
for the receiver's own threads, spans that differ from the threads that close.

### Only model-checked

* All liveness properties: fairness and `ENABLED` are out of the prover's reach.
* `QueuesInOrder` (`JQueryQueue`), `Algorithms` (`Underscore`, `MomentDates`), `Canvas` and
  `ChosenOnly` (`SpanTree`, `HBaseViewer`), the carousels of `WidgetsSettle` (`BsPanels`): these
  modules have recursive operators, for rounds of callbacks, trees, templates and
  parsing, which the prover does not take.
* `BatchExact` (`JQueryCallbackList`), `IsPromise` and `Derivation` (`JQueryDeferred`),
  `Bookkeeping` (`JQueryEvent`), `Indexed` (`BackboneCollection`), `ClickOnce`
  (`CanvasWidgets`): their lists are made by folds and `SelectSeq`, and what these compute
  for every input is an induction over data. `BackboneEvents` and `WebNav` list the elements
  at some indexes of a sequence by an order of the indexes (`InOrder`, `At`) instead,
  which can be reasoned about.
* The other parts of `WidgetsSettle`: small machines, whose states TLC visits all.

## 5. Where the code departs from its documentation

Four departures have a run of their own (section 3). The following came up in
modelling; the models contain the behaviour, and the properties of the passing runs
exclude it by their preconditions.

* The posting thread of the REST receiver may die of a runtime exception: its batch and
  what is in the deque are gone, and `close`, whose `join` and `isAlive` only ask whether
  the thread has ended (`HTracedRESTReceiver.java:361`), returns as after a regular end.
  `CloseCompletes` requires for this case only that nothing was posted twice.
* *greater than* skips at most one entry equal to its bound and gives up at the
  second (`datastore.go:894`); `AscendingFirstPage` is about `eq` and `ge`.
* A continued *greater than or equal* query becomes *greater than* the value of
  `prev` and loses the spans that share it (`datastore.go:779`); a continued *less
  than or equal* query seeks upwards and repeats spans; a continued *equals* query
  starts again after the largest identifier. `PagingExact` excludes ties, descending
  queries and that identifier.
* The entries of several shards are merged by value only, so that *equals* results
  are not sorted by span id (`datastore.go:764`).
* Overwriting a span leaves its old index entries; a query that meets one stops
  reading the shard (`datastore.go:901`).
* `Client.FindChildren` prints the limit in decimal, `getReqField32` reads it in
  hexadecimal (`rest.go:96`); one of nine digits or more is refused for its size.
* `htraced_rcv_flush` returns at once if a round began in the same millisecond
  (`htraced.c:666`); `FlushSends` is about later rounds.
* The queue receivers do not clear their list after an error
  (`ZipkinSpanReceiver.java:299`): the next batch may exceed the maximum, spans are
  sent twice, and nothing is ever dropped after `MAX_ERRORS`. An idle HBase
  worker that cannot connect dies of a null pointer (`HBaseSpanReceiver.java:200`).
* `PostSpans` goes to sleep without a look at `mustStartFlush` or the size of the
  deque (`HTracedRESTReceiver.java:274`), and sends on `>`, where the comment says that
  `maxToSendAtATime` spans are enough: flushes and full batches may wait for a period.
* `LocalFileSpanReceiver.close` may overtake a thread that is about to flush a full
  array, whose spans are then lost (line 187). All newlines come from one static
  buffer that is never rewound: only the first write has any.

In the web application and its libraries:

* The answer for the about page switches the view also when the reader is on another
  page by now (`router.js:41`); `RightPage` excuses it. The new search view is made
  before the old one is closed, whose `$(window).off("resize")` removes the handler of
  the new one too (`search_results_view.js`). An answer for a closed view throws.
* The criteria may be changed between two searches. The results so far stay, and the last
  of them is sent as `prev` under the new criteria (`search_view.js:87`), so that the
  list goes on with spans that it has already, that come before others in any order, or
  beside results that do not match. An "at most" source repeats spans also under the
  same criteria. `SearchPages` says nothing of the results of several criteria (`under` is
  the history variable for them), and not that those of an "at most" source come once.
* After a search that failed, the results are reset and the canvas is not drawn
  (`search_view.js:128`); `Canvas` excludes it until the next drawing.
* `clearHandler` looks at selected descendants only until the first selected result was
  found (`search_results_view.js:383`), so a later result may stay. `setTimes` takes 0
  for "not given", and `MINIMUM_TIME_SPAN` of `this` is undefined there: the range has
  no end before the first zoom.
* A date of digits beyond the range of `Date` is sent as "NaN", a duration beyond 64 bits
  as it is; a date before 1970 becomes a signed number. A start or end of a span that
  is 0 or negative is dropped by `unparse`.
* A dialog asked for while another one fades may be lost, and leaves handlers behind;
  a tip may stay invisible after a quick return of the mouse; quick clicks on tabs
  leave two panes active; `ScrollSpy` alternates at the exact border of a section and
  keeps offsets of an older layout; `Affix` needs a second event from bottom to top.
  `WidgetsSettle` excludes these (`overlap`, `overtaken`, `stale` are history
  variables for them).
* `clearQueue` while a queued function runs resolves promises early and lets two run
  at once. A success callback that throws leaves `jQuery.active` too high. If a handler of
  `ajaxSend` aborts the request, `done` runs, and `ajax` sends it all the same: without
  its transport, which `done` has dropped, this raises an exception, and since the state
  was set back to 1, `done`, "Called once" (`jquery-2.1.4.js:8183`), runs again and counts
  `jQuery.active` down again, so that `ajaxStart` and `ajaxStop` are wrong from then on.
* `isEqual` is not symmetric on objects with cycles. `debounce` runs at once if its
  timer ends in the millisecond of the last call.
* moment: the months of the years 0 to 99 are as long as those of 1900 to 1999, so that
  February of the year 0 has 28 days; 24:00 on December 31 before 1970 becomes
  the beginning of that year; ISO week days that lie in the following year are
  refused. The constants of `MomentDates` leave these years out.
* The HBase viewer draws nothing of a trace without a root, omits spans whose ancestors
  are missing, and divides by zero if all times are equal.

## 6. Not modelled

* In the modelled libraries: the selector engine, CSS, DOM manipulation and effects
  of jQuery; `pushState`, iframes, and a collection that changes under `set`'s own
  removals; geometry and most options of Bootstrap, and handlers that cancel
  its events; locales, durations and offsets of moment. They are pure functions of the
  browser's document or are not reached from the application.
* In the application: drawing in pixels, the details of a span (a double click),
  `search_result.js` and `span_details_view.js`, which no page loads.
* d3, generated code, start-up and configuration, formatters, process names.
* Go logging, the C tracer with its hash table, the HRPC codec, the version record of a
  shard: see the plan.

Restrictions inside the models: one mouse button; accordions begin closed; carousels
wrap; handlers of a collection's events do not add the model that is being
removed; a list given to `set` has a model twice only if it is a list of two, and if that
model has no id and the list gives the order, it is then in the collection twice while
`length` counts it once (`backbone-1.1.2.js:714`): `Indexed` says so much of this state, and
what is called afterwards is not modelled; the range of time is changed only in the first
operations on a tree (`MaxTimeOps`); only the queue `fx`, and nobody but `next` calls
`dequeue`; texts are known by what the code asks of them (length, kind, value).

## 7. Plan

1. **Core (done)**: the store, reads, dump, the receivers, the tracer.
2. **Web application (done)**: libraries, pages, widgets, the HBase viewer.
3. **Left to model**: `ShardStartup` (CreateShard, version record, crash during
   creation), folded into the `datastore` run; `Hrpc` (connect, partial writes and
   reads, sequence numbers), composed with `HtracedRcv`; `CScope` (C tracer and
   scopes) with its hash table; samplers and `TraceTree` as operators.
4. **Theorems (section 4)**: left are the callback lists of jQuery and the refinement of
   `Promises`, once the lists are stated without folds.
