# A verification project for MX-TCE

MX-TCE computes paths through several network domains. A client asks for a path
over a binary API or over XML-RPC, a compute worker computes it on a snapshot of
the topology from which the reservations of other domains were subtracted, and
the client gets a path or a stitching RSpec with the order in which the aggregates
along it have to be asked. This directory models the parts of the program whose
correctness lies in the order of things: threads, queues, polling, replies that
come late, clients that leave, workflows that crank back, bandwidth that is held and given
back, and the algorithms whose results others rely on: the search for paths, the tree of a
bridging request, the series of reservations over time, the workflow dependencies. Each module is translated from the C++ source under `src/src/`;
`PROJECT.json` names the lines for each definition.

## 1. The system

### Threads and how they interact

The process runs one *core* thread (`main/mxtce.cc`) and around it the binary API
server (`api/`), the XML-RPC server (`geni/`), the TEDB manager (`tedbManager/`),
the reservation manager (`resvManager/`), the policy manager, and one *compute
worker* per request (`compute/`). Threads share almost nothing. Each has an
`EventMaster` (an event loop over `select`, `common/event.cc`) and a pipe, a
socketpair with a `MessagePort` at each end (`common/message.cc`), to the core. The core's
`MessageRouter` forwards every message by queue name and topic.

A request takes this way: the server posts an `API_REQUEST`; the core creates a
worker and its port, starts it and sends it a `COMPUTE_REQUEST`; actions of the
worker ask for a TEWG, a snapshot of the topology, which goes from the worker
through the core to the TEDB manager, from there to the reservation manager, which
adds its deltas, and back; the worker answers with a `COMPUTE_REPLY`; the core
deletes the port, stops and joins the worker and sends the result to the server.
Independently of this, pollers of other domains push their reservations into the
reservation manager, which has the TEDB manager resolve their paths.

### Inventory

| Component | State | Operations | Hard behaviour | What makes it correct |
|---|---|---|---|---|
| Event loop and pipes | event lists, descriptor sets, in- and outQueue, socket | Schedule, Remove, Fetch, ModifyFDSets, Run, PostMessage, GetMessage, Close, Attach/DetachPipes | events hop between lists while ports close; writer scheduled for the first message only | no wakeup lost, no event in two lists, no closed descriptor selected, order kept |
| Compute worker and its actions | state of each action, priority and nice lists, expected topics, replies | Process, ProcessMessages, ProcessChildren, Finish, CleanUp, Cancel, HandleMessage, HandleException | polling of trees, failures and exceptions of parallel branches, replies matched by topic and context | one answer, complete, from own replies; nothing runs after it |
| Core | ports, routes, loopback queue, priority events, workers | ReadMessage, Route, HandleRequest, HandleReply, Join | one thread serves all and blocks in Join; port deleted under messages | each request answered once; nothing cut; threads reclaimed |
| Reservation manager | RDatabase, push connections, queues of two threads | HandleAPIMessage, TEDB_ADD_RESV(_REPLY), TEWG_RESV_REQUEST | interleaved bursts, marks and late replies, erasing in a loop, snapshots | no live reservation lost or counted twice, stale ones expire |
| XML-RPC server | a lock, a shared event loop and port, timer, discarded tags | execute, hookRunCallback, timer | late replies to calls that gave up; faults under the lock | own reply only; every call returns |
| Workflow data | dependencies of hops, flags | LoadPath, ComputeDependency, MergeDependencies | loops, order of merging | loop-free, complete, flags match |
| Path search | work data and filters of nodes and links, candidates, results | ComputeDijkstraPath, ComputeKShortestPaths, ExpandWithRemoteLinks, VerifyLoopFree | filters kept over rounds, work data shared by nested searches | routes only, each once, by cost |
| MPVB workflow | terminals, their order, reentry counter, service topology, VLAN sets | Prestage, BridgeTerminal, BackoffAndDisturb, Finalize, TreeToPaths | crankback, paths tested one by one against the tree of their moment, undefined results | a tree with one VLAN, that ends, and a manifest that has all of it |
| Scheduling workflow | TEWG per context, series and graphs of links, time points, held reservations | ComputeKSP, CreateOrderedATS, ComputeSchedulesWithKSP (two rounds), ReorderPaths, Finalize | bandwidth applied, pruned and given back over many time points; what is held is shared between contexts | no overbooking, exact series, failure only for a reason |
| Binary API server | connections, groups, GRIs, queues of writers, the event loop's lists | Accept, HandleAPIMessage, hookHandleMessage, Run of readers and writers | disconnects during a computation, reuse of a GRI, of a reader's address or of a descriptor's number, a closed descriptor that stays selected | own answers only, connections kept awake, the process ends only for named reasons |
| API codecs | messages | encoding and decoding of requests, encoding of replies | sizes at a boundary, counts that are announced, positions of hops | what was sent is read; what is announced follows |
| Policy manager, configuration, RSpec parsing, topology import, logging, test client | – | – | stateless, start-up only, or never started | not modelled (reasons in `PROJECT.json`) |

The hazards of this code, each at its line and with the properties that watch it,
are the list `hazards` of `PROJECT.json`.

## 2. Modules

### `Channel`, `MessagePort` – one message pipe

`MessagePort` models the two ends of one `MessagePipe`, the reader, writer and
router events and both event loops. The place of an event is a subset of
{armed, ready}: *armed* is the reads or writes list of the EventMaster together
with the bit in the descriptor set, *ready* the ready list. `AttachPipes`,
`PostMessage`, `ModifyFDSets`, `RunReader`, `RunWriter`, `RunRouter` and
`DetachPipes` are the operations of the same names; `Close` is called where the
code calls it, from an end of file or from the deletion of the port. A write to a
pipe whose other end is closed throws and nobody catches it: `process` becomes
"aborted".

`Channel` is what the pipe promises: per direction a queue in which an urgent
message overtakes, and a link that may be cut. `IsChannel` states the refinement:
the channel's queue is the concatenation of inQueue, socket and outQueue.

`EventList` holds two operators that several modules use for what a loop leaves of a list: `Keep` (the
elements at some places) and `Sieve` (those in a set). They are recursive functions and not
`SelectSeq`, whose recursion is in an operator, so that lemmas about them can be proved.

Abstracted: bytes (a message is written and read whole), the priority of pipes
against each other, timers. `WriteNeverBlocks` is stated in messages; the step to
bytes is that a message has at most `MAX_MSG_SIZE` = 4096 bytes (`message.hh`),
far less than what a stream socket that `select` reports writable takes.

### `ComputeJob`, `ActionTree` – one compute worker

`ActionTree` models the worker's loop: actions move from the priority list to the
list of nice events, run by turns and are polled for ever. One action `RunAction` is a
turn in which no message has come, one `HandleMessage` a turn in which one has.
The trees, their roots, the topics and contexts are constants. `MCComputeWorker` holds
the workflows of all four worker types that `CreateComputeWorker` knows: the chains of the simple
and of the bridging worker, the coordinator with three subworkers under a judge, and the
parallel branches of the multi-point-to-point worker. `ComputeJob` is the promise of a
worker: it answers once, asks nothing afterwards, and gives no results before all its
requests were answered; `IsJob` is the refinement. What the workflows have besides being trees is stated
twice: `SeparateContexts` (of the actions under one root that expect the same topic each has a context of its own; for the
subworkers it is the id of a path in the client's document) and `DecidesAlone` (the worker
that answers by what has succeeded has no subworkers). `MCWorkflows` has TLC evaluate both.

Abstracted: what a path is. Left out because unreachable: the `throw` in the
judge's Finish (the test at `coordinate_actions.cc:194` is always true, so that a failing
round cancels every subworker before Finish looks for failed ones), the case of a finished action in `Run` (`PolledOnce`, a part of `QuietAfterAnswer`, says so). Left out: a
port that goes down under a running tree (`action.cc:48`).

### `RequestServer`, `TceCore` – the core

`TceCore` models the core thread as a sequence of single events (`ReadMessage`,
`Route`, `RouterDone`, `HandleRequest`, `HandleReply`, `JoinDone`) between
which the other threads take steps. `Fetch` prefers priority events to readable ports,
so the core finishes one message before it reads another: `Readable`. `Join`
blocks the core until the worker's loop has seen `Stop`. What a worker does
is an abstraction of `ActionTree` (ask, be told, answer, or throw at any time
with a part of its outQueue unsent); pipes keep order, as `MessagePort` shows.
`RequestServer` is the promise: every request is answered, once, to its server.

Left out: client connections and the reuse of a GRI (module `ApiServer`), the leaks of routes and worker objects, the exception branches of
`mxtce.cc` that no message reaches (`rspec.cc:1436` refuses an empty TLV list).

### `ResvManager` – reservations of other domains

The pollers (external scripts), the push connections, the RDatabase and the queues between the
two manager threads, and workers whose TEWG collects deltas. HEAD marks the
reservations of the domain, each push renews one or has it resolved, LAST erases what
is still marked, with a loop that skips the entry after each erased one.
`EraseMarked` says which places that leaves, in closed form; `MCResvManager` has the loop as the code writes it
(`EraseLoop`) and TLC compares them on all lists of up to 7 entries. Connections break inside a burst; an empty list is not sent at all.

### `XmlRpcApi` – calls of the XML-RPC server

All calls share one method object, event loop and port; a mutex serves one after the
other. `Read` is the loop's reader with `HasValidMessage` as its callback, `Timeout` the timer;
`CollectReply`, `CollectOthers`, `CollectNothing` are the ways `execute`
goes on, and `Fault` an exception that leaves the mutex locked. Replies
of calls that gave up arrive during later ones; their tags have been *discarded*.

### `WorkflowData` – the order in which aggregates are asked

A pair ⟨u, l⟩ of `rel[p]` says that hop u of path p depends on hop l. One action
is one iteration of a loop of `workflow.cc`: `Produce`, `Order`, `Share`
(`ComputeDependency`: steps 1, 2 and 3, 4b), `MergeHop` (`MergeDependencies`).
`Choose` and `TakeNext` take the paths in the order in which
`xmlrpc_apiserver.cc` (from the end of an array with the longer paths first)
or `rspec.cc` (branches of a tree in their order) merge them.
`Reach` is the recursion of `CheckDependencyLoop` as a least closed set, which the
provers can handle. It is assumed that every link has an L2SC descriptor (without one
the loop at `workflow.cc:177` compares iterators of two lists) and that a
path uses a link once. Tag sets are finite sets; the wildcard "any" is left out.
The comments at `xmlrpc_apiserver.cc:219` and `:234` speak of ascending order in
the array and descending order of merging; the code does the opposite of both,
and the model follows the code. No property depends on the order.

### `ComputeKSP` – the path search

One action is one iteration of a loop; `phase` is the loop the code is in. `RelaxSource`
and `Settle` are the two parts of `ComputeDijkstraPath`, `FirstPath` to `EndBranches`
the rounds of `ComputeKShortestPaths`, `Verify` and `Finish` the second half of
`Action_ComputeKSP::Process`. The searches share `pathTo`, `pathCost` and the filters
with the rounds around them, as the work data of nodes and links does.
The model follows the code where it departs from Yen's algorithm:

- filters on root nodes are kept for all later rounds, and nodes between the
  deviation node and the spur get none. Some paths are never found, and
  some sequences that are found come back to a node; these take places among the
  K and are thrown out by `VerifyLoopFree` only afterwards;
- with parallel links, the relaxation of the source appends to the path of its
  neighbour (`tewg.cc:2515`), which leaves sequences of links that do not join;
- a search that fails is ignored, and what it left at the destination is taken;
- a destination nearest to the source is never found: the exception for "no path found" is
  thrown although there is one (`DstIsNearest` in `KShortest`).

`RoutesOnly` says that whatever the search does, `VerifyLoopFree` on the expanded path lets only
loop-free routes pass. Abstracted: hop inclusion and TE constraints (a choice in
`Verify`), pruning (a choice of topology), the artificial nodes at the edges (the two
ends of `ExpandWithRemoteLinks`), bandwidth graphs.

### `ApiServer` – clients of the binary API

One thread and one event loop with the lists of `EventMaster`: `Accept`, `HandleAPIMessage`,
`ReadFails` and `ReadNothing` are the turns of the listening socket and of a reader, `HandleReply` the turn of the
core's port, `Write`, `WriteFails` and `WriteNothing` those of a writer. `apiClientConns` maps a GRI to the
address of a reader; readers are deleted when their client leaves and the address is used
again. So the model has addresses with owners: an answer to a reader that is gone reaches
nobody, ends the process, or reaches another client, whatever the allocator did.

The loop knows a connection by the number of its descriptor, and the model has the numbers (`fd`, `Descriptor`), the two
descriptor sets (`readfd`, `writefd`) and the lists separately, for they come apart:

- `Schedule` takes an event whose bit is set to be listed already and does nothing (`ListedOrNot`);
- `APIReader::Run` closes the descriptor of a client that left while its writer is listed: the bit of the writer
  stays, `select` fails and the loop reads nothing (`Deaf`) until some socket of the process gets the number;
- a new socket gets the lowest number that is free (`IsNext`). `accept` may find the number free again in the same batch of ready events,
  a socket of another thread (`OpenElsewhere`) at any time. Then `select` works again; the new
  connection is taken for listed although it is not, and is not written (or not read) any more;
- the closed writer in the list has the number -1, for which `FD_ISSET` looks at a bit of the set's own words (`Number`: bit 63 in
  the build, the constant `Wild`), so that it stays in the list or is moved when that number is ready.

`heirs` records who got a number with a bit still set; `ConnectionAwake` is about everybody else: none of this may
reach a connection that did not inherit a bit. The histories `asked`, `gathering`, `clash` and `gone` record what the other properties
except. Abstracted are bytes, the decoding (module `ApiCodec`) and the core. Left out: that `ReadMessage`, the writer's `Close` and the
reader's `Close` close one number up to three times (`api.cc:183`, `:184`, `:215`), which between two of these calls could hit a socket
another thread has just opened; the model closes it once.

### `ApiCodec` – the messages of the binary API

Pure operators and one step per exchange: `Encode` a request as a client does, `Decode` it as the server
does, take the result through `EncodeReply`. Integers have their width: the encoder drops
leading bytes, the decoder extends the sign. Tags are names and strings are opaque.

### `BridgeTerminal`, `BridgeManifest` – multi-point VLAN bridging

`Prestage` orders the terminals and seeds the service topology (SMT) with a path between
the first two; each `Bridge` attaches the next one, or `BackoffAndDisturb` takes the last
two back and moves the failing one to the end; `Finalize` suggests VLANs. `TagsAlong` and
`VerifyTEConstraints` are the propagation of VLAN sets along a path. `build` holds the outcomes of
two pieces of undefined behaviour: `VerifyBridgePath` returns nothing at its end, and `RemoveNode` compares with an
iterator that was never set. `BridgeManifest` adds the hops that
`rspec.cc` writes and the paths `TreeToPaths` makes of the tree.

Abstracted: metric 1, symmetric links with at most one between two nodes; the exclusion of VLANs
in use is folded into `avail`; artificial nodes ("*") are not in the model. What the path search finds is the constant `Routes`, walks
in the topology; in the runs it is a reference search (`MCRoutes`) in the order and with the omissions of `ComputeKSP`.

### `DeltaSeries`, `Schedules` – bandwidth over time

`DeltaSeries` is `AggregateDeltaSeries` (adding deltas by splitting them), the join over a
window, the bandwidth availability graphs, and what applying and revoking a delta does to a
link. `Schedules` is the workflow on top of it: in each of three contexts (preferred, maximum and minimum bandwidth)
one action per step of `compute_actions.cc`, with a TEWG of its own; what is held is shared.
`CountOfPrunedLink` is the NULL pointer a pruned link leaves behind. It follows the code where one would not expect it:

- the path search of every sub-path uses the constraint of the first one, and its time
  points are those of the first one; what the window costs in the first search is never given back;
- `orderedLinks` may get a link several times (no break after the insertion);
- `erase` inside the loops over time points skips the element after an erased one, and wraps at the end;
- `t - end >= length` compares without a sign, so that nearly every time qualifies;
- links pruned at one time point stay pruned;
- the graph of a path (`CreatePathBAG`, second round only) makes a series for every link of the path that has none, and it stays on the link of
  the TEWG (`KeepSeries`). By then the delta list may hold sub-paths that this context or another one has committed: such a series
  counts them, one of the first round does not, and later time points and sub-paths subtract whichever there is;
- `Swap` exchanges copies, so the second round has the order of the first; a missing sub-path fails an assertion;
- a held reservation is added to a link only if the link has none of the same GRI that is as new.

Left out: VLAN tags, hop lists other than excluded links, the minimum bandwidth of coscheduled requests,
artificial edge nodes, the weights of the reordering (they decide nothing). The clock stands still during a request.

## 3. What the runs check

| Run | Instance | Shows |
|---|---|---|
| `message_port` | 3 messages, one urgent, a socket that holds one | `NoLostWakeup`, `NoClosedFdSelected`, `WriteNeverBlocks`, the refinement of `Channel` and the delivery on a pipe that stays whole, with ends closing at any point |
| `compute_worker` | the trees of the four worker types, 30 actions, 15 of which may throw | one complete answer (`IsJob`) from own replies, failures stay in their branch, the tree is quiet after the answer, and the answer comes, fast when a subworker has failed |
| `resv_manager` | 2 domains, 4 reservations, 1 worker, at most 3 entries | nothing listed is lost, a TEWG counts what was known before its snapshot and nothing twice, what is no longer listed leaves for good |
| `tce_core` | one request per server | nothing is cut by deleting a port, clients hear of answers after the join, all is answered once and reclaimed |
| `xmlrpc_api` | 4 calls | own manifests, a loop stops for its own reply or its timer, every call returns unless one faulted |
| `workflow` | all pairs of 3 crossing routes over 6 links of 3 aggregates, 128 mixes of capabilities | no loops, flags match, every boundary between aggregates has an order that their hops share, nothing dropped by a merge |
| `compute_ksp` | K = 5 on all topologies over 7 lines, over 5 lines with two parallel ones, and over 4 lines of which directions are missing, each line with metric 1 or 2 | without parallel links what is handed out is a route, no path comes twice and none is cheaper than one before; none is found only when the destination is out of reach or the nearest neighbour |
| `api_server` | 3 clients, one of which may leave of its own accord, 1 GRI, 2 messages of every kind, 3 addresses, 3 descriptor numbers | answers reach who asked, except through a reused address; the process ends only for a GRI in use twice or a client that left; a connection that inherited no bit stays listed, to be read always and to be written while it has messages; answered in the end |
| `api_codec` | bytes of 16 values, integers of 2 and 3 bytes, 11 boundary bandwidths, paths of up to 3 hops, replies with every combination of parts | requests come back as sent, replies hold what they announce |
| `bridge` | 2 to 5 terminals, 2 bridges and a plain node, 9 topologies, 5 mixes of VLANs, both undefined outcomes | a tree at all times that Finalize never refuses, one VLAN, a whole manifest, crankback that ends |
| `all_bridged` | the same | *violation*: the comment "we have bridged all terminals sucessfully" is wrong after a crankback, the answer lacks terminals |
| `schedules` | 1 or 2 sub-paths over a ring of 4 lines with edges, 3 contexts, up to 4 reservations, times 0 to 5 | series, those made in the second round too, and graphs are exact at every time for what their link had when they were made, nothing is overbooked, bandwidth is given back, a request of one sub-path with one time to try fails only when no route fits |

The type invariants (`TypeOK`) hold in these instances as well; those of `MessagePort`, `ActionTree`,
`ResvManager`, `TceCore`, `XmlRpcApi`, `WorkflowData`, `ApiServer` and `ComputeKSP` are proved.

### What the code does that no run calls a violation

Met while modelling, contained in the models, and excepted by name in the properties:

- `resv_apiserver.cc:81`: LAST erases every second marked reservation only; the others go with a later burst (`StaleExpires`).
- `xmlrpc_apiserver.cc:255`: a timer that fires while only late replies of others are queued leaves the call without a result.
- `tewg.cc:2583`: a destination nearest to the source is not found (`DstIsNearest`).
- `tewg.cc:2517`: where two links run in parallel the relaxation of the source may leave both of them on a path, and
  a sequence of links that do not join can pass `VerifyLoopFree` (`RoutesOnly` is for topologies without them).
- `mpvb_actions.cc:333`: unlike `Action_ComputeKSP` the bridging workflow does not call `VerifyLoopFree`. A path that comes
  back to a node makes a cycle in the service topology, over which the recursion of `tewg.cc:1209` does not end; on a ring of three
  nodes the search finds such walks when asked for six paths (`IsTree` is for paths without them, `LoopFree`).
- `mpvb_actions.cc:354`: the second terminal gets the VLAN range of the first (`OneVlan` excludes it).
- `event.cc:366`: a closed client makes the loop of the API server deaf (`Answered` is for clients that stay).
- `event.cc:87`, `:102`: a connection that gets the number of one closed with a bit still set is never read or never written (`ConnectionAwake` excepts `heirs`).
- `tewg.cc:2131`: series of one TEWG are made at different moments and count different sub-paths (`SeriesExact` says which).
- `compute_actions.cc:1349`: a held sub-path whose duration rounds to zero leaves an empty delta, which makes a series no sum (`Lasting` in `SeriesExact`).
- `scheduling.cc:206`: `Join` goes over its own deltas; the graph of a path is that of its first link.
- `compute_actions.cc:770`, `:1755`: requests with several sub-paths may end the process (`FailsForAReason` is for one).
- `compute_actions.cc:1085`: with several time points a request may fail although it fits at the first (`FailsForAReason` is for one time, and for a duration above zero).

### Bounds, and why they are enough

- *Messages*: three let an urgent one overtake one that is not and leave a third
  behind; with a socket of one message the writer has to reschedule itself.
- *Actions*: three subworkers let one fail, one succeed and one be outstanding;
  two parallel branches show that failures do not spread; a third context would be a third of the same.
- *Requests*: two let the core join one worker while the messages of the other
  wait. Three were explored for the safety properties.
- *Reservations*: `MaxEntries` limits only how far bursts overtake the replies to
  earlier ones; the lists contain nothing, a reservation alone, two in a row (for the
  skipped entry), one that crosses both domains and one that never loads.
- *Calls*: with four, a reply may come two calls after its own gave up while a third waits.
- *Links*: six give one aggregate three hops, one two and one a single hop, routes that
  come back to an aggregate, and paths that cross in opposite directions, which is where loops would arise.
- *Topologies*: five nodes hold a root of two nodes, a spur and a way back into the root; five
  rounds are enough for filters of one round to hinder a third. K is min(2·nodes, 100) in the code;
  a K below what a topology has shows the cut-off as well.
- *Clients*: with three, one that has a reply to write leaves, another takes its number in the same batch, or its address, and a third stays to be
  disturbed; a malformed message closes more of them than may leave (`MaxLeaves` = 1). They use one GRI, for interference needs
  one. `MaxSends` = 2 lets a group be whole or a request meet another. Clients are alike, so they connect in one
  order (`Order`) and are accepted in it, as a listening socket does; addresses are alike until they are used, so new ones are taken in
  their order (`Allocates`). There are as many numbers as clients: other threads take what is left over (`OpenElsewhere` keeps one for each client to come).
- *Widths*: bytes of 16 values keep every size and both signs of an integer within reach.
- *Terminals*: five are three beyond the seed, so that a crankback takes back two, moves one, and reaches the end of the order; at the limit of reentries bridging fails.
- *Times*: five hold three reservations that overlap, contain and touch each other, on a
  link that both sub-paths use; capacities of 2 to 4 against bandwidths of 1 to 4 include links that are over-subscribed.
  Two requests of two sub-paths ask for graphs and more than one time, so that series are made while time points are still tried and after the first sub-path was held.

### Fairness, and why the code justifies it

Event loops are `while` loops without an exit but Stop: weak fairness of their
turns. `TceCore` needs strong fairness of `ReadMessage(p)` for each port:
`ModifyFDSets` moves every readable port to the ready list in one select and
`Fetch` serves all of them before the next. The timer of `XmlRpcApi` fires. In `ApiServer` the
turns of the loop are fair and the core answers (`tce_core` shows that it does). Nobody
has to post, to answer a worker, to throw, to push, to connect or to disconnect; `AnswersInTheEnd`, `Answered` and
`StaleExpires` are conditional on replies, on clients that stay and on bursts that complete.
`CrankbackEnds` and `GivesBack` are action properties and need no fairness.
`CHECK_DEADLOCK FALSE` is said where the system stops: an aborted process, a
worker after its answer, finitely many calls, a request that is answered or has failed.

## 4. What is proved

TLAPS checks every proof; the theorems hold for all values of the constants under
the named assumptions.

- **`MessagePort_proofs`** (any number of messages, any socket size ≥ 1):
  `TypeCorrect`, `WakeupsKept`, `ScheduledOnce`, `ClosedUnselected`, `WritesFit`.
  The invariant is inductive as a conjunction of these with facts on
  where the events of a port may be while it is new, open or closed: `NoLostWakeup` alone does not tell
  that a reader in the ready list comes back, nor `WriteNeverBlocks` that a ready writer is not armed.
  `PipeIsChannel`: the pipe implements the channel. Every step is mapped to a channel step or
  a stutter; the invariant supplies that a message is in one queue only.
- **`EventList_proofs`**: the lemmas on lists. Induction over a list is not to be had, so `Recursion` shows that a function defined by
  recursion up to a bound is there, and `Climb` that what holds at 0 and passes from each number to the
  next holds at the bound, both by way of a least number (`LeastNumber`) where it fails. `KeepElements` and `SieveElements` say what is left of a
  list, how often and in what order.
- **`ActionTree_proofs`** (any forest of actions, each with finitely many ancestors): `TypeCorrect`, `QuietInTheEnd`,
  `BranchesFailAlone`, `OwnRepliesOnly`, `WorkerIsJob`. `CleanUp` and `Cancel` act on all that is below an action, so the
  invariant speaks of whole subtrees: below an action that has come to its end everything has (`TermInv`),
  below one that has not scheduled its children nobody has begun (`IdleInv`), all that has happened is under one
  root (`RunInv`), who waits is in the lists once (`Uniq`, `ListInv`). `AskInv` and `OwnInv` follow
  each reply from the request to its asker; with separate contexts the only message of
  another that an action gets is an exception. `ResultInv` is why nothing is thrown after results.
- **`ActionTree_proofs`**, for the scheduling workflow (any links, capacities, routes, bookings and requests, any `MAX_ATS_SIZE`): `SchedulesKeepTypes`,
  `TimePointsAreTried`, `SeriesSumUp`, `FailsRightly`. `SchedulesInv` says what the actions may run on: no link has more left than its capacity, a search is only ever of a
  sub-path with a bandwidth, and the last action of a context is no search. The first is why revoking undoes applying: a link that survives the pruning
  had enough, so `Applied` took exactly what `Revoked` adds (`AppliedLeaves`, `RevokedLeaves`), and what holds between two time points is
  carried over all of them (`TimePointGivesBack`, `TimePointsGiveBack`). For the series,
  `AddDeltaAdds` says that adding a delta to an ordered series leaves it ordered and adds the delta's bandwidth at every time it covers:
  `MeetAdds` is one contact, `NextContact` that the contacts still ahead stay as they were while those behind are split. `GraphOfSeries` is
  the step from an ordered series to its graph. `SeriesInv` says what every series is the sum of: a first part of the
  delta list of its link that has all that was booked. Deltas are only ever added at the end of the list and never changed but for `applied`, so that stays true when
  a sub-path is held, and whatever series a round makes (`SeriesOf`, `KeepSeries`) is of the whole list of its moment. `FailsRightly` is about
  everything a context of one sub-path does in sequence: `FailsInv` says where it is (`StageInv`), that the bandwidth of the links that are
  left is their capacity until the last search (`FreeInv`), and that every link that is gone would not fit at the one time (`GoneInv`); so when
  the search finds nothing, no route fits (`ReasonInv`). What a window says is held is held at one of its times (`WindowHolds`), so a
  link that is pruned for it does not fit (`MisfitAtTime`), and a route whose links all survive is found (`NoRouteFits`).
- **`ResvManager_proofs`** (any domains, reservations, lists, workers): `TypeCorrect`, `ListedStay`, `EachCounted`.
  `NothingLost` is about the moments when all is handled; in between, `KeptInv` follows a listed reservation through the socket, the queue to the TEDB manager,
  the queue back and the RDatabase, and needs that a HEAD waits only with its whole burst behind
  it (`BurstInv`). For `CountedOnce` the queue matters: what was known when a worker asked is in the
  RDatabase or ahead of the request in the queue (`QueueInv`).
- **`TceCore_proofs`** (any requests, two servers): `TypeCorrect`, `DealtWith`, `PortEmpty`, `JoinedFirst`,
  `ServesRequests`. `ControlInv` says that the core's events are one of four lists and that these tell
  where its only message is; the others follow a request from the server to its worker (`RequestInv`), its answer, which is
  the last the worker sends (`AnswerInv`), and the reply, which waits behind `Join` in the core's own
  queue (`ReplyInv`). `PortEmpty` comes from `AnswerInv`: when the core has the answer in its hands the pipe is empty.
  `ServesRequests` is the safety part of `IsRequestServer`, step by step.
- **`ApiServer_proofs`**, for the calls of `XmlRpcApi` (any set of them): `CallTypesCorrect`, `ServedAlone`,
  `OwnReplyStops`, `ManifestsOwn`. The invariant says that
  whoever runs holds the lock alone, that a reply is in one place, and that every
  reply still outstanding belongs to the call that is served or to a discarded tag; the
  last is why a late reply can stop nobody.
- **`WorkflowData_proofs`** (any links, routes, capabilities, any number of paths):
  `TypeCorrect`, `NeverALoop`, `FlagsMatch`. The central lemma, `AddPairs`, says that
  making all of A depend on all of B keeps a relation well-founded if nobody of A
  is reachable from B. The first pass checks no loops; there the invariant says
  that the hop it comes to is not related to anything yet. That a hop never
  depends on its own aggregate (`CrossInv`) makes the two ends of each new pair different.
  `MergeKeeps` and `WholeAggregates`: a relation only grows, and so does what is reachable in it, so whatever
  was ordered once stays so. A pair is decided on when the later of its hops is
  merged (`KeptInv`), a boundary when the second pass comes by (`BoundaryInv`); step 4b
  shares a dependency between the hops of an aggregate pair by pair, and `ShareInv`
  names a hop of the aggregate that has shared it with all it was compared with.
- **`ApiServer_proofs`** (any clients, addresses, GRIs, messages): `TypeCorrect`, `AnswersToAskers`, `EndsForAReason`,
  `ConnectionsAwake`. Of the event lists the invariant says that nothing is in them twice (`OnceInv`), that a
  writer is in them only while it has messages (`WriterInv`), that a reader
  that may run has one address (`ReaderInv`), and that no two connections have one number, and those without an inherited bit
  have bits set only for what is listed and are listed as they should (`AwakeInv`). The last is inductive only with both halves: that `Schedule` lists a writer
  follows from its bit not being set, and that from its not being listed. Of the answers: the connection remembered
  for a GRI has asked for it unless it went away (`RouteInv`), and a GRI that never
  clashed has one request or one reply on its way, and its connection until then (`UseInv`, with `GroupInv` for
  groups of requests); the second is what `DiesOfStrays` needs, for the process ends where the connection is missing.
- **`BridgeTerminal_proofs`**, for the bridging workflow (any topology, request, VLANs and path search): `TopologyIsTree`, `CrankbacksEnd`.
  A tree is here a finite set of links in both directions, twice one less than the nodes, in which every closed set of nodes is empty or whole
  (`TreeOf`, `Shaped`). Two arguments carry it: a loop-free path that touches the tree in its first node only adds as many
  nodes as lines (`Touches` is the test of the code), and taking away a node with one link leaves a tree (`Chain`). The rest of the
  invariant says that the order holds every terminal once (`InOrder`), that nothing is loaded before the seed (`Fresh`), that the
  current terminal is not the first and reentries are left (`Bridging`), and that crankbacks never reach the path between the first two
  terminals (`Seeded`): a set of links that has all those of the two and no other end. A crankback works from the end of a branch towards a node with several links, so
  what hangs elsewhere keeps its link (`KeepsOthers`); that bridging ends holds for every path search, loop-free or not.
- **`BridgeTerminal_proofs`**, for the path search (any topology, source, destination and K): `SearchTypes`, `HandsOutRoutes`. The
  invariant `SearchInv` follows a path from the relaxation of the source to the list that is handed out: it starts where its search does
  and avoids the destination until that is settled (`PathInv`), what waits in the queue has a path (`QueueInv`), a
  search starts at the link of the head path that is branched from (`StartInv`, `HeadInv`), and so every candidate is a walk from
  the source to the destination that passes through its deviation node (`CandidateInv`). Only walks, for a
  branch may come back to its root; `VerifiedOnce` shows that `VerifyLoopFree` lets none of those pass that joins, because the nodes
  of the links stand in the expanded path in the order of the links (`PlacesInOrder`).
  `CountInv` is why K results are never exceeded although the first path is added outside of the rounds.

`ScheduledOnce`, `ServedAlone` and `DealtWith` state `OneSchedule`, `OneServed` and `OneAtATime`, which no run
repeats, and `ServesRequests` the part of `IsRequestServer` that is not about fairness; the other theorems
are about properties of runs or the inductive invariants themselves (`Invariance`, `TypeCorrect`).

Assumptions: on constants `PortAssumption` (`MessagePort`), `TreeAssumption` and `WorkflowAssumption` (`ActionTree`; the actions are a forest in which
everyone has finitely many ancestors), `ResvAssumption` (`ResvManager`), `CoreAssumption` (`TceCore`), `CallsAssumption` (`XmlRpcApi`),
`BridgeAssumption` (`BridgeTerminal`), `SchedulesAssumption` (`Schedules`: times are natural numbers up to a horizon, a booking ends after it begins, a route has more than two links) and `EdgesAssumption` (every sub-path has a route, and its routes begin and end with the same edge links, for they have the same two end points), `SearchAssumption` (`ComputeKSP`: metrics are below the mark for "no path", and a link has an opposite one),
`WorkflowAssumption` (`WorkflowData`), and `MessageAssumption`, `BoundAssumption`, `ClientAssumption`, `AddressAssumption`, `DescriptorAssumption` (`ApiServer`: there is memory and a number for every client).
Each is evaluated by TLC in the component's run. `OwnRepliesOnly` has the hypothesis `SeparateContexts`, `WorkerIsJob` that and `DecidesAlone`, which
the workflows of `compute_worker` satisfy. Two multi-point links of
one document with the same `client_id` would break the first; `rspec.cc` does not look for them.

`TopologyIsTree` and the part of `CrankbacksEnd` on what a crankback keeps are conditional on `LoopFree`, `HandsOutRoutes` on `Simple`; the
runs have instances with and without.

Only model-checked:

- Liveness (`Delivered`, `AnswersInTheEnd`, `StaleExpires`, `Reclaimed`, `Returns`, `Answered`, and the fair part
  of `IsRequestServer`): liveness under fairness is out of this prover's reach.
- `ManifestWhole`: `BridgeManifest` has RECURSIVE operators, as `MCResvManager` has, and is for TLC only.
- `NoOverbooking`: it is no theorem for every value of the constants. `CreateOrderedATS` makes series for the links of the routes until it has
  `MAX_ATS_SIZE` time points, and a link without a series is tried as if nothing were booked on it; the runs stay below the 50 of the
  code.
- `OneVlan`, `KShortest`, and what `ApiCodec` says. Induction over data is out of reach, for no prover can
  instantiate a theorem with an operator as its parameter: facts about recursive functions
  are proved with the least numbers of `EventList_proofs` where they are needed (what a loop leaves of a list, the nodes a
  hop adds to a path, the cost of a path, `Deltas` of a TEWG, the deltas of a series), not for the tag sets of a tree, the order in which Dijkstra's search settles nodes
  or the fields of a reply.

## 5. Plan

The modules are done. Every component has its types and its most important safety properties proved, but `ApiCodec` and `BridgeManifest`.
What is left, most important first:

1. `Schedules`: `NoOverbooking` under the hypothesis that fewer than `MAX_ATS_SIZE` time points are found.
2. `ApiCodec`: `Announced`, from the lengths of what each part of a reply writes.
3. `ComputeKSP`: that the masks a candidate inherits keep its branches apart (the first half of `KShortest`).

## 6. Not modelled

- Data races on the router's lists (`xmlrpc_apiserver.cc:50`, `coordinate_actions.cc:282`) and the erased iterator of
  `DeletePort` (`message.cc:614`): undefined behaviour inside `std::list`, without outcomes to enumerate
  beyond the one the model takes.
- The parsing of RSpec and topology documents, YAML configuration, logs: pure input and output,
  run by one thread; their results are the constants of the models.
- The policy manager, whose message handler is empty; `schedule_worker.cc`, a type the
  factory does not know; the test client; `RemoveDelta`, `Condition` and the routes to "ALL", which nobody uses.
- The adaptation between layers in `VerifyTEConstraints` and the layer data of replies: only
  L2SC links take part in the workflows modelled.
- The reload of changed topology files by the timer of the TEDB manager.
- Leaks of routes, workers and paths: no behaviour depends on them.
