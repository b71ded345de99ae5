# A TLA+ model of vdht

vdht is a DHT daemon (`vdhtd`) with a small client library.  A daemon keeps a
table of other nodes, finds and announces services through them, and obeys local
clients over a Unix socket.  This directory holds TLA+ models of its core, the TLC
configurations that check them on small instances, and TLAPS proofs of the most
important invariants for every value of the constants.  `PROJECT.json` maps each
definition to the lines it models and lists runs, mutants, hazards and theorems.

## The system

| Part | Source | State | Operations |
|---|---|---|---|
| Node infos | `vnodeId.c` | id, version, weight, list of typed addresses; connections | add_addr, copy, merge; set, adjust |
| Node routing space | `vroute_node.c` | buckets of peers (info, connection, last contact, ping interval, counters), table `dht_peer` | add_node, kick_node, find_node, find_closest_nodes, adjust/probe_connectivity, tick, load, store, clear |
| Service routing space | `vroute_srvc.c` | buckets of service infos with time stamps | add_service, get_service |
| Ticket space | `vroute_tckt.c` | tickets TOKEN_CHECK, SRVC_PROBE, CONN_PROBE | add, check, timed_reap, clear |
| Route | `vroute.c` | the three spaces, `route->lock` | queries, responses, handlers of 13 messages |
| Node | `vnode.c` | mode, own info, services, `node->lock` | start, stop, wait_for_stop, tick, reflex_addr, post, unpost, find |
| Ticker | `vticker.c` | POSIX timer, callbacks, `ticker->lock` | start, stop; each expiry is a thread |
| Host, app, main | `vhost.c`, `vapp.c`, `vdhtapp.c`, `vmain.c` | `to_quit` | stabilize, start, run, exit, deinit |
| Messages, sockets | `vmsger.c`, `vrpc.c` | outgoing queue, set of sockets | push, pop, dispatch, laundry |
| Codec | `vdht.c`, `vdht_core.c` | none | encoders and decoders of 13 messages, bencoding |
| Local control | `vlsctl.c` | the socket's path | commands of clients and their answers |
| Client library | `lsctl/` | one call at a time, the path of its socket | 11 calls, two of which wait for an answer |
| Configuration | `vcfg.c` | a tree of items | parse, getters with defaults |

How they interact.  The main thread runs `_vhost_run`: it waits for its two sockets
and hands each DHT message to `_aux_route_msg_cb`, which holds `route->lock` while
the handler works on the spaces, and each datagram of a client to `vlsctl`, which
calls the host or the node.  The timer starts a thread at every expiry; it takes
`ticker->lock`, then `node->lock` for the whole of `_aux_node_tick_cb`, and calls
the route (load, store, tick, reflex, probes), each call under `route->lock`.
`exit` is executed by the main thread inside its own loop and waits there for the
ticker to take the node from DOWN to OFF.

What is hard.  Three locks taken by two kinds of threads in different orders; a
network that loses, delays and duplicates; timers that grow, shrink and are reset
by different events; full buckets; a process that dies at any moment and loads what
it saved; shutdown of parts that timer threads may still use; clients that must be
told something exactly once.  The list of hazards in `PROJECT.json` names the lines.

What makes each part correct:

* node routing space: a bucket never overflows, a node is in it once and in the
  bucket where lookups search it; only silence makes a node unreachable, and silence
  does; what was saved comes back; connections get better only, and after a limited
  number of probes; weights do not drift;
* tickets: a response is applied at most once and only for a query of ours; a client
  is told once, and told something;
* life of the daemon: no deadlock, a stop stops, an exit ends, saves and is quiet;
* services: what a node knows of a service is something its host really announced; the
  host's present version reaches its neighbours; what a node holds can be found;
* overlay: nodes that can reach each other learn each other; nobody is listed with an
  address that is not its own; a response counts only for the query it answers;
* codec: what is sent is what is read, and no part of it is taken for a message;
* clients: every call returns; an answer is one to the question that was asked; posted
  services are kept as the requests say, in their order;
* configuration: the daemon goes by what the file means.

## Modules

| Module | Models | State and actions |
|---|---|---|
| `NodeInfo` | `vnodeId.c` | operators on infos, address lists and connections |
| `NodeSpace` | `vroute_node.c` and the handlers of `vroute.c` that use it | see below |
| `MCNodeSpace` | | small instances: ids, infos, address lists |
| `NodeSpaceProofs` | | lemmas about address lists (add_addr, the loops of copy and merge), inductive invariant and theorems |
| `TicketSpace` | `vroute_tckt.c` and the queries and responses of `vroute.c` | see below |
| `ServiceLookup` | `lsctl/vdhtapi.h` | what `vdhtc_probe_service` promises its callers |
| `MCTicketSpace` | | three clients, two services |
| `TicketSpaceProofs` | | inductive invariant, theorems, refinement of `ServiceLookup` |
| `HostThreads` | `vhost.c`, `vnode.c`, `vticker.c`, the locking of `vroute.c` | see below |
| `MCHostThreads` | | two timer threads |
| `HostThreadsProofs` | | inductive invariant and theorems |
| `SrvcInfo` | `vsrvcInfo` of `vnodeId.c`, services of `vnode.c` | operators on service infos and on a host's list of services |
| `SrvcSpace` | `vroute_srvc.c`, `vnode_nice.c` | operators on buckets of services; the nice value |
| `Dht` | `vdht.c` | one operator per encoder and decoder of a message |
| `Bencode` | `vdht_core.c` | messages as datagrams and back: the recursive parser is a function of the tokens on a stack of calls; the encoder is written out for the four levels that a message has |
| `BencodeProofs` | | lemmas: the parser reads what the encoder writes |
| `Overlay` | `vroute.c`, `vnode.c` and what they call | several nodes and their network, see below |
| `MCOverlay` | | three nodes, for discovery and for services |
| `OverlayProofs` | | inductive invariant and theorems |
| `LocalWire` | `vlsctl.h`, packing in `vlsctl.c` and `lsctl/vlsctlc.c` | the datagrams of the control socket, word by word |
| `Config` | `vcfg.c` | the parser token by token, the settings |
| `ConfigText` | | how configuration files are written, and what is meant by them |
| `ConfigProofs` | | the parser reads what is written; the daemon's settings |
| `Control` | `lsctl/vdhtapi.c`, `vlsctl.c`, `vapp.c`, `vmain.c`, queues of `vrpc.c` and `vmsger.c` | clients and a daemon, see below |
| `Registry` | | what the control socket promises to clients that post services |
| `MCControl` | | two clients, five configuration files |
| `ControlProofs` | | round trips of the datagrams, inductive invariant, refinement of `Registry` |
| `Induction` | | induction over data, and what a fold computes, for the proofs |

**NodeSpace.**  `peers[b]` is the array of a bucket, in order; a peer has the fields
of `struct vpeer`.  `refresh[b]` is the age of `bucket[b].ts`, `db` the rows of
`dht_peer`, `mode`/`rows` the progress of a load, `probing` the CONN_PROBE tickets.
Each operation runs under `route->lock` and is one action, with everything the
handler does: `LearnNode` and `ProbeRsp` first kick the sender (`DO_KICK_NODEI`),
then work on the table that leaves.  `_vroute_load` is the exception: it reads row by
row, and the process may die in between, so each row is a step.  A store may write any part
`S` of its rows (`WriteBack`): each is a transaction of its own, those that SQLite refuses
are passed over, and a process may die after any of them.  That is one step followed by
`Restart`, since `route->lock` keeps everybody from the table meanwhile.  Time is an age per
peer that stops counting at `next_tmo`: the code only ever asks whether
`tick_ts + next_tmo` has passed.  The network offers any info of the constant
`NodeInfos` at any time, and back to us what `find_node` told others, so no message
need be remembered.  `FindWorst` states the result of the scan
`_aux_space_find_worst_nodei_cb` without the loop.

**TicketSpace.**  `tickets` is a set of `[type, key, age]`; `sent` are the queries
whose responses may come at any time, any number of times.  `told[c]` records the
calls of client c's number callback, `applied[n]` how many responses to nonce n got
past `DO_CHECK_TOKEN`.  Each ticket takes the time when it is made, so the token of an
operation may be a second older than the ticket made after it (`old`); a response about
a service may itself ask the peers for the service's host, with new nonces.

**HostThreads.**  `main` is the main thread's program counter, `tick[t]` that of timer
thread t, `owner[l]` the holder of a lock, `todo` the calls of the route a tick still
has to make, `dirty` whether nodes were learned that no store has written.  A step
is what happens between two acquisitions of locks.  `SIGEV_THREAD` timers may overlap,
so several timer threads exist.

**Overlay.**  The state of node i is `table[i]` (infos of its neighbours), `addrs[i]` (the
addresses in its own info), `tickets[i]` (queries under way), `srvcs[i]` (copies of other
hosts' services), `own[i]` and `nice[i]`; `net` holds the datagrams.  `Receive` is
`_aux_route_msg_cb`: it decodes with `Dht`, and each of the 13 disjuncts is a handler as a
whole, with the queries or the response it sends.  `Tick`, `NodeTick`, `ProbeService`,
`Post`, `Unpost`, `UnpostExt`, `Renice`, `JoinNode` and `Restart` are what a node does by
itself.  A step that sends lets the network lose any part of what is then under way; what
stays may be delivered again and in any order.  A received message is not removed, so
duplicates are possible everywhere.  Tables have no timers here: which neighbours are due
(`P`, `F`), which tickets are overdue (`R`) and which node makes way in a full table are
free choices, of which `NodeSpace` and `TicketSpace` make some.  A fake id is `NoId` for
all unknown nodes.  A nonce is a record that says who asked whom; the code draws
a number of 32 bits, `rand()` after `srand` with a seed that grows by the time with each
nonce.  That a node does not draw a number again while its query or an answer to it is
about is the one thing assumed of it (`Unused`); nodes may draw the same numbers.

**Bencode.**  A state of the parser is the stack of calls of `_be_decode` that are not over
yet.  It ends in one of four ways: a node (`Got`); NULL (`Failed`); the assertion that there
is data left, which `vdef.h` compiles in always and which ends the program (`Aborted`); or a
`be_free` of what was never set, a byte string without its content or an entry of a
dictionary that has only been allocated (`Undefined`).  Data that ends too early comes to
one of the last two, never to NULL: `nul` is the end of the data in the zeroed buffer, `cut` a
byte string of which the last bytes are missing.

**Control.**  `pc[c]` is where client c is in its call: each system call of
`_aux_dhtc_request` and `_aux_dhtc_req_and_rsp` is a step, since clients are processes that
share a path in the file system (`paths`).  `phase` is the daemon's: it reads its file,
binds its socket, looks for the pid file, runs, and ends by request or crash.  `inq` and
`outq` are the socket's datagrams and the answers to be sent, `own` the posted services.
`Rcv` is the receipt and execution of a datagram, one disjunct per command; `ProbeDone` the
end of a probe's ticket, whose answer goes to any client or nowhere, as the address is read
from freed memory.  `StrayStart` is a second `vdhtd` that takes the path away from the
running one before it notices it.  `ReadConfig` reads the text of one of `Files` with the
parser of `Config`.

**Config.**  The calls of `_aux_parse_dict`, `_aux_parse_list` and `_aux_parse_tuple` that
are not over yet are a stack; a state of the parser is this stack and the loop that the
innermost call is in: its own, or one that eats blanks, a comment or what may follow a
bracket, or collects the words of a key or value.  `Parsed` is what one more token does, and
`Parse` goes through the text.  `ConfigText` describes files from their author's side: a
layout is a record of keys, values and everything between them, with a text (`FileText`) and
the dictionary that is meant (`FileItem`).

## Runs

| Run | Question | Bounds |
|---|---|---|
| `node_table` | does the table stay a table, do timers tell silence, do weights drift, does everything saved come back, also after stores that wrote a part? | one bucket of 2 places, 3 nodes that want in (one of our version, an older, a fake one), infos about ourselves; intervals 1, 2, 8; 4 pings counted |
| `node_conn` | addresses and connections while nodes move and probes are late; is a node probed a limited number of times at one address list? | two buckets of one place, a real node with two lists, one unsorted, and a fake one, two addresses, one local address; one probe per list |
| `node_silence` | do silent nodes end up unreachable, whatever gossip says? | as `node_table`, with intervals 1, 3, 4 |
| `node_replace` | (violated) is the worst node replaced? | as `node_table` |
| `node_answer` | (violated) does an answer touch its sender only? | as `node_table` |
| `tickets` | told once, applied once, paired tickets, implements `ServiceLookup`, told something | 3 clients (two for the same service), 2 queries, tickets overdue after 3 |
| `tickets_told` | (violated) is every client told? | same |
| `host` | quiet deinit, saving exit, stop and exit end, ticker goes on with a public address | 2 timer threads |
| `host_nat` | (violated) does the ticker go on with a private address? | same |
| `overlay_join` | do nodes that can reach each other find each other, and the newcomer its neighbour's nodes, whatever is lost, repeated or restarted? is every datagram read as it was written, and no part of one as a message? | 3 nodes, one of which knows only an address; 2 datagrams under way, one restart |
| `overlay_share` | are copies of services unmixed, tables true, answers matched, services findable, and does the present version arrive? | 3 nodes, one behind a NAT, two hosts with 2 services or 2 addresses of one; buckets of one entry; 1 datagram under way, 2 changes |
| `control` | does every call return, with an answer to its own question; are posted services kept; does the daemon go by its file? | 2 clients that share a path, 3 calls, 2 starts, one crash or stray start, 5 files |

Why the bounds are enough. A bucket of two places has all the cases of `add_node`
(known, room, full with and without a worst node), and three nodes make it full; the
counters go one beyond each literal they are compared with (2 in `vpeer_update`, 3 in
`add_node`, `max_ping_tms`); at a limit of one probe every further one is one too many,
and `MaxTries` stops the count of pings where no comparison tells values apart any more.
The intervals are scaled down but pass through initial, maximal and unreachable. Two
queries and two clients of one service are what a race of a response with an expiry
needs; two timer threads what an overlap needs, and the theorems about `HostThreads`
hold for any number.

In the overlay, a third node is what it takes for one to learn of another through a
neighbour and for copies to travel on; two hosts with services in one bucket of one entry
make entries replace each other.  Two datagrams under way let a late or repeated message
meet a newer one; where only one fits, a datagram stays as long as it likes while nodes go
on, which gives the same races of a response with expiry, restart and change.  One restart
can hit any node at any point.  `MaxDue` and `Numbers` limit only how many queries one tick
makes.  The theorems hold for any of these bounds.  In `control`, three calls of two clients
let an answer to the first meet the second on the same path while a third one posts; the
files have every kind of item, every section, comments, a missing address and a syntax
error.

Every property of a passing run has a mutant in `PROJECT.json`: a definition
`X_Something` beside the mapped `X`, a plausible slip in that code, with which TLC
finds the property violated.

### Fairness

* `NodeSpace`: the tick and the passing of time.  The timer is periodic and nothing
  in `NodeSpace` can block it (what blocks it is the subject of `HostThreads`).
  `SilentPeersGiveUp` assumes, in its hypothesis, that the node stays in RUN mode and
  that from some time on nobody is heard from.
* `TicketSpace`: reaping and time, for the same reason.
* `Overlay`: boot nodes are joined on every start and overdue tickets are reaped by the
  tick (weak fairness); no datagram is under way for ever.  On the links that the
  instance names, and there only, a query that is sent again and again is answered some
  time before its ticket is overdue, and the answer is handled (strong fairness): timers
  make a node repeat its pings, lookups and announcements as long as it runs, and a link
  over which nothing ever arrives is not one.
* `Control`: a client goes on with its call.  Every system call that blocks has a timeout
  of 3 seconds.  Nothing is assumed of the daemon.
* `HostThreads`: every thread goes on, and a lock that is released again and again is
  acquired (strong fairness of the steps that acquire one; POSIX mutexes promise no
  more than that in practice).  No message and no command is assumed to come.

### What the violated runs show

* `node_replace`: `add_node` updates the "worst" peer of a full bucket with the
  newcomer's info, but `vnodeInfo_merge` refuses infos of another id: the newcomer
  is dropped, against the comment "find the 'worst' bad nodei and replace it".
* `node_answer`: by the same path a newcomer's ping response resets the counters of
  the worst peer, a silent node, which then counts as good.
* `tickets_told`: only a running node reaps tickets; a client that probes while the
  node is off hears nothing.
* `host_nat`: a reflex response (route lock, then node lock) and a tick (node lock,
  then route lock) deadlock; later ticks queue behind the ticker lock.

## Proofs

All obligations are checked by `tlapm`, with the assumptions the modules state on
their constants.

`NodeSpaceProofs` proves `TypeOK`, `TableWellFormed`, `UnreachableIsSilent` and
`DbSound` for any ids, buckets, addresses and settings.  The invariant is
`IInv == TypeOK /\ TableOK /\ DbSound`, where `TableOK` says bucket by bucket that the
array is short enough, has no node twice, only nodes of this bucket, not ourselves,
and only sound peers (`PeerOK`).  `TableWellFormed` alone is not inductive: that an
update does not change whose peer it is needs the types of the infos, and
`UnreachableIsSilent` needs the ranges of timers and counters.  One lemma per helper
shows that it makes a sound peer of the same node from a sound peer (`InitPeer`,
`UpdatePeer`, `PingedPeer`, `KickedPeer`, ...); `AddToBucketOK` lifts them to a bucket,
`AddNodeOK`, `KickedOK` and `MapTable` to a table, and `NextTable` goes through the
actions.  `DbSound` needs the table's soundness: a node that is in the table once is
stored once (`WriteBackOK`).  That `AddrLists` is closed under copy and merge
(`AddrAssumption`) is an assumption, which TLC evaluates on each instance.

Three more invariants and two action properties rest on one lemma.  `NextStep` says of every
step that each peer of the table afterwards is new, or an old one whose info is as before
or merged with an offered one (`UpdateStep`, `AddToBucketStep`, `AddNodeStep`).
* `ListsStayOrdered` (`AddrsOrdered`): the invariant `ListInv` adds that every list in the
  table and in the database could be sent (no address twice, not too long).  What the
  loops of copy and merge make of such lists is proved first: `AddAddrNew` and
  `AddAddrKeeps` for one address, `CopyKept` and `MergeKept` for the loops, where a
  fold is taken as a run of its prefixes.  The lists of messages are those that a
  sender's own add_addr built, and so have no address twice (`InfosAssumption`).
* `ConnectionsImprove` (`ConnOnlyImproves`): a connection is replaced by a better one, or
  set anew when the merge reports an update; `UpdateChanges` shows that an update so
  reported changes the list, which is the case the property leaves out.
* `ProbesStayLimited` (`ProbesLimited`): by the same lemma (`ListKept`), only a change of the
  list starts the count of probes anew; and a probe comes from `ProbeConnectivity` alone,
  which asks the count first and adds to it.
* `NoWeightLeaks` (`AdvertisedWeight`): the invariant `WeightInv` is about the infos as
  `find_node` would report them now; reporting takes off what weighing put on
  (`ReportedWeighed`), and a report that is learned back is one of those.
* `LoadsEverything` (`RestoreComplete`): the invariant `RestoreInv` says of a load under
  way that every saved row has its place or is still to come; `PlacedStays` that a node
  keeps its place, and that a full bucket stays full.

`HostThreadsProofs` proves `TypeOK`, `QuietDeinit` and `ExitSaves` for any number of timer
threads.  The argument: `node->lock` is held for the whole tick, so whoever finds it
free knows that no tick is at work.  `LocksHeld` says so; `OffIsIdle` that an OFF node
has nothing to do in a tick; `MainKnows` that past `wait_for_stop` the node is OFF and
nobody is left to start it; `SavingUnderway` that between the request to exit and the
end either the node is still to go down, or a store is among the calls of the tick
under way, or everything is saved.

`TicketSpaceProofs` proves `TypeOK`, `ToldOnce`, `AppliedOnce`, `ProbesPaired` and the
refinement `ImplementsLookup` for any clients, services and queries and any expiry time.
None of the four is inductive alone.  The invariant adds that tickets belong to queries
that were sent or clients that asked (`KeysKnown`), that who waits or has not asked was
told nothing (`OpenUntold`), the same for responses (`WaitingUnapplied`), and ages:
the two tickets of a probe are at most a second apart, so a CONN_PROBE ticket alone is
in its last second (`TokensPaired`, `ConnsPaired`), and a client has one ticket
(`OneTicket`), so that an expiry leaves none behind.  For the refinement, `ToldStatus`
and `KeptTickets` say what a step does to each client's status, and `LookupStep` matches
`ProbeService` with `Ask`, an accepted service response with `Found`, `TimedReap` with
`NotFound` and `Clear` with `Exit`; every other step leaves the statuses alone.

`OverlayProofs` begins with the operators of `SrvcSpace`: `AddService` keeps a service space
sound, whichever of the oldest entries goes (`AddServiceSound`), and so does ageing
(`AgedSound`); `GetService` returns what is there if its nice value is below the limit
(`GetServiceFinds`, `GetServiceOf`), and the weighted mean of capped readings is below it
(`NiceBound`).

It proves all six invariants of `overlay_share` for any nodes, tables, settings
of the protocol and bounds.  The inductive invariant is `IInv`, whose parts are

* `NetOK`: a query goes to the address in its nonce and a response comes from the node of
  that address, and what messages say is true: an address told in a `reflex_rsp` is the
  receiver's, infos are of nodes with their own addresses, services are among `announced`;
* `TableInv`, `AddrInv`, `SrvcInv`, `OwnInv`: the same of what nodes hold;
* `TicketInv`: a ticket's nonce was made by its node, and every message that carries this
  nonce is of the ticket's kind, the query or a response to it.

Truth travels: a handler puts into messages what is in tables and spaces, and into tables
and spaces what is in messages, so none of the properties is inductive without the others.
`AnswersMatch` rests on nonces being unused when they are drawn (`Unused`), for the tickets
as well as for the network.  There is one lemma per handler and action, `AddNodes` and
`Send` have their own, and `Invariant` joins them.  `IInv` speaks of all numbers of buckets
and is not checked by TLC; its consequences are, by the run.

`MessagesArrive` (`WireFaithful`) joins `BencodeProofs` to the overlay.  There, `Leads` says
that tokens take the parser from one state to another and that it is not done before the
last, `ReadAs` that tokens are read as a node wherever the parser expects one, whichever
calls wait for it.  A byte string is (`StrRead`); a list is if its elements are
(`ListRead`) and a dictionary if its values are (`DictRead`), by induction over the loop of
the encoder (`LoopLeads`), with the list or dictionary read so far in the innermost call.
`ArgRead`, `ArgsRead` and `MessageRead` go up the levels of a message, and `ReadBack` adds
that the parser is still reading wherever a part ends, and there meets the assertion or an
undefined `be_free` (`BehindTheEnd`), so that it takes no part for a message; it is no proof
that parts are refused.  All that handlers send is of
the form this takes (`Written`), which `StepWritten` shows action by action; a list of
infos is a sequence because tables are finite (`IInv`).

`ControlProofs` is about the local control socket, for any clients, paths, calls, files,
services of other hosts and bounds.
* Round trips.  `CommandsArrive`: what the daemon unpacks of a packed call is the call;
  `AnswersArrive`: the same of an answer.  The halves of a word come apart
  (`HalvesApart`), each entry is at its place (`FlatPairs`, `FlatTriples`), and a command
  is told by its number (`CmdIds`).  The only hypothesis is that the length fits its 16
  bits (`Fits`), which `ControlAssumption` states of the calls, and twelve addresses of
  a service are far below.
* `AnswersAreServed` (`Served`): the invariant `IInv` says of each datagram on its way to
  a client, in the queue (`DaemonInv`) or in a socket (`ClientsInv`), that it answers
  some find or probe with a version that the daemon had, one that another host has, or
  the unknown one (`Truthful`); `versions` only grows.  That it fits the call is what
  `Accept` compares.  TLC checked `IInv` on the instance of `control` before.
* `RegistryImplemented` (`Implements`): a datagram in the socket holds the request that it
  was packed from (`DaemonInv`), so the daemon executes the head of `Todo`.  `PostRuns`
  and `UnpostRuns` say what the loops of post and unpost have made of a service after any
  number of addresses, from `AddSrvcAddrStep`; `PostImplements` and `UnpostImplements` make
  this a `Post` or `Unpost` of the registry.  `StepImplements` goes through the actions.

`ConfigProofs` is about `vcfg.c` and the settings of a daemon.
* `ConfigRead`: `_vcfg_parse` reads every file that is laid out like `vdht.conf`
  (`IsFile`) as the dictionary that is meant, whatever blanks, new lines and comments it
  has, however many sections, entries and strings.  `Takes(A, tokens, B)` says that tokens
  take the parser from any state of A to one of B; it composes (`TakesOn`) and goes through
  a sequence of tokens (`TakesEach`) or of parts of a text (`TakesFlat`).  `IdleAt` are the
  states in which the innermost call goes on in its loop after some spaces: gaps and
  comments stay in it (`GapTaken`), and so each part of a file leads from one stack of
  calls, at rest, to the next (`KeyTaken`, `StrTaken`, `TupleTaken`, `EntryTaken`,
  `BlockTaken`, `SectionTaken`).  The end needs care: eating blanks does not stop at the end
  of the text, so a file has to end with a bracket, after which `_aux_eat_endings` is at
  work (`FileTaken`, `FileClosed`).
* `FilesUnderstood` (`ConfigLoaded`): with any files of which each is refused by the parser
  or laid out so, and means the settings of its dictionary (`AreFiles`), a daemon that has
  read one goes by these settings, across starts, crashes and second daemons.  The
  theorem is about parsing and about the life of the settings.  That the getters then
  find in a dictionary what an author expects is left to the run, which has
  expected settings written out for each file; `LayoutAssumption` of `MCControl` checks there
  that its files satisfy the hypothesis.

`Induction` has what these proofs need to reason about loops.  The induction theorems of
the library take operators as parameters, which no installed prover instantiates; here the
argument is about sets of numbers instead: `LeastNumber` follows from the well-foundedness
of finite sets under inclusion, `SetInduction` from it, and `FoldExists` and `FoldPrefixes`
say that a fold over a sequence runs through the folds over its prefixes.

Only model-checked: the liveness properties (`SilentPeersGiveUp`, `StopStops`, `ExitEnds`,
`PublicTickerRuns`, `ToldWhileRunning`, `Converges`, `Aired`, `Returns`), since liveness under
fairness is beyond the prover.

## Not modelled

* Text forms of ids, addresses and numbers; log output; UPnP (a wrapper around a library);
  the kinds of NAT, which only label addresses; reading `/proc`; daemonizing and signals.
* The container utilities: arrays are sequences or sets.  Which nodes `find_closest_nodes`
  reports, if it does not report all.
* Datagrams that no vdht node sends, among them parts of messages: nodes send messages
  as wholes, UDP delivers datagrams as wholes, and the receive buffer takes the longest.
  The codec's answer to a part is in `Bencode`, but no daemon of `Overlay` receives one.
  Several commands in one control datagram (the library never sends them), sockets
  reopened after errors, `sendto` of the daemon blocking.
* Two daemons started for the first time at the same moment: the pid file is looked for and
  written without a lock.
* Unlocked reads and writes: a ping's handler reads the node's info, and `bogus_query` adds
  a ticket, without the lock; they are single steps here.
* Failing allocations and SQLite calls, except in a store. There `HostThreads` goes by
  what the code reports: `ExitSaves` takes a store for done whose rows SQLite refused.
  `vnode_deinit` on the failing path of `vhost_init`.
* What the code leaves undefined in `vcfg.c` (a text that ends in blanks inside a list, tuple
  or at top level; values of several words) has a status of its own.  Files as
  `ConfigText` lays them out do not meet it, as `ConfigRead` shows; `FileSettings` takes it
  for a refusal.  Of lists and dictionaries inside of a section, which `vdht.conf` does not
  have, the parser is modelled, but `ConfigText` has no layout.

## Plan

Done: `NodeInfo`, `NodeSpace` with proofs, `TicketSpace` with `ServiceLookup` and proofs,
`HostThreads` with proofs, `SrvcInfo`, `SrvcSpace`, `Dht`, `Bencode` and `Overlay` with
proofs, `LocalWire`, `Config`, `ConfigText`, `Registry` and `Control` with proofs.  Left:

1. Pure algorithms against reference definitions: `find_closest_nodes` and its comparison,
   `varray` insertion and deletion.
2. The steps of a handler and a tick between locks in `Overlay`, for the unlocked reads.
