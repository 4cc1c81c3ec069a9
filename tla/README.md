# A TLA+ model of tipcutils

tipcutils is a collection of programs around TIPC, a cluster protocol with
location-transparent names. The programs are small, but most of them are
distributed: several processes find each other by published names, send
messages without a fixed partner, fork, die, and start again. This project
models the programs whose correctness depends on such interactions, checks
them with TLC, and proves the central results with TLAPS.

## 1. The system

| part | state it keeps | operations | what is hard |
|---|---|---|---|
| `demos/inventory_sim`: logging task | store state, counters of items, customers and sales | one transaction at a time: `SIM_ITEM_IN/OUT`, `SIM_CUST_IN/OUT`, `SIM_KILL`, `SIM_DONE`, messages; halt on item 0 | everything it knows arrives in messages of other tasks, in an order nobody fixes |
| items | a published port, a queue of requests | publish, listen, log, sell to the first request, withdraw | several requests queued when it sells; bound before it listens |
| customers | a subscription, a connection | log in, chase the reported ports, time out, log out | stale reports, replies racing the timeout, error paths |
| janitor | a subscription | fake a purchase of every item of its own node, report `SIM_DONE` | sees every store's items; inherits the logging task's socket |
| commands | none | `newSim`, `killSim`, `newItem`, `newCust`, `stopSim`, `startSim` | repeated and simultaneous use |
| `demos/benchmark`: master | the round, answers counted | restart and arm the servers, fork and start clients, collect answers, reap | multicast to whoever is bound; answers not identified; sleeps as synchronisation |
| server and its children | listener, number of children; order and counter of each child | accept and fork, reap and reset; read an order, acknowledge, echo, report | two kinds of process on one control name; children that outlive their master |
| clients | order, counter | connect, stream, report | processes dropping out of a round |
| `tipclog` | pid file, descriptor set | daemonise, subscribe, select loop, clean up | simultaneous starts; the set passed to `select` |
| `ptts`: client and server | test number, sockets, a subscription | the client sends the number of a test, both run their half of it; signals by publishing a name and subscribing to it | the same few names in every test; a signal withdrawn before it is seen; leftovers of one test in the next |
| `tipc-pipe`: clients, server and its children | standard input, a socket, a socket pair for `--tee`, sequence numbers | copy in both directions, generate numbered data and check it, hang up | order of the four events of one `poll`; end of input; children on one standard input |
| `multicast_blast`: `mcast_tipc` | at each receiver a record per sender | wait for a receiver, transmit, find gaps, give a verdict | packets missed at either end of a transmission; senders sharing a record |
| `multicast_blast`: `group_cast` | count of members, counts of traffic | join, count joins and leaves, cast, answer | sends that block on a full window; replies to replies |
| `tipcc`, other demos, scripts | nothing that evolves | | |

Inventory: tasks call the logging task (`simLog`, a blocking call over a
connection); customers and the janitor learn of items from the topology server
and connect to them directly; `stopSim` reaches all logging tasks of the
cluster through a published name. Benchmark: commands are multicast to the
names `SRV_CTRL_NAME` and `CLNT_CTRL_NAME`, answers return to the master's two
sockets, payload flows over one connection per client. tipclog: processes share
the pid file; parent and daemon share a pipe. ptts, tipc-pipe, multicast_blast:
the processes meet only through TIPC; the children of a tipc-pipe server also
share its standard input.

What makes each part correct:

* inventory: an item is sold once, and a visit yields one item; the counters
  that decide when the store is closed and that are reported at the end agree
  with what the tasks hold; the janitor runs in an empty store and touches no
  other store; `killSim` really ends everything; a halt ends.
* benchmark: a round starts when all its servers are armed and ends when
  everybody is finished; a command is read either by the server or by its
  children; a benchmark that was started finishes.
* tipclog: a parent that reports success has left a subscribed daemon, the only
  one and named by the pid file; a stop signal stops it; nothing is read that is
  not there.
* ptts: no side passes a signal the other has not come to; a test starts on a
  clean slate; the number of a test reaches the server and no left-over socket;
  a working TIPC fails no test and the suite ends.
* tipc-pipe: what is put in at one end comes out at the other, complete, once
  and in order; a hangup reaches the other end; the checker of generated data
  reports what was lost.
* multicast_blast: a verdict agrees with what the receiver has read; the count
  of members agrees with the group; replies end; members do not block each other.

## 2. Modules

| module | models |
|---|---|
| `SimLog` | the store record and `logTransaction` as functions of record and message |
| `InventorySim` | all processes of inventory_sim; EXTENDS `SimLog` |
| `Shelf` | the abstract shop: items are delivered, removed, taken home, once each |
| `InventoryProps` | properties, the refinement mapping to `Shelf`, the inductive invariant |
| `MCInventory` | TLC instances |
| `InventoryProofs`, `TradeProofs`, `CounterProofs` | the proofs: tasks and sockets, trade and the refinement of `Shelf`, counters |
| `Benchmark`, `BenchProps` | all processes of the benchmark; its properties and inductive invariants |
| `BenchProofs` | proofs about the benchmark |
| `Tipclog`, `TipclogProps` | starts, daemons and the pid file of tipclog; its properties |
| `TipclogProofs` | proofs about tipclog |
| `TsArray` | `makeArray` and `checkArray`, checked over bounded inputs |
| `TsCommon` | numbers, names and the signals of ptts, and the calls they consist of |
| `TsServer`, `TsClient` | the two halves of every test, as sequences of calls |
| `Ptts` | client, server and network executing those calls |
| `Rendezvous` | the abstract meeting the signals implement |
| `PttsProps` | properties of ptts, the mapping to `Rendezvous`, the inductive invariant of the signals |
| `PttsProofs` | proofs about ptts |
| `TipcPipe`, `PipeProps` | clients and server of tipc-pipe; its properties, command lines and inductive invariant |
| `PipeProofs` | proofs about tipc-pipe |
| `McastBlast`, `GroupCast` | `mcast_tipc` and `group_cast` |
| `BlastProps` | the choice between the two programs, their properties and inductive invariants |
| `BlastProofs` | proofs about both programs |

Definitions named `X_Something` with a comment "Mutant" are broken variants of
`X`. No specification uses them; they show that a property notices such a bug.

### inventory_sim

A process is a value with a program counter `pc`. A call of `simLog` takes three
steps: `pc = "call"` (about to send `req`), `"wait"` (blocked in `recv`, queued
in `logq`), `"ret"` (returned with `ack`). The code between two calls is one
step, because it works on local data; a step that touches a socket others can
see (bind, listen, accept, close, connect, subscribe) is a step of its own.

| code | actions |
|---|---|
| `simLog` | `calls`, `SimLogSend`, `returned` |
| `simLogTask` | `LogBind`, `LogTransaction`, `LogWatch`, `LogHalted` |
| `simItem`, `simItemTask` | `ItemPublish`, `ItemListen`, `ItemInReturn`, `ItemReply`, `ItemReplyFails`, `ItemWarnReturn`, `ItemOutReturn`, `ItemFault`, `ItemFaultReturn`, `taskLoop` |
| `simCust`, `simCustTask` | `CustArrive`, `CustInReturn`, `CustSubscribe`, `CustRequest`, `CustGotItem`, `CustRejected`, `CustNoReply`, `CustMissed`, `CustWalkOut`, `CustOutReturn`, `CustFault`, `CustFaultReturn`, `taskLoop` |
| `simJanitorTask` | `JanitorSubscribe`, `JanitorEvent`, `JanitorDone`, `JanitorFault`, `JanitorFaultReturn`, `JanitorExit` |
| `newSim`, `newItem`/`newCust`, `killSim`, `stopSim`, `startSim` | `NewSim`, `NewTask`, `KillSim`/`KillReturn`, `StopSim`, `StartSim`/`ZeroExit` |

TIPC is external and is modelled by how the code uses it: a name table
(`published`), accept queues whose entries are rejected when the socket closes
(`closeItem`, `JanitorExit`), subscriptions that report ports and end with a
timeout. Two freedoms are kept open because TIPC versions and networks differ:
a request to a socket that is bound and does not listen may be queued or
rejected (`queues`), and a reply from another node may arrive after `select`
has timed out (`CustNoReply`). Delays are steps of arbitrary length. The
janitor holds a copy of the listening socket from `fork` until it exits
(`holders`), which keeps the store's name published.

`CONSTANT Faults` names the calls that may fail. Not modelled: failing sockets
of the logging task, the `socket` and the `recv` of `simLog` failing in its
caller (the `sendto` fails where nobody listens), the status display and its timer, `simErrors` and
`simWarnings`, which only count output, the text of messages (its fields are
kept), two simultaneous `newSim` on one node.

### benchmark

A connection is named by the run of the master and the number of the client;
the child that serves it has the same name. `mpc`, `srv`, `kid[k]` and `cl[k]`
say where each process is. `toServers` and `toClients` put a command into the
queues of the sockets bound at that moment, and nowhere else. The payload is
counted (`pipe`, `echoes`). `NapsSuffice` says whether the master's sleeps
outlast the work they wait for; safety is checked without that assumption.
`serverTells` models `srv_to_master`: clients inherit `master_srv_sd`, so the
name servers wait for outlives a killed master while a client lives, and a
message may go to that dead socket.

Not modelled: TCP connections and `select_ip`/`get_ip_list` (the TCP benchmark
stops before it creates a client, see section 3), time measurement, the
smaller default counts for a remote server, sizes of messages beyond the
number of the round.

### tipclog

Each start is a parent and the daemon it forks. `sent` is the return value the
daemon has delivered, `topsrv_sd` whether it has subscribed, `fds` the set passed
to `select`, kept from one call to the next as the code keeps it.
`tipc_event_logger` subscribes (`Subscribe`), tells the parent (`Started`), fills
the set (`Prepare`) and then loops (`Select`, `SelectFails`, `HandleSignal`, `HandleEvent`), one
step each: a parent may return 0 while the set is still empty. libdaemon is
external: exclusive creation of the pid file, removal by name, one return value
per daemon. Every error exit is an alternative that `Faults` switches on.

Not modelled: the 20 seconds after which `daemon_retval_wait` gives up, the text
of the log.

### ptts

The two programs are long and regular: every test is a straight run of socket
calls on each side, with loops of fixed length and an exit at the first call
that fails. `TsServer` and `TsClient` keep that form: a routine of the code is a
sequence of call records (`socket`, `bind`, `sendto`, `recv` with the size and
contents it insists on, ...), and the numbers and names are those of the code.
`Ptts` gets them as
the constant `Routine` and has one action per kind of call; a side is the routine it is in, the
index of the next call and the registers the loops count in. `sendSyncTIPC` and
`recvSyncTIPC` are themselves such sequences (publish, await a byte, withdraw;
subscribe, send the byte, await the withdrawal), so a test interleaves with
everything a signal does.

TIPC is external: packets to a node arrive in the order they were sent; a node
knows a name of the other one when the packet that announces it has arrived; a
message is looked up again where it arrives and is dropped or returned when it
finds no socket. `sameCluster` chooses whether the two sides are in
one cluster, so that multicasts reach the other one. `punctual` chooses whether
sleeps and timeouts outlast the other side; without it each may end at once.

`MsgCap` cuts bursts to two messages and `StreamBuf` bounds the bytes of a
stream in flight. `TsArray` states what the test vectors are for as assumptions
that TLC evaluates: a vector that was made passes, one with a changed or a
missing byte does not. Not modelled: memory, printed text, elapsed time.

### tipc-pipe

An end is a client or a worker; a worker is the single server, or the child of a
forking one that serves a connection. One round of `pipe_start` takes four steps, because
others act in between: `Poll` collects the events, `ReadStdin`, `Write` (which
may block) and `ReadSocket` handle them in the order of the code, and the length
of what was read last is kept from one to the next as the code keeps it. A setup
is a command line with its inputs: socket type, server mode, `--tee`,
`--replay`, generated data, and what standard input is (a file, a pipe, a
terminal), which decides how its end shows in `poll`. `Stray` lists what the
uninitialised descriptor of the second `write` may be.

The table of expected numbers has 255 entries and is indexed with a byte. A
reference that ends in 255 leads to the word behind the table (`slot`,
`expected`): what is read there is what the checker wrote or any member of
`Outside`. What else a write to that place may change is left out; the builds of
gcc looked at have padding there.

Not modelled: options, multicast and port addresses, `--top`, `--data_size`.

### multicast_blast

`mcast_tipc`: `Start`, `Bind`, `FirstServer`, `Transmit`, `Finish` and
`mcast_receiver`. A receiver whose queue is full misses the packet, one that is
bound late misses the first ones. Sequence numbers wrap at `SEQNOS`, a power of
two that stands for 2^32; the first number used is the one
after -1, as in the code. `saw` and `gaps` are history, to compare the verdict with.

`group_cast`: members join, discover each other from membership events, cast
when everything has been read, and answer what asks for a reply. A send waits
while the window of a destination is full; an anycast picks a destination whose
window is open. Members are on one instance. `NoStandstill` is about casts with
given destinations: the sender of an anycast waits for no particular member, and
`waits` leaves it out. Not modelled: the subscriber that prints receivers,
statistics, `-i` and `-d`; of `mcast_tipc` a send that fails and ends the
transmitter in the middle, and `-n 0`, which transmits nothing.

## 3. Runs

All runs set `CHECK_DEADLOCK FALSE`: a killed simulation, a finished benchmark,
a stopped daemon, a client that has run its tests, a pipe whose ends have gone
and a finished transmission really stop.

| run | instance | checks |
|---|---|---|
| `inv_contend` | 1 store, 1 item, 2 customers, 1 kill, all faults | `IInv`, `LogInv`, `SoldOnce`, `JanitorWhenEmpty`, `ShelfSpec` |
| `inv_nodes` | 2 stores with an item each, 1 customer, one store is killed | `StockMatch`, `SalesMatch`, `CustomersMatch`, `ShelfSpec`, `SweptWhenClosed` |
| `inv_live` | 1 store, 1 item, 1 customer, 1 kill, 2 item 0s; fair | `CloseCleansUp`, `HaltEnds` |
| `bench_rounds` | 3 connections, 3 messages, 2 rounds of both tests, any wait may expire, no assumption on sleeps | `ServerInv`, `RoundInv`, `AllReady`, `RoundsApart`, `OneListener` |
| `bench_live` | 3 connections, 2 masters in succession, sleeps suffice; fair | `Finishes` |
| `log_start` | 2 starts, 2 signals and 2 events each, all faults; fair | `DaemonInv`, `ParentTruth`, `ParentsAnswered`, `StopsIfWatched` |
| `ptts_suite` | a client with all tests and then the end of the server, with the endless test, or with a number that is no test; one cluster or two, punctual or not; fair | `SyncInv`, `NoFalseAlarm`, `OneTarget`, `CleanSlate`, `RendezvousSpec`, `SuiteFinishes` |
| `pipe_io` | eleven command lines, up to 2 clients, inputs of up to 3 items, reads of 2, one reference that ends in 255; fair | `PipeInv`, `Conserved`, `LeavesClean`, `LossTruth`, `Delivered`, `HangupSpreads` |
| `blast` | 3 nodes, transmissions of 3 packets, one node transmitting twice; 3 group members in four mixes of casts, replies and departures | `McastInv`, `VerdictTrue`, `GroupInv`, `CountTrue`, `RepliesEnd`, `NoStandstill` |

Why the bounds are enough. Trading conflicts need two customers for an item, or
two items for a customer: each has a run. A task in its second life, with the
ports of the first gone, is in no run; it is covered by the proofs, which hold
for every number of lives. Closing needs a task at every point of its life when
`SIM_KILL` arrives, which one kill gives. Two stores are the least in which a
janitor can see a foreign item. Two item 0s are the least for which the first to
go must not end the halt. Three connections give a round an answer that is
neither the first nor the last; two rounds of each test give a boundary between
rounds and one between tests. The results about trade are proved for all sizes.

In ptts a burst of two messages has a first one and a last one, every test is
followed by every test the suite puts after it, and the endless test goes round
in a cycle of states. In tipc-pipe an input of three items and reads of two give
a full read, a short one and an end; the window of two packets is smaller than
what is sent. In multicast_blast three packets have a gap at the start, in the
middle and at the end, a queue of one packet makes every pattern of losses
possible, a second transmission meets the record of the first, and in a group of
three a broadcast has two destinations of which one may be slow.

Fairness. Weak fairness of each process: the scheduler runs a process that can
run. Weak fairness of `SubscrTimeout`: the kernel's timers expire. In ptts only
weak fairness of `Work` as a whole, a weaker assumption than one per process: the two sides are in
step, and neither can go on for ever without the other. In tipc-pipe also of `Feed`:
input that is to come comes. Nothing is assumed about commands, arriving events
or signals, failing calls, or the order in which processes run. In `inv_live`
tasks have a bounded number of lives, which stands for a simulation run by hand;
the automatic tasks of `newSim` repeat for ever, but end with the first call of a
store that is not open. `blast` checks safety only: its programs do nothing but
send for as long as they are let, and what may go wrong is that they block each
other, which `NoStandstill` states.

### Disagreements with the repository's own words

Each is a run that TLC must find violated; `PROJECT.json` quotes the lines.

* `inv_lost_customer`: a customer that leaves on an error is never counted out,
  and a closing store waits for it for ever.
* `bench_stale`: an answer left over from a killed master's child is counted as
  an acknowledgement, and clients start before their servers are ready.
* `log_deaf`: the set of descriptors is not filled again after `select`, so
  that one event makes the daemon deaf to signals.

Other places where the models show that a stronger statement would fail; they
are noted with the hazards in `PROJECT.json`: a second `killSim` while the
janitor works forks a second janitor, which waits for ever and keeps the name
published; a benchmark with `-p tcp` waits for a name that only the TIPC branch
publishes; a SIGHUP likewise stops tipclog
from logging events; of two simultaneous starts of tipclog the loser removes
the winner's pid file, and a third start runs a second daemon (`ParentTruth` says
what holds until the loser cleans up); a client of tipc-pipe whose reference ends
in 255 has no entry in the table of the checker; a latency test
with fewer messages than rounds ends in a division by zero; a sale reported
after the store has closed is taken for the janitor's doing and not counted; the multicast test of ptts
fails on a TIPC that loses nothing when the messages of a burst are slower than
its timeout; two children of a forking tipc-pipe see one line with `poll`, one
reads it and the other waits in `read` and copies nothing any more; a
transmission whose last packet was missed spoils the verdict on the next one of
that node; two members of a group that both ask for replies can wait for each
other in `send`.

## 4. Proofs

Each theorem holds for every value of the constants that satisfies the
assumptions named in the module that declares them (`HomeAssumption`,
`TaskAssumption`, `BoundAssumption`, `FiniteAssumption`; `OptionAssumption`;
`StartAssumption`; `McastAssumption`, `GroupAssumption`; `PipeAssumption`; `PttsAssumption`,
`RoutineAssumption`) and the hypotheses listed. The counting `PoolAssumption` is not used by any proof.

| theorem | states | hypotheses |
|---|---|---|
| `TradeProofs!Inductive` | `[]IInv` | |
| `TradeProofs!SoldOnceHolds` | `[]SoldOnce` | |
| `TradeProofs!Refinement` | `ShelfSpec` | |
| `CounterProofs!LogInductive` | `[]LogInv` | |
| `CounterProofs!JanitorAlone` | `[]JanitorWhenEmpty` | |
| `CounterProofs!OpenStoreNotSwept` | `SweptWhenClosed` | |
| `CounterProofs!CustomersCounted` | `[]CustomersMatch` | no call of a customer fails |
| `CounterProofs!SalesCounted` | `[]SalesMatch` | a store is opened once |
| `CounterProofs!StockCounted` | `[]StockMatch` | a store is opened once, no call of an item fails |
| `TipclogProofs!DaemonInductive` | `[]DaemonInv` | |
| `TipclogProofs!ParentTold` | `[]ParentTruth` | |
| `BenchProofs!ServerInductive` | `[]ServerInv` | |
| `BenchProofs!ListenersApart` | `[]OneListener` | |
| `BenchProofs!RoundInductive` | `[](ServerInv /\ RoundInv)` | one run, no round of zero messages |
| `BenchProofs!ServersReady` | `[]AllReady` | the same |
| `BenchProofs!RoundsSeparate` | `[]RoundsApart` | the same |
| `BlastProofs!GroupInductive` | `[]GroupInv` | |
| `BlastProofs!CountsTrue` | `[]CountTrue` | |
| `BlastProofs!RepliesBounded` | `[]RepliesEnd` | |
| `BlastProofs!NobodyStuck` | `[]NoStandstill` | |
| `BlastProofs!McastInductive` | `[]McastInv` | no two nodes share a record |
| `BlastProofs!VerdictsTrue` | `[]VerdictTrue` | the same |
| `PipeProofs!PipeInductive` | `[]PipeInv` | |
| `PipeProofs!PipeConserved` | `[]Conserved` | |
| `PipeProofs!PipeLeavesClean` | `[]LeavesClean` | no message is empty: a stream, or one connection and no file as input |
| `PipeProofs!PipeLossTruth` | `[]LossTruth` | the references of the clients differ in the last byte and none ends in 255 (`RefsApart`, part of the property) |
| `PttsProofs!SyncInductive` | `[]SyncInv` | |
| `PttsProofs!SignalsMeet` | `RendezvousSpec` | |
| `PttsProofs!SocketsInOrder` | no call is for a closed socket; a test begins with none | |
| `PttsProofs!NeverFarApart` | `RendezvousSpec => []apart`: of two sides neither is two meetings ahead | |

Why the hypotheses. A customer that leaves on an error is not counted out
(`inv_lost_customer`), an item that fails is not counted in or out, and the
sales and the stock are compared with histories that span the sessions of a
store. A second run of the benchmark after a killed master gets an answer of the
first one's child (`bench_stale`), and a child that is given a round of no
messages acknowledges it and reports its end at once, so that its two answers
can be taken for each other. Nodes that agree in the low byte of their address
share a record of `mcast_tipc` and take each other's packets for gaps. A
tipc-pipe that reads the end of a file sends an empty message, and one whose
input hangs up in the round in which it receives that message takes the length
of what it received for the length of what it read: it leaves although there may
be input to read. Clients of tipc-pipe whose references agree in the last byte
share an entry of the table of expected numbers, and one whose reference ends in
255 has none: the checker reads behind the table. Each hypothesis is satisfied by
an instance the runs check, those on tipc-pipe by command lines of `pipe_io`, and
each is noted with its hazard in `PROJECT.json`.

### inventory_sim: trade

`SoldOnce` is not inductive: whether a reply that is about to be received makes
a second sale depends on who else holds a reply, on whether the item is still
on sale, and on the sockets. `IInv` adds, in this order:

* `TypeOK`, `LifeInv`: types, and a life is counted before it is used, so that
  a port is never used twice;
* `QueueInv`: a process queued on a logging task waits there, once, on its own
  node. Without it the step that answers a transaction could disturb a process
  that is doing something else;
* `SocketInv`: the program counter of a task and its sockets agree;
* `BacklogInv`: a customer in an item's queue is connecting to that very port,
  once. This is what makes the reply to the head of the queue reach one
  customer, and closing reject the right ones;
* `TradeInv`: a reply is held by one customer, for an item that is off the
  shelf and that nobody has taken; whoever took an item in this life is leaving.

`InventoryProofs` shows that every action keeps types, lives, queues, sockets
and backlogs; `TradeProofs` that it keeps the trade, where most actions are
dealt with by one lemma about steps that change neither replies nor shelf, and
the few that matter (`ItemReply`, `CustGotItem`, the closing of an item) by
one each. Its last part uses `IInv` to map each step to `Deliver`, `Remove`,
`TakeHome` or a stutter.

### inventory_sim: counters

The counters of a store agree with the tasks only up to what is on its way: a
task that has been let in and has not read the answer, a customer that has
decided to leave and is still queued. `LogInv` has three parts. `CodeInv` says
which transactions each kind of process sends and which acknowledgements can
have come back. `StoreInv`: a store that does not serve has nobody inside, one
that serves counts at least the customers inside (exactly those if no customer
fails), a closed one has come down to zero, and a janitor runs only in a store
that has closed and emptied, which is `JanitorAlone`. `BooksInv` states sales and
stock of the first session as cardinalities of sets of tasks. A transaction then
moves one task from one set to another, and the lemmas on cardinalities are
about adding and removing one element.

### benchmark

`ServerInv`: `srv_cnt` is the number of children that have been forked and not
reaped, in every interleaving of accepts, exits and reaps, and a server that is
bound has none, which is `OneListener`. It needs who may have a request in the
backlog, that a name is used for one connection, and where master and clients
are relative to each other.

`RoundInv` is harder because answers carry no name. The master counts `left`
down, and a child that never got the order looks like one that is through with
it. The invariant therefore says: there is a set of parties of the size
that the master's count and the unread answers give, such that its members have
acknowledged (or finished) and the others are before it. A party that answers is
added to the set; when the count reaches zero the set is everybody. A round of
zero messages breaks the distinction, hence the hypothesis.

### tipclog

`DaemonInv` says for each start (`daemonOK`) that the value sent to the parent
follows from where the daemon is, 0 only once it has subscribed, and that what it
reads is in what `select` has reported; and for all of them (`fileOK`) that
whoever has created the pid file is named by it until it has cleaned up. Since the
file is created exclusively, nobody else can have created it. The cleanup removes
the file whoever wrote it: a start that comes there without having created the
file (an `intruder`) takes away another one's, so `fileOK` holds while no intruder
has ended. It must be stated for all starts at once, because a step of one, the
check for a stale file or the cleanup, changes the file under the others; for a
cleanup the argument is that the file is either the cleaner's own, and then
nobody else has one, or the cleaner becomes an intruder. `ParentTruth` follows
once the value has reached the parent through the pipe.

### multicast_blast

`GroupInv`. `CountTrue` is kept inductive by speaking of every prefix of the
unread events and not only of all of them. `RepliesEnd` follows from counting
replies sent, requests unread and the one being answered against the pairs of a
member and a message it has sent (`repliesOK`). `NoStandstill` needs to know how
two members came to wait: the one that came to send later had read everything,
so that the other one's window was open (`windowOK`).

`McastInv`. A verdict is computed from a record that only knows the first and
the last packet and a count. To know that these stand for the packets read,
everything of one sender that has been read, is queued, or is to be sent must
follow in the order of sending (`orderOK`); then a packet that is read has a
smaller number of remaining packets than all before it, the gap reported
is the distance to the last one, and the sum of gaps is what lies between the
first and the last minus what was read (`recordOK`). `numberedOK` and
`Packets < SEQNOS` exclude a wrap of sequence numbers within a transmission.
With the last packet the set read lies in 1 to its highest member, and is equal
to it if and only if it has as many elements. The verdict said last stays true
because its last packet was read, so that nothing of its
transmission, or of an earlier one of that node, can still arrive (`endedOK`).

### tipc-pipe

`Conserved` is about a chain of buffers: printed by the other end, in the queue
of its socket, in the buffer of this end, waiting in its input, still to come.
Each step moves bytes from one link to the one before it. To know that nothing
else touches the chain `PipeInv` says

* `linkOK`, `bindOK`, `listenOK`: a connection has two ends that know each other,
  who waits to be accepted waits once, and a single server has one worker;
* `labelOK`, `freshOK`, `unreadOK`: an end that has not started has read and
  printed nothing, so that the chain is whole when the connection comes up, and
  bytes are in the buffer only between the read and the write;
* `roundOK`: what `poll` has reported is still so when the round acts on it,
  although the other end and the input have moved on: a hangup stays, input that
  has ended does not come back, a queue with a message is emptied by nobody else;
* `copiedOK`: the same chain for `--tee`, through the socket pair, which holds at
  most one round and is empty when a round writes to it;
* `fullOK`: no message is empty. With `roundOK` a round that reports a hangup and
  has read nothing found the input at its end, which is `LeavesClean`;
* `numbersOK`: the messages of a client wait in one queue in the order of
  their numbers, none of which is below the one the checker expects, and what it
  expects is what it has taken or reported.

For `LossTruth` the places of a client's messages in the queue are mapped one to
one to the numbers from the one expected to the last one generated; hence there are
at least as many numbers, and what is reported is at most what was dropped.

The bytes in a queue are the concatenation of its messages, `FlattenSeq`, which
is defined by recursion. What is needed of it (nothing for the empty queue, and
what an append and a tail do) is derived in the first part of `PipeProofs` from
the least element of a set of numbers: the running concatenations of a queue
exist, are unique, and are those that the definition chooses.

### ptts

What the two sides do between two signals is left open: the proofs are about any
table `Routine` that satisfies `RoutineAssumption`, which TLC evaluates on the
tests of the repository. It says that the calls of `sendSyncTIPC` and
`recvSyncTIPC` are used as a whole and never jumped into, that no other call uses
their socket variable or their name type, that the sockets a call uses are open
whichever way control came to it, and that a routine ends with none open but the
client's multicast sender. It says nothing of the order of the signals, of the
number of calls, or of what the two sides exchange.

Two sides that meet again and again under the same few names could take an old
signal for a new one: the name stays published until the other side has answered,
it is withdrawn on one node before the other one hears of it, the next signal may
be published meanwhile, and a side may fail at any call. `RendezvousSpec` says that
this does not happen; it is far from inductive. `SyncInv` adds

* `progOK`, `openOK`, `sockOK`: programs, arguments and registers; the open sockets
  are those of the routine at its current call; nothing but `sockfd_R` bears a name
  of the signals, and no other socket holds a message of one;
* `nameOK`, `subOK`, `signalSocketOK`: at each of the five and eleven calls of the
  two functions, what is published, subscribed to, open and unread;
* `linkOK`: a packet of a signal under way is the publication or the withdrawal of
  a name or the byte that answers one, and all others have to do with none;
* `viewOK`: what a node knows of the other side's name, together with the packets
  under way about it, is one of five: nothing; a publication that will be heard; the
  name; its withdrawal under way; a withdrawal followed by the publication of the
  next signal, which can only be while this side waits in the last event of the
  meeting the other one has left;
* `ackOK`: the answering byte is under way or unread, once, only while both sides
  are at the signal it answers. A signal thus never finds the byte of an earlier one;
* `meetOK`: the two counts of meetings and the places of the two sides. A side
  that has left a meeting finds the other one behind its answer.

A side acts in one of three ways, and each has a lemma. Outside the signals it
sends packets that have to do with none and changes neither names nor places
(`PlainStep`); at a call the other side does not notice only its own part of the
invariant changes (`SameStep`); the calls that matter (publish, withdraw,
subscribe, answer, hear, return) are proved one by one, and so is the arrival of
each kind of packet. `FlattenSeq`, which the packets of one step are put together
with, is handled as in `PipeProofs`.

For the refinement, a side is inside a meeting by what it holds (a name or a
subscription of the signals, or the last call still to make); `InsideIs` shows that
this says where it is. Then only the return of the two functions needs an argument:
`meetOK` gives the guard of `Leave`. Arrivals, failures and ends are `Arrive`, `Quit` or
nothing.

### Only model-checked

All liveness properties (`CloseCleansUp`, `HaltEnds`, `Finishes`,
`ParentsAnswered`, `StopsIfWatched`, `SuiteFinishes`, `Delivered`,
`HangupSpreads`): TLAPS does not do fairness. ptts: `NoFalseAlarm`,
`OneTarget` and `CleanSlate` are about what the tests exchange: they depend on the
particular calls and on which signal of one program is paired with which of the
other, so that a proof would be one case per call of every test. The part of
`CleanSlate` that is about the server's sockets is in `SocketsInOrder`. What
`makeArray` and `checkArray` compute is checked over bounded inputs.

## 5. Plan

Done: the inventory simulation, the benchmark, tipclog, ptts with its rendezvous,
tipc-pipe and multicast_blast are modelled; the safety properties of the
inventory simulation, the benchmark, tipclog, tipc-pipe and multicast_blast are
proved, and of ptts the rendezvous. Left, in this order:

1. ptts: `OneTarget`, from a table of which signals are paired.
2. The remaining inventory commands: two `newSim` at once; failing sockets of
   the logging task.

### Not modelled

`tipcc` is a library of wrappers around one or two socket calls that keep no
state of their own; `mcast_tipc` and `group_cast` are modelled with the calls
the wrappers make. The demos `hello_world`, `connection_demo`, `multicast_demo`,
`stream_demo`, `topology_subscr_demo` and `c_api_demo` show one feature of TIPC
each in a straight line of calls, so that a model would be one of the kernel.
`iov_control`, the scripts and the man page have nothing that evolves. In all
programs: options, printed text, statistics and measured time.
