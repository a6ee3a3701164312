# A TLA+ verification of the VNF/SFC monitoring testbed

This directory models the testbed's long-running programs in TLA+, model-checks
them with TLC on small instances and proves some of the results with TLAPS for
every size. Paths such as `Monitor…py:644` are relative to the repository's
root; `Monitor…py` is
`vnf-performance-monitor/Monitor_performance_VNF.py`.

## 1. The system

Packets of emulated IoT devices go through one of two service function chains,
Firewall → DPI → Encryption → Compression and Firewall → DPI → NAT. Every VNF is
a Python process of several threads. It takes packets from a socket or the
network interface, works on them, and forwards them in batches over UDP; it
reports its KPIs (processing delay, traffic rate) over HTTP to the monitor. The
traffic generator's two orchestrators report a transmission rate, both under one key.
The monitor
keeps the last report of everybody, watches the Kubernetes API for crashes and
resource usage, and writes one row per second to a dataset.

| component | state | operations | talks to |
|---|---|---|---|
| KPI store (monitor) | SQLite file of key → value, timestamp; request threads | `kpi_*` handlers, `update_database`, `read_from_database`, `initialize_kpi_database` | VNFs and generator (POST), logging loop (call), a file that outlives the process |
| CrashLogger (monitor) | bounded history per VNF, episode counts | `log_crash`, `get_count` | written by the crash thread, read by the logging loop's tasks |
| crash thread (monitor) | restart count of the previous poll, `seen_once` | `get_pods_status`, `run_get_crash_status` | Kubernetes API, one call per label |
| logging loop (monitor) | results of seven parallel tasks, dataset | `run_in_parallel`, `get_pod_details`, the INSERT | CrashLogger, KPI store, metrics API |
| NAT table (NAT) | `nat_table`, `nat_table_rev`, `next_port` | `allocate_nat_port` | shared by the workers |
| batch sender (every VNF) | `send_queues`, `send_queue_lock` | `batch_send_to_target`, `_flush_locked`, `flush_all_batches` | shared by the workers and `batch_sender_thread`; UDP socket |
| NAT VNF | packet queue, KPI window | `udp_receiver`, `worker`, `process_payload`, `send_kpi_data` | NAT table, batch sender, monitor |
| DPI, Encryption, Compression | the same pipeline; DPI chooses between two targets, Encryption has no workers | as above, with their own `process_payload` | the next VNF, monitor |
| Firewalls | KPI window, posted under its lock; rules that nothing acts on | `process_packet`, `send_kpi_data` | the next VNF, monitor |
| memory tracker (six copies) | connection table, sliding-window log | `record_packet`, cleanup thread | called by the VNFs' threads |
| traffic sender | one buffer for all device threads, packets of a batch | `generate_messages`, `batch_and_send_1`, `send_packets` | orchestrator's pipe, UDP |
| orchestrator | `shared_sum`, one reader thread per sender | `run_script`, `print_shared_sum`, `run_multiple_scripts` | sender processes, monitor |

What is hard about it: everything shares memory between threads under locks that
are held for longer or shorter than one expects; a row is written by one process
and read across its restart; the cluster changes in the middle of a poll; a
report is retried, late or lost; queues and pools run full; and an exception
ends a thread which nothing restarts.

What makes each component correct:

- **KPI store**: a value that reads as live is live; an older report replaces a newer
  one only where nothing orders the two (abandoned requests, two clients of one key);
  a silent VNF reads as crashed; reads end.
- **crash thread and CrashLogger**: no restart is lost or counted for a VNF that
  did not restart; a stored column covers the polls it claims to cover.
- **logging loop**: every cycle ends, with a row or without, if the cluster answers.
- **NAT table**: flows do not share ports until the pool wraps; a flow keeps its
  port; the reverse entry belongs to the port's owner.
- **batch sender**: order per destination, no duplicate, no silent loss, bounded
  queues, no packet left behind when traffic stops.
- **every VNF**: each packet once, a packet's bytes and its delay in one KPI window
  each, few packets held between receiver and socket, service as long as a worker lives
  and whatever the monitor does.
- **memory tracker**: what is out of date leaves the log although threads overtake
  one another; all memory is returned when traffic stops.
- **traffic sender**: the buffer's limit, each message in one place and lost only in
  known ways, no death of the batching thread.
- **orchestrator**: every rate in one POST, every round ends.

## 2. The modules

| module | models | correspondence |
|---|---|---|
| `KpiStore` | `Monitor…py:63-151, 608-756` | `Client`s are the VNFs and the two orchestrators, `Reports` the source each reports for. A client waits for its own request (`MayPost`) until it gives it up, by its timeout or a restart (`GiveUp`), and for nobody else's. A POST occupies a request thread (`Post`), also when its client has given it up; each of its INSERTs takes `time.time()` (`TakeTimestamp`) and, when SQLite's lock lets it, commits (`CommitRow`) or is dropped (`DropRow`); `sqlite3.connect` may fail before it. The reader is `read_from_database`: `current_time` once per attempt, one `Fetch` per key, retries. `Crash` empties the threads and keeps the file, `initialize_kpi_database` is INSERT OR IGNORE. |
| `CrashLogger` | `:18-47` | Variables and operators for the modules that extend it; `Appended` is a deque with a `maxlen`. |
| `CrashMonitor` | `:326-383, 533-594` | One action per label listed, one per VNF evaluated; the cluster is external and moves between any two of them. |
| `CrashThread` | `:326-383` | What the readers of the CrashLogger see of the crash thread: one value per VNF and poll, VNF after VNF (`LogNext`), with nothing said of the values. EXTENDS `CrashLogger`; `CrashMonitor` implements its `ThreadSpec` (`Thread == INSTANCE CrashThread WITH turn <- …`). |
| `LoggingLoop` | `:758-867` | EXTENDS `CrashThread`, in which a poll logs up to `MaxCrashes` (`PollLogs`); the seven tasks and the row of a cycle. The answers to the Kubernetes calls of a task are the cluster's step (`ClusterAnswers`), which may never come. |
| `NatTable` | `vnfs/NAT/nat-vnf.py:36-64` | Abstract: one atomic step per call of `allocate_nat_port`. |
| `NatAllocator` | `nat-vnf.py:52-64` | The same function statement by statement, with its lock. `Abstract == INSTANCE NatTable WITH …` is the refinement mapping. |
| `BatchSender` | `vnfs/DPI/snort_dpi_enhanced.py:59-111` | The most general copy: one queue per destination, one lock. A flush copies and clears the queue, then sends packet by packet while it holds the lock. |
| `VnfPipeline` | `Firewall-SFC1/firewall_server.py:73-167`, `DPI/snort_dpi_enhanced.py:159-304`, `Encryption/encryption_service.py:107-202`, `Compression/compression-vnf.py:121-231` | The process of a VNF: receiver or capture, bounded queue, workers, exceptions, KPI window. `vnf_name` says which VNF runs, and `Steps` in which order it counts, sends and records. EXTENDS `BatchSender`, whose call is a conjunct of a worker's step. |
| `NatVnf` | `NAT/nat-vnf.py:132-254` | `VnfPipeline` with NAT's translation between counting and sending; EXTENDS `NatTable` and `VnfPipeline`. |
| `MemoryTracker` | `NAT/vnf_queue.py:26-101` (the other five copies are the same) | `record_packet` in the three steps between which a thread may be overtaken: the clock, the table under its lock, the log under its lock. The cleanup thread reads the clock, evicts, trims. |
| `TrafficSender` | `traffic-generator/sender_SFC1.py:76-278` | Every access to the buffer is a step of its own, because no lock is taken: looking at the length, `popleft`, `append`. Then packets, datagrams of 20 packets, two sends each, the printed rate. `history` keeps apart the four ways in which a message is lost. |
| `Orchestrator` | `traffic-generator/orchestrator_SFC1.py:8-107` | Rounds, the reader of each sender line by line, `shared_sum`, and the poster that holds the lock during its POST. The senders' processes and the time are external. |
| `MC…` | | Small instances for TLC, one per component. |
| `…_proofs` | | Theorems: `Monitor_proofs` of the crash thread and the logging loop, `NatVnf_proofs` of `NatTable` and `NatVnf`, `Traffic_proofs` of the sender and the orchestrator, the others of the module they are named after. |

`sender_SFC2.py` and `Firewall-SFC2/firewall_server.py` do what the SFC1 files do, with
other addresses and imports in another order; `orchestrator_SFC2.py` differs from
`orchestrator_SFC1.py` in the script it starts (`:107`) and posts to the same address and
key (`:72` in both). One copy of each is modelled by itself, and in `KpiStore` both
orchestrators are clients of one source.

Abstractions that matter:

- A KPI value is the number of the POST that carried it, 0 is the code's `'0'`.
  Nothing in the code looks at the number itself.
- Time is a clock of the model. It may stand still or advance between any two
  steps of a thread; `Timeout = 1` stands for 3 seconds. A client's two seconds are no
  number of the model: they run from the sending of a request, before a Flask thread has
  it, so a request may be given up at any moment.
- SQLite serialises statements: a commit or a SELECT is one step, and a wait for
  the file lock is any number of other steps before it. Whether the wait is
  longer than SQLite's own timeout is a choice (`DropRow`, `LockedRetry`).
- In NAT a packet is its flow, or one of the two kinds that are not translated; in
  the other VNFs it is the chain it came from, or malformed. Bytes and delays are
  counted per packet.
- In a VNF without workers (Encryption, the firewalls) `packet_queue` stands for the
  kernel's socket buffer, and the one worker for the thread that receives.
- A message of the sender is its number and its size; a rate of the orchestrator is
  one unit, so a sum is the number of rates in it.
- Whether a second has passed (a rate is due, a KPI window closes) is a choice;
  the tracker has a clock, because its stamps are compared.
- The Kubernetes API is external. A label's pods are a sequence whose first one the
  code reads; an evicted pod stays listed without container statuses.
- Where one lock protects one block without I/O and nothing else reads its
  variables half-way, the block is one action. `allocate_nat_port` shows this for
  its lock by refinement. The locks that are held during I/O are explicit: the batch
  sender's, the KPI lock of the firewall (`LockFree`), the lock of `shared_sum`.

## 3. The runs

| run | instance | shows |
|---|---|---|
| `kpi` | one VNF (two keys), two orchestrators (one key), 2 request threads, 2 attempts, 2 POSTs, 1 crash, clock to 5 | `NonzeroMeansRecentlyAlive`, `OnlyAbandonedRequestsRegress`, `ReadTerminates`, `SilenceReadsZero` |
| `crash` | 2 VNFs, 2 pods at a time, 4 cluster events, 3 polls, history of 2 | `CaughtUp`, `QuietVnfFlaggedForCause` |
| `logging` | 2 VNFs, 3 polls of at most 1 crash per VNF, history of 2, any number of cycles | `ColumnTellsWindow`, `CycleEnds` (if the cluster answers) |
| `nat_allocator` | 3 workers, 4 flows, 2 ports | `CallsAreAtomic` (refinement), `ReturnsTheFlowsPort`, `CallsReturn` |
| `nat_vnf` | 2 workers, queue of 2, 3 flows, 2 ports, batches of 2, 4 packets, 2 exceptions, 1 KPI window | `EachProcessedOnce`, `FlowsStayApart`, and the NAT table's `ReverseOwnsPort`, `OneToOneUntilWrap`, `PortIsKept` |
| `vnfs` | firewall, DPI, Encryption and Compression in turn: 2 workers, queue of 1, 2 destinations, batches of 2, 4 packets (DPI 3), 1 exception, 1 KPI window; 6 packets where nothing is raised or reported | `EachProcessedOnce`, `HeldPacketsBounded`, `KpisAddUp`, `QueueIsServed`, and the batch sender's `SentInOrder`, `NoneVanishes`, `BacklogBounded`, `QueueDrains` |
| `tracker` | 3 threads, 1 flow, window and expiry of 1, stamps to 2, at most 4 entries | `SweepLeavesFew`, `MemoryIsReturned` |
| `sender` | 3 devices, buffer of 3, batches of 2, packets of size 2, 2 packets per datagram, 8 messages | `BufferBounded`, `EachMessageOnce`, `DiesOfStaleRemovalOnly` |
| `orchestrator` | a round of one sender and a round of two, 2 lines in a pipe, 2 rates owed | `RatesAddUp`, `AllRoundsRun` |
| `kpi_lost` | as `kpi`, 3 POSTs | violation, see section 6 |
| `kpi_restart` | as `kpi`, 3 POSTs | violation |
| `crash_oom` | one VNF, 2 events, 2 polls | violation |

The batch sender has no run of its own: `vnfs` checks it inside each process that
uses it, with the traffic that these processes make.

Each passing run also checks its module's type invariant.

Why the bounds suffice: the properties of the KPI store concern a pair of
requests of one source and one reader, so two threads, two attempts and two POSTs
contain every pair: of one client that gave the first one up, and of two clients of one
key; one restart is enough to read a row of an earlier process, and the clock reaches the
age at which every row is stale. A restart that is missed or counted twice needs
two polls, of which one may fail; three polls and four events include a death and
restart between two labels and across a failed poll. The history overflows with a
third poll. Three flows on two ports wrap the pool. Four packets make a full batch and
a leftover on either side of it, with two workers one of them fills a batch while the
other sends; DPI's three packets go to two destinations, so a batch of one is sent
while the other holds a leftover. A queue of one is full while all workers are busy,
and one KPI window can close before, between and after the steps of each packet. The bound of
`HeldPacketsBounded` is four packets in DPI and Compression, three in the others. As
long as nothing was raised and no window closed, six packets may come, so the bound
could be exceeded in each of the four VNFs; it is reached in each, and never exceeded.
`RaisesOrOverload` of the MC module says so; it holds up no thread that runs, only
packets to come, the timer and exceptions.

In the tracker, three threads let one entry be overtaken by two, which is as far as
`SweepLeavesFew` lets it go; `MaxTime` gives the clock room to make everything
out of date after the last stamp. In the sender, three devices find a buffer of three
full at once, and eight messages are four batches, so that a stale removal meets a
batch that was measured before. Every third message is larger than a packet
(`MCSize`). In the orchestrator, the second round begins after the first with a
sender that printed text, ended, or ran out of time; two owed rates are one that is
posted and one that waits for the lock.

The histories `posted`, `lastStamp`, `baseline`, `churned`, `calm…`,
`restartsAtListing`, `logged`, `allocations`, `wire`, `lost`, `handed`, `vnf`,
`history` (sender) and `owed` record what happened; no guard of a modelled step
reads them, except the bounds (`MaxPosts`, `MaxAccepted`, …), and the numbers
that `posted`, `handed` and `history.put` give to requests, packets and messages.

Deadlock is checked in every run. Where the model's bounds stop a system that
goes on in reality, an explicit stuttering step of the MC module or of the
specification stands for that (`Quiet`, `Done`, `BoundsReached`, `BoundReached`).

## 4. Fairness

- Threads that can take a step take one eventually (weak fairness of the request
  threads, the reader, the logging loop, the workers, the tracker's threads and its
  cleanup, the orchestrator's readers and poster): the interpreter schedules every
  runnable thread. A statement that waits for SQLite ends, by success or by its
  timeout; `sendto` returns.
- A thread that asks for a lock which is released again and again gets it (strong
  fairness of `Acquire`, `Locking`, `flush_all_batches`, `Add`). CPython's locks
  promise no order, but a released lock wakes a waiter, and the holders here come back
  only after work or sleep of their own.
- A VNF's KPI POST ends, by its timeout of two seconds if not by an answer
  (`PostEnds`): without that, `QueueIsServed` would fail in the firewall, which holds
  the lock meanwhile.
- The orchestrator's POST has no timeout and `readline` has none either, so nothing
  like it is assumed there. `AllRoundsRun` has the condition in its statement:
  `Responsive` says that the monitor answers and that no sender is silent for good.
- The Kubernetes calls (`:217`, `:239`) have no timeout and the executor waits for the
  tasks that make them, so a silent API server stops the rows. `CycleEnds` has the
  condition in its statement: `ClusterResponds` says that the cluster answers what a
  task of a cycle asks; `ClusterAnswers` has no fairness.
- A crashed monitor is started again, and time passes (Kubernetes; the clock).
- Nothing is assumed of clients (a request is given up or not), of receivers, of KPI timers, of the cluster, of the
  crash thread, of senders, and no failure is assumed to happen or not to happen. A
  VNF may fall silent at any time, which is what `SilenceReadsZero` is about.

`QueueIsServed` holds in `vnfs` because `MaxRaises` is smaller than the number of
workers: a VNF whose workers have all died by exception (`nat-vnf.py:203` and
Compression's worker have no `except`) stops for good while its receiver goes on.

## 5. The proofs

| theorem | of | inductive invariant |
|---|---|---|
| `KpiStore_proofs!TypeCorrect` | `TypeOK` | plus: the reader's index is one of `ReadOrder`, and the clock is past the timeout (default timestamps are not negative) |
| `KpiStore_proofs!RecentlyAlive` | `NonzeroMeansRecentlyAlive` | `FreshInv`: stamps are never in the future, a pending INSERT and every row with a reported value carry at most the last stamp of their source, and what the reader holds was fresh when fetched. The property alone only speaks of the end of a read. |
| `KpiStore_proofs!NoOtherRegress` | `OnlyAbandonedRequestsRegress` | `OrderInv`: requests and rows carry values that were posted, and a request that was overtaken by a newer one of its own client is no longer awaited |
| `Monitor_proofs!TypeCorrect` | `CrashMonitor!TypeOK` | plus: each VNF that was seen has a baseline, histories stay bounded |
| `Monitor_proofs!RestartsAccounted` | `CaughtUp` | `CaughtUpInv`: counted crashes keep up with the previous restart count, which is at most what the current poll listed, which is at most the cluster's; a complete listing has every stable pod; an evaluated VNF has taken the listing over |
| `Monitor_proofs!QuietVnfsFlaggedForCause` | `QuietVnfFlaggedForCause` | `QuietInv`: while a VNF is calm, the cluster shows the restart count that was listed last, whether it waits in the poll or was taken over; a VNF that was calm at its listing was listed with the previous count. With `SkippedInv`: a VNF that was seen has a previous count, and a calm one that a listing went past was found unless the listing was cut off |
| `Monitor_proofs!ImplementsThread` | `Spec => Thread!ThreadSpec` | the types and the bound of the polls. `Evaluate` maps to `LogNext` of some value, every other step to a stutter |
| `Monitor_proofs!LoopTypeCorrect`, `ColumnsTellWindows` | `LoopTypeOK`, `ColumnTellsWindow` | `LoopInv`: a deque holds what the last `HistoryLength` polls logged, each poll logs one value per VNF, and what a task has brought back is the total of the window that ends at the poll it saw |
| `NatVnf_proofs!NatTypeCorrect` | `NatTypeOK` | itself |
| `NatVnf_proofs!OneToOne` | `OneToOneUntilWrap` | `BeforeWrap`: the ports in the table were handed out before `next_port`, which has moved by one per allocation |
| `NatVnf_proofs!ReverseOwned` | `ReverseOwnsPort` | itself with the types; holds across wraps |
| `NatVnf_proofs!FlowKeepsPort` | `PortIsKept` | the types |
| `NatVnf_proofs!AllocatesAsSpecified` | `Spec => NatSpec` | none: a worker touches the table by `allocate_nat_port` only |
| `NatVnf_proofs!NatVnfTypeCorrect` | `NatVnf!TypeOK` | `VnfInv`: `PipeInv`, the table's types and those of `new_port`, without which what a worker hands over need not be in `Payload` |
| `NatVnf_proofs!TranslatedSendsAsSpecified` | `Spec => SenderSpec` | `VnfInv` |
| `NatVnf_proofs!TranslatedOnce` | `EachProcessedOnce` | `VnfInv` with `OnceInv` |
| `NatVnf_proofs!TranslatedHoldsFew`, `TranslatedReportsAddUp` | `HeldPacketsBounded`, `KpisAddUp` of NAT, which `vnfs` does not run | `VnfInv` with `HeldInv` and `BacklogInv`, and with `KpiInv` |
| `NatVnf_proofs!TranslatesAsSpecified` | `OneToOneUntilWrap`, `ReverseOwnsPort`, `PortIsKept` of `NatVnf` | none of its own: the table's theorems along `AllocatesAsSpecified` |
| `NatVnf_proofs!FlowsApart` | `FlowsStayApart` | `ApartInv`: a worker that is about to send has the port of its packet's flow, every packet in the sender's pipeline has it too, and a packet that is not translated has none. The property alone compares packets that have left; two that are still with their workers could break it later. |
| `NatAllocator_proofs!TypeCorrect` | `TypeOK` | `IInv`: whoever is past the acquisition holds the lock; the position of `next_port` and the table's entry for each statement the holder may have reached |
| `NatAllocator_proofs!Implements` | `CallsAreAtomic` | `IInv`. It makes the CHOOSE of the refinement mapping unique: at most one worker is inside. `WriteTable` maps to `AllocateNew`, every other statement to a stutter. |
| `NatAllocator_proofs!ReturnsPort` | `ReturnsTheFlowsPort` | `IInv` |
| `BatchSender_proofs!TypeCorrect` | `SenderTypeOK` | plus: no batch is on its way while the lock is free |
| `BatchSender_proofs!Bounded` | `BacklogBounded` | `BacklogInv`: the queues stay short while the lock is held too |
| `BatchSender_proofs!InOrder` | `SentInOrder` | `OrderInv`: the pipeline of a destination (wire, batch, queue) is ascending, and no number in it was not handed out |
| `BatchSender_proofs!Complete` | `NoneVanishes` | `VanishInv` with `OrderInv`, which says that a batch given up shares no packet with the rest |
| `VnfPipeline_proofs!PipelineTypeCorrect` | `PipelineTypeOK` | `PipeInv`: where in its steps a worker may hold a packet (`PacketAt`), what the queue may contain, and the sender's own types |
| `VnfPipeline_proofs!SendsAsSpecified` | `PipelineSpec => SenderSpec` | `PipeInv`. A worker hands over only packets of `Payload`, and touches the sender by its operations only |
| `VnfPipeline_proofs!VnfSendsInOrder`, `VnfLosesNone` | `SentInOrder`, `NoneVanishes` | none of its own: the sender's theorems along `SendsAsSpecified` |
| `VnfPipeline_proofs!ReportsAddUp` | `KpisAddUp` | plus `PostedIsWindow`: what the firewall is posting is still the whole window, because counting waits for the lock |
| `VnfPipeline_proofs!HoldsFew` | `HeldPacketsBounded` | `HeldInv` with `BacklogInv`: a worker that sends a batch holds no packet, those that wait for the lock do, and a batch that the periodic flush takes is short |
| `VnfPipeline_proofs!ProcessedOnce` | `EachProcessedOnce` | `OnceInv`, which is the property with its sets named |
| `MemoryTracker_proofs!TypeCorrect` | `TypeOK` | plus: a thread in a call has a flow |
| `MemoryTracker_proofs!TrimsLeaveFew` | `SweepLeavesFew` | `FewInv`: for each entry, the older ones behind it and the threads that are still to append an older one are together fewer than the threads |
| `Traffic_proofs!OrchTypeCorrect`, `SumIsOwed` | `OrchTypeOK`, `RatesAddUp` | plus `PostedIsSum`: the sum does not change while it is posted |
| `Traffic_proofs!Overshoot` | `BufferBounded` | `PendingBounded`: the length and the devices that have decided to append are together below the bound |
| `Traffic_proofs!StaleRemovalKills` | `DiesOfStaleRemovalOnly` | `BatchIsThere`: as long as no removal was stale, the messages that the batching thread has counted on are in the buffer |
| `Traffic_proofs!TrafficTypeCorrect`, `MessagesOnce` | `TrafficTypeOK`, `EachMessageOnce` | `MessageInv`: what left, the datagram, the packets, the batch and the buffer are together in ascending order; with the messages lost in the four ways they are all that were put, none of them in two places; a datagram is there only while it is sent, and the rates count no more than what left and what was not sent |

The theorems about the batch sender rest on one lemma, `PipelineSteps`: whatever the
step, the packets of a destination stay as they are, get one more at the end, or lose
a stretch in the middle. What is proved of one module carries over to those that use
it: `Implements` brings the theorems about `NatTable` to the code under its lock and
`AllocatesAsSpecified` to the NAT VNF, `SendsAsSpecified` and
`TranslatedSendsAsSpecified` bring those about `BatchSender` to every VNF, and
`ImplementsThread` says that the polls behind a column of the logging loop are what
the crash thread does. The step lemmas of `VnfPipeline_proofs` are stated for
`AnyNext`, in which a worker may hand over more than its packet and may translate it;
`PlainStep` and `StepPipes` show that the steps of `VnfPipeline` and of `NatVnf` are
among its steps.

The counting arguments (`EachProcessedOnce`, `KpisAddUp`, `FewInv`) compare
cardinalities before and after a step. Their lemmas say which element comes or goes:
`OneMoves` and `WorkerTakes` for a worker, `ShiftedPlaces` for the places of a queue
or log whose head is taken off, by a bijection.

The theorems hold for every number of VNFs, threads, devices, retries, polls, rounds,
flows and ports, under the modules' named assumptions on the constants
(`StoreAssumption`, `LoggerAssumption`, `LoopAssumption`, `MonitorAssumption`,
`PoolAssumption`, `AllocatorAssumption`, `SenderAssumption`, `VnfAssumption`,
`NatVnfAssumption`, `TrackerAssumption`, `TrafficAssumption`, `OrchAssumption`), which TLC evaluates on each instance. The
theorems of `VnfPipeline_proofs` have one hypothesis more, `Carried`: the packets
that are not malformed are among those that the sender carries. It is no assumption of
`VnfPipeline` because it is false of NAT, whose sender carries translated packets;
the theorems of `NatVnf_proofs` do without it.

The folds (`Total`, the joining of packets to datagrams) are defined by recursive
functions. `Monitor_proofs` and `Traffic_proofs` show what they return by a least
counterexample (`LeastNat`): the shortest sequence for which the claim failed would
have a shorter one for which it holds.

Only model-checked: the liveness properties (`ReadTerminates`, `SilenceReadsZero`,
`CycleEnds`, `CallsReturn`, `QueueIsServed`, `QueueDrains`, `MemoryIsReturned`,
`AllRoundsRun`), because fairness and ENABLED are beyond the prover. Every invariant and
every action property of a passing run is stated by a theorem.

## 6. Where documentation and code differ

Shown by a run:

- `kpi_lost`: `update_database` swallows `sqlite3.OperationalError`
  (`Monitor…py:73`) and the request is answered "success"; README.md:91 says all
  incoming metrics are written.
- `kpi_restart`: after a restart within the timeout the old rows are kept and read
  as live (INSERT OR IGNORE, `:751`); the comment at `:747` says they will be
  considered stale until the first update.
- `crash_oom`: "OOMKilled" is no bad state (`:372`) and `oom_killed` is read
  nowhere; README.md:90 says such events are flagged instantly.

Noticed while modelling, with no run of their own:

- `:692` "If all retries fail, return default values" is unreachable, since the last
  attempt raises at `:685` (`LockedExhausted`).
- `:361` "do not count historical restarts": a pod first listed without container
  statuses has the baseline 0 (`Info`), and its earlier restarts are counted later.
- `:535` "Get pod status for all VNFs": an exception ends the listing (`:591`,
  `ListFails`), and the VNFs behind it count as missing: `QuietVnfFlaggedForCause` allows the crash that
  each such poll logs for them although nothing is wrong with them.
- `:217`, `:239`: the Kubernetes calls have no timeout. An API server that does not answer
  holds up the cycle and with it all rows (the condition of `CycleEnds`).
- `orchestrator_SFC1.py:72`, `orchestrator_SFC2.py:72`: both orchestrators post
  `transmission_rate`, which the store keeps once: the column tells the rate of the chain
  that posted last, not of both (the second case of `OnlyAbandonedRequestsRegress`).
- `:42` and `:46` speak of ten entries; the deques have `maxlen=5` (`:23`).
- README.md:19 promises persistent storage of crash events; a row whose KPI read or
  INSERT raises is given up (`:864`), and after five more polls nothing in the
  history tells of the crash.
- `vnfs/Firewall-SFC1/firewall_server.py:200` "Send outside the lock": the function
  is called with `send_queue_lock` held, during every `sendto`.
- README.md:34 "Filters packets based on rules": the firewalls look up an action
  (`firewall_server.py:147`) and forward every packet that parses.
- README.md:36 "Encrypts payloads": `encryption_service.py:173-174` forwards the
  plaintext.
- `sender_SFC1.py:16` "Lock for thread-safe deque operations": the lock is never taken.
  The limit of the buffer is overshot by up to the number of devices less one, and a
  device that acts on a stale length may empty the buffer under the batching thread,
  whose `popleft` raises. The sender then prints nothing more; its reader's `readline`
  (`orchestrator_SFC1.py:33`) never returns, its timeout is never looked at, and the
  round does not end. `DiesOfStaleRemovalOnly` and the condition of `AllRoundsRun` are
  the two halves of this.
- `sender_SFC1.py:94-200`: a datagram is sent twice and counted once; the total of a rate
  begins anew with every call of `send_packets`, so bytes of a call that ends within
  the second are in no rate; up to 20 packets are joined to a datagram, so
  `max_packet_size` bounds no datagram. `EachMessageOnce` says what is left: no
  message is batched twice, overtaken or counted twice, and one that does not leave is
  removed by a device, dies with the batching thread, or has two failed sends. The last
  kind is in the rate like those that left.
- `sender_SFC1.py:188`, `:200`: the text of a failed send goes to stdout, where the
  orchestrator takes it for a rate; `float` raises, raises again in the handler
  (`orchestrator_SFC1.py:47`), and the sender is terminated.
- `orchestrator_SFC1.py:72`: the POST holds the lock of `shared_sum` and has no timeout; a
  monitor that does not answer stops every reader.
- `vnf_queue.py:33`, `:66`: the tracker keeps the bytes of every packet of the last thirty
  seconds in a deque without a limit, so `HeldPacketsBounded` bounds the packets on their
  way through a VNF and not the memory of its process.
- `vnf_queue.py:21` "evict idle flows after this long": a call that was overtaken sets
  `last_seen` back (`:61`), and a flow that is in use may be evicted early.
- `vnfs/DPI`, `Encryption` and `Compression` import `vnf_memory`, the file beside them
  is `vnf_queue.py`; its first line has the other name.

## 7. Not modelled, and what is left

The order was: what the monitor may say about a VNF (KPI store, crash thread,
logging loop), then what every VNF shares (batch sender), the VNF with state of its
own (NAT), the other VNFs as variants of one pipeline, the memory tracker they call,
and the generator's two programs.

Parts of modelled components that are left out:

- DPI: starting snort and copying its output to the log (no state shared with the
  packets). Firewalls: the rules, which decide nothing; what scapy's `sniff` does with
  an exception. What encryption and compression make of a payload.
- Memory tracker: payload history and counts (nothing reads them), `stats` (no
  caller). A wall clock that goes back: the tracker's `clock` does not.
- Sender: message texts, the trace of rates (a rate of zero in it would divide by zero
  and end the batching thread). Orchestrator: a `Popen` that fails, and stderr, a pipe
  nobody reads: a sender that writes more to it than the pipe holds would block.
- Monitor: `get_*_old`, `get_pod_status`, `get_pod_resource_usage` and three methods of
  CrashLogger have no caller; `parse_cpu` and `parse_memory` convert one value, and
  the calls of the metrics API only move data. The start-up of the logging thread
  (`:761`) may raise and end the thread before its first cycle; there is no state to
  relate to it.
- `generate_rules.py` writes an example file once; manifests, Dockerfiles and snort's
  configuration are declarative.

What would add most next:

1. The chain: one VNF's wire as the next one's input, over UDP that loses and
   reorders. The properties would be the compositions of those in `vnfs`; the
   state space of two pipelines is the obstacle.
2. The safety half of the liveness properties as invariants: that a thread which waits
   for a lock always waits for one whose holder can go on.
