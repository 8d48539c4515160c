# MCA² – a verification development

MCA² inspects packet traces for a set of patterns on several cores. Each
scanner thread runs an Aho-Corasick automaton over its packets. A packet that
keeps the automaton in rarely visited states is *heavy*; when many packets are
heavy the manager thread goes into *alert mode*: some scanners become
*dedicated*, and the others, the *regular* ones, hand their heavy packets over
to them and steal light ones in return.

Three machines do the matching: the *full-table* machine of the regular
scanners, the *compressed* machine of the dedicated ones (states of four
encodings, written to files by one run of the program and read back by
another), and a *simple* one that `Main.c` makes only if a comment is moved.

The modules describe the program as it is built for MCA²: `gcc -O3` as in
`src/src/build/Makefile`, with the flags of `Common/Flags.h` as they are except
`HYBRID_SCANNER`, which `README.md:64` says to uncomment, and
`HEAVY_PACKET_RECOGNITION` and `DEPTHMAP`, which the transfer of heavy packets
needs. So the heavy-packet queues are lock-free, the lists have spin locks, and
there is no `ALERT_MODE_RECHECK` and no `MIX_IDS`. `GlobalTimer` and `Throughput`
describe the same program with `GLOBAL_TIMING` and, for the manager's event at every
check, `EXTRA_EVENTS` besides, both of which `Flags.h` has in a comment: the timer,
its rates and its events are not compiled without them.

## Inventory

| Component | State | Operations | Interacts through |
|---|---|---|---|
| Converters (`SnortConverter.java`, `DumpConverter.java`) | one file in, one out | convert lines to patterns, tcpdump's text to packets | the files |
| Command line (`Main.c`) | options, thresholds | read and check the arguments, make the machines, choose what to do | everything that is made from them |
| Packet reader (`PacketReader.c`) | position in the trace | read a packet, clone it into every list; mark lists done | trace file, packet lists |
| Packet list (`LinkedList.c`), one per scanner, and one `free_queue` per scanner | doubly linked list, `use_lock`, `test_lock`, `done` | enqueue, insert_first, dequeue, is_empty, set_lock, set_done | owner; thieves; manager (lock switch, unlocked emptiness test) |
| Scanner (`Scanner.c`) | packet in hand, machine type, `alert_mode_active`, `done`, poll position, byte counts | take from own list / poll queues, scan, transfer, steal, count, report | lists, queues, manager's counters and flags, timer |
| Heavy-packet queue (`CyclicLockFreeQueue.c`), one per regular and dedicated thread | ring with two sequence numbers per slot | enqueue (one writer), dequeue (one reader; at the end the manager too) | shared memory, no lock |
| Manager (`MulticoreManager.c`) | thread counts, targets, matrix of queues, rate counters, `stopped` | watch rate, switch to alert mode, watch inputs, stop all, drain and free | everything above |
| Main thread of a run (`DumpReader.c`) | – | start and join the threads in order, report | thread starts and joins, `stopped` |
| Global timer (`GlobalTimer.c`) | counters, rates per interval, events | add bytes, collect, log an event, put the time line together | called by scanners, manager, main; a thread of its own |
| Aho-Corasick builder (`ACBuilder.c`) | tree of nodes, failures, messages, counts of failures into a node | read the patterns, enter, construct failures, move failures off leaves | read by all generators |
| Hash map (`HashMap.c`, `uthash.h`) | buckets, list of objects, iterator | put (with expansion), get, iterate, destroy | gotos of the tree, tables of the generators |
| Full-table machine (`TableStateMachine*.c`) | table, match bits, depths, which states are common | put states, scan (with and without hand-over) | built from the tree; hands a heavy packet and an index to a dedicated scanner |
| Compressed machine (`StateMachineGenerator.c`, `StateMachine.c`) | states, first- and second-level look-up | generate states, set their data, scan | built from the tree; read-only once built |
| Simple machine (same files) | one linear state per node | create, scan | built from the tree |
| State encodings (`States/`, `BitArray`) | bytes of a state | allocate, fill, next state, size, id | filled by the generators, read by scan and dumper |
| Dumper (`StateMachineDumper.c`), pattern, state and look-up tables | three files | dump, read | one run writes, another reads |
| `FindLP.c` | – | – | neither compiled nor called |

What is hard here: every structure is shared with few or no locks, the *role*
of a thread and the locking discipline of its list change while it runs, the
ring never looks whether it is full and gets a second reader at the end, the
manager decides to stop from several unlocked looks, and it frees what the
scanners use. Threads are not restarted and nothing is sent that could be lost.
In the machines the passes over the tree depend on one another: one counts the
memory another one fills, failures are moved while they are followed, what a
leaf or a path leaves out has to be found by the bytes read last, and a packet
changes from one machine to the other in the middle. The input comes through
files that another program writes, with limits of its own.

What makes each component correct:

- **ring**: packets come out whole, in order, once; a lapped reader is told so;
  no false alarm (`FifoDelivery`, `NoFalseAlarm`, `LapIsFinal`, `Delivery`),
  also while it is drained (`FatalOnlyAtWrap`, `DrainEnds`);
- **list**: mutual exclusion, both chains intact, a dequeue gets the first item
  and no two the same, the unlocked emptiness test does not invent emptiness;
- **system**: no packet twice and none lost before the stop, both as long as no
  thief's dequeue overlaps one that the owner of the list began without the lock
  (`ListsWhole`; `MCLinkedListSwitch` shows such an overlap), order preserved per
  source, a thread deals only with partners that are ready, nothing is used
  before it is made or after it is freed unless all were told to stop, no
  packet from a queue that is being drained is scanned, every run ends;
- **rate and counts**: no count lost or doubled; never too many heavy packets in
  total; each byte counted once over all scanners, and the time line complete;
- **files**: what is read back is what was in the text, whole and in order, and
  a file cut short only ends it early;
- **options**: what is used was made, and is what lines 28 to 40 of the usage
  message say;
- **hash map**: an object is found under its key and iterated in the order of
  insertion, whatever the hash function and however often the table expands;
- **tree**: a failure is the longest proper suffix in the tree, also after it
  was moved off leaves, and no message of a leaf is lost thereby;
- **machines**: the state stands for the longest suffix in progress, a match is
  reported where and only where there is one, generation comes to its end with
  the memory it needs, a scan ends, no pattern is lost at a hand-over;
- **encodings and dump**: a state answers what it was told, its memory is exact,
  and a machine read back is the machine dumped.

## Modules

### What runs concurrently

`CyclicLockFreeQueue` – the ring, one action per shared load or store.
`left`, `right`, `packets`, `read_idx`, `read_sq`, `write_idx`, `write_sq` are
the fields of the C structure; `wpc`, `rpc`, `regRight`, `result` the position
and locals of the two threads; `wlap`, `rlap` are history variables. A
`HeavyPacket` is copied field by field, so that a torn copy is representable.
Stores and loads happen in program order: what gcc makes of this function and
x86 keeps. The writer's own index is advanced in the step that publishes.

`HeavyPacketFifo` – what both sides expect of it: an abstract FIFO whose reader
may be told *overrun* when at least `Capacity` packets wait.
`CyclicLockFreeQueue` implements it (`ImplementsFifo`).

`DrainedQueue` – the same ring, its writer taken from `CyclicLockFreeQueue`,
when the manager empties it next to a scanner that may be within a dequeue. The
two readers race on `read_idx` and `read_sq`, so a dequeue is as fine here as
two readers can tell, in the order that `gcc -O3` makes of it: `read_idx` is
loaded once and what is stored is computed from registers. (At `-O1` the left
number comes before `read_sq` and `read_idx` is loaded twice, which leaves more
room for the race that `FatalOnlyAtWrap` is about.) The manager may be told an overflow
too; it only prints it. `overrun` is a history variable: a queue that was ever
lapped may end the program anywhere, also after the manager has caught up.

`LinkedList` – the list. An operation is: decide from `use_lock` whether to
lock, spin, read, store, chain, decide again whether to unlock. Stores that
another thread or the unlocked emptiness test can tell apart are separate
steps. `contents` is a history variable: the sequence the list stands for.
The owner inserts and dequeues (`Scanner.c:200`, `485` and `556`; before it, the
reader); other threads, once the lock is on, only dequeue (`Scanner.c:483`).
`Spec` lets the lock switch fall only between operations of the owner,
`FreeSpec` anywhere, as the code does.

`SystemState`, `Scanner`, `MulticoreManager`, `PacketReader`, `Mca2` – the
threads of one run and their composition. `SystemState` declares what they
share, the other modules have the steps of one kind of thread each, `Mca2` has
main, the interleaving, fairness and the properties. A step reads or writes one
thing another thread may change. List operations and queue operations are
single steps: `LinkedList` and `CyclicLockFreeQueue` say when that is right. One
operation is not, the dequeue that an owner begins without the lock (`BeginOwn`,
`UnlinkOwn`), since the manager may switch the lock on in between. If a thief then
dequeues from the list before the owner is through (`StealOverlap`) both get the
same packet, `crashed` becomes "overlap" and the run is followed no further: the
pointers that two such dequeues leave behind are not modelled.
The content of a packet is reduced to whether the table machine finds it heavy.
A thread that follows a null or freed pointer sets `crashed`, which ends the
process, and so does the manager when it fills the matrix of queues for more
dedicated threads than there are threads (`OverrunMatrix`). The lists are done
before the scanners start, so that `StopAll` by a scanner is never reached.

`HeavyRate` – the counters of scanned and heavy packets between scanners and
manager.

`GlobalTimer`, `Throughput` – what the system reports of its speed.
`GlobalTimer` has the counters, the thread that collects them, the events (an
index is taken, then the event is stored) and the time line made of both;
`Throughput` composes it with scanners, manager and main, reduced to what they
count: `bytes_scanned` and `bytes_scanned_since_alert` are added when a scan
begins and corrected when a packet is passed on, on the value that the flags
have at that time. Rates are kept as the bytes they are made of. Facts of the
code that show in the model: a heavy packet is counted in full in the time line
of the thread that takes it over; bytes reported after the last collection are
in no rate; `bytes_scanned_since_alert` may go below zero once alert mode was
stopped between the addition and the correction.

### What is run

`AhoCorasick` – `acBuildTree`. A node is the sequence of characters that leads
to it; `gotos` keeps the order in which children were entered, `failure`,
`message` and `hasFailInto` are the fields of a node. One action per pattern
entered, per node taken from the queue of `constructFailures`, and per node of
the depth-first pass of `avoidFailToAcceptingStates`.

`OrderedMap`, `HashMap` – what the builder and the generators expect of
`HashMap.h`, and what `HashMap.c` makes of it with `uthash.h`: buckets, their
counts and limits, the expansion that moves every object and may give up, and
the list of objects in the order they were added. `hashv` is any function of
the keys. The refinement mapping reads `entries` off the list of objects. An
object that is put in twice is outside of it: no caller does that.

`PacketScan` – what the next two machines share: the payloads, and the variables
of the packet that is scanned, the byte it has come to and the answer.

`TableMachine` – the full-table machine on top of the tree: which states are
common is any choice of `NumCommon` nodes (the code reads it from a file),
`PutState` fills one row, `ScanByte` and `PlainByte` are the bodies of the loops
of `matchTableMachine` and `matchTableMachine_no_trasfer`.

`CompressedMachine` – the compressed machine on top of it: one action per state
in `generateStates` and in `setStatesData`, one per round of the loop of
`matchIterative`. Ends of the program (`exit`, a null pointer, a loop past the
memory) are phases. `next.match` is not initialised before the loop: any value.
`CompressedInputs` says what it is given: bytes, and a tree whose failures were moved
off the leaves; `MCCompressedMachine` assumes it for TLC.

`SimpleMachine` – the simple one on top of it, with its states as bytes:
`GenerateState` allocates, `SetData` fills, `ScanByte` is a round of
`matchIterativeSimple`. The scan reports only when it is verbose.

`BitArray`, `StateEncodings` – the encodings, as operators on sequences of
bytes. `SavedMachine` – states given as bytes are created, filled, asked, dumped
and read back; fresh memory holds `junk`, and `MemoryIsExact` compares two
contents of it to show that no byte is left unwritten. The strings of the
pattern table are short sequences of bytes. On a path the code reports no
pattern text at all (`pattern` stays null, `PathCompressedState.h:63`).

### How input gets in

`PatternFile` – lines of text become records in a file (`SnortConverter`), and
records become patterns (`acBuildTree`). A line is a sequence of characters and
of words between bars; `Java`'s exceptions and the end of a disk end the file at
any byte.

`TraceFile` – lines that tcpdump printed become packets in a file
(`DumpConverter`, `PacketOutputStream`), and the reader reads it as often as it
is told. A packet longer than its buffer is refused but not skipped: the reader
takes its bytes for the next header. tcpdump prints no such packet, but the
format has room for one. The converter writes zeros for the addresses.

`CommandLine` – `parseArgs` and `main`: the arguments one by one, the checks, the
machines that are made, cast and used, in the build with `HYBRID_SCANNER` and in
the one without.

`Inputs` – the three together, of which one runs in a behaviour. Each says what it
is given (`CommandInputs`, `PatternInputs`, `TraceInputs`): thresholds are values
with commas between them, as USAGE writes them; the least length of a pattern is 1
(`SnortConverter.java:58`) and its size takes two bytes; a line of tcpdump has bytes
and a time. TLC evaluates these in `MCInputs`.

### MC modules and proofs

`MC*` modules define constants that a `.cfg` cannot. `MCMachines` puts three
modules together, of which one runs in a behaviour: the table machine, the simple
machine or the states as bytes; `MCHeavyPackets` does the same with `DrainedQueue`
and `HeavyRate`. `*Proofs` modules prove what the section on proofs lists.
Definitions marked *Mutant* or *A bug* are plausible mistakes in the definition
next to them; substituting one for it makes a property fail. They are not used
otherwise.

## Runs

| Run | Question | Bounds |
|---|---|---|
| `MCQueue` | order, alarms, refinement of the FIFO; what is not overrun is delivered | 2 slots, sequence numbers modulo 4, the writer up to three rings ahead, 18 enqueues: the index wraps 9 times, the numbers twice |
| `MCHeavyPackets`, drain | the fatal branch of a dequeue needs the end of a lap; draining ends | 2 slots, numbers modulo 4, the writer up to one and a half rings ahead, so that it laps its readers or just does not, 10 enqueues: five laps of the ring, in any of which the drain may begin |
| `MCMca2` | the switch to alert mode and the shutdown; conservation and order of packets, end of every run | 2 scanners and up to three work groups of one: none, one or both become dedicated, or the matrix is overrun; 3 packets, first and last heavy, so that transfers overtake and steals happen |
| `MCLinkedList` | list under two threads and the manager | 3 items: a middle, two ends |
| `MCHeavyPackets`, rate | rate counters | 2 scanners, update every 2 packets, 4 packets each |
| `MCThroughput` | bytes counted once, measurements complete | 2 scanners, 1 dedicated, one packet each of 2 bytes, passed on after 0 or 1; one interval, 8 events |
| `MCHashMap` | map in order of insertion under every hash, length of the chains | 5 keys, 3 hash values, one bucket to begin with and a limit of one object: the table expands twice and gives up |
| `MCCompressed` | tree, generation and scan of the compressed machine | alphabet of 2; every file of two patterns of up to four characters, every one of three of up to three, longer first; every packet of four bytes, begun at 0 or 1 |
| `MCMachines`, table | table and both scans | every file of two patterns of up to three characters, every choice of 3 common states, every packet of four bytes |
| `MCMachines`, simple | simple machine and its scan | every file of two patterns of up to three characters; roots of three to six gotos; every packet of four bytes of four values |
| `MCMachines`, saved | encodings, dump and reload | every state of two gotos and all kinds of pointers, of five with three kinds, paths of 1, 2 and 9 characters; machines of three states; the limits: 63, 64 and 65 gotos, paths of 257 and 296 characters, 257 patterns |
| `MCInputs`, options | every command line of its options | one option of each kind that a decision depends on, three lists of thresholds, both builds |
| `MCInputs`, patterns | patterns from text to tree | every text of up to three lines of seven kinds, and of up to two with lines at and past the limits of both buffers (258 for 1024, 260 for 4096: a size still takes two bytes); the disk may fill up within a record |
| `MCInputs`, trace | packets from text to lists, once and twice | every text of up to five lines of six kinds, packets of up to three bytes; the disk may fill up at any byte of a record |

Why this is enough: a failure chain of three nodes, which moving failures off
leaves needs, takes patterns of three characters, and a failure found only on
the second try takes four (mutant `FollowFromRoot`). Five gotos and nine
characters make elements of three, two and one bits cross into a second byte.
Files are taken up to a renaming of the two characters. Roles, order and
conservation involve one regular and one dedicated thread at a time; who may
deal with whom is proved for any number of threads and groups. A second interval
of the timer only repeats the first one.

Three runs show a disagreement between the code and what it says of itself:

| Run | What it shows |
|---|---|
| `MCMca2Roles` | a scanner that has passed the test of its machine type is made dedicated and put in alert mode; it then transfers its packet as if it were a producer, with an uninitialised target |
| `MCLinkedListSwitch` | the lock is switched on while the owner is inside a dequeue that took none; a thief's dequeue, with the lock, is about to unlink the same item |
| `MCInputsCreate` | `-c` with `-s` is accepted and carried out without `HYBRID_SCANNER`, though `README.md:42` says that it cannot be used (and `Main.c:33` that it can) |

What the models show besides, and the properties therefore except:

- the manager finds the regular threads' lists empty one by one, while a stolen
  packet may be on its way into one: all threads are then stopped with input left
  (`MulticoreManager.c:167`), so that `NothingLost` ends with the stop, and the
  total that `DumpReader.c:186` prints as scanned is what was read;
- `Main.c:49` says that a `HYBRID_SCANNER` build must be given both `-a` and `-r`.
  `checkOptionsValidity` does not ask for them, and only a scan ends in an error
  without them (`BothForHybridScan`): with `-c`, or `-c` and `-d`, a machine is made
  or dumped, and with `-r` alone the program ends in good order without having
  done anything;
- with one thread and work groups of two, the defaults, the number of regular
  threads is negative and the matrix is filled without end
  (`MulticoreManager.c:82`; `NoEarlyCrash` says that only then it is);
- draining at the end of a lap, the manager may make a scanner see the next slot
  with the last number: the program ends with an error before it prints its
  results (`FatalOnlyAtWrap`, `Scanner.c:285`);
- the reading that follows one in the middle of an update may give a rate above
  100 %, though `MulticoreManager.c:364` expects a lower one: `NeverHighInTotal`
  is about the sum of all readings;
- the last of the thresholds given with `-A` is not stored, unless a comma follows
  it (`Main.c:162`); more than 8 threads write past the reader's array of lists
  (`PacketReader.c:231`), which is not modelled;
- a pattern that the converter writes may not fit the buffer of `acBuildTree`
  (phase `overrun`, `ACBuilder.c:540`);
- the tree of the full-table machine does not pass matches along failures: a
  pattern that ends inside another one is not reported (`ExactWhenNotNested`,
  `TableStateMachineGenerator.c:236`);
- if all patterns begin with the same character the compressed machine never
  leaves its root (`BranchingRoot`, `StateMachineGenerator.c:119`);
- a bitmap or linear encoded state of exactly 64 gotos has a size of 0 in its
  header and answers as if it had none; a linear encoded state never finds a byte
  of 128 or above, `char` being signed (`Encodable`);
- a state of the simple machine with five gotos or more looks for its pointers in
  the wrong place, after one bit for each goto where two were written
  (`Readable`, `SimpleLinearEncodedState.c:223`);
- `list_dequeue` returns at once on an empty list, which `LinkedList.h:70-71`
  says it waits on;
- in a lookup table the pointer 0 means "no goto" and is also the root: a goto
  to a leaf that fails to the root loses its match (`GotoToRootInTable`,
  `LookupTableState.h:39`). With `-l:0 -b:0`, which `README.md:41` tells users
  to give, every branching state is a lookup table;
- the pattern counted for a match of a lookup table is wrong for many
  characters: masks `0x16` .. `0x128`, and the loop ends after the first byte
  (`CountedBefore`, `LookupTableState.h:46-60`);
- a new pattern table is not cleared (`PatternTable.c:16`), so that the dump may
  follow garbage (phase `crashed`); a state with more than 255 patterns is
  written with a wrong count and cannot be read back (`load_error`);
- `next.match` is read uninitialised after a byte the root has no goto for
  (`clean`, `StateMachine.c:268`);
- the array of events has 100 places and no check (`GlobalTimer.c:174`):
  `EventsKept` is about runs that stay within it;
- one word between bars that is no number ends the conversion of all later
  lines (`SnortConverter.java:28`).

Deadlock is checked in the concurrent modules. `Mca2` has a step `Ended` for a
run that is over; the queue and list modules never stop, since a dequeue can
always be tried. `DrainedQueue` and `Throughput` stop when all threads are gone.
The machines, files and options are sequential: they stop when a packet or file
is read or the program has ended.

### Fairness

Threads are kernel threads, each gets to run: `Mca2!FairSpec` has weak fairness
of each thread. `FairDrainSpec` has it for the manager, which is inside a loop that ends
when the queue is empty. `CyclicLockFreeQueue!FairSpec` has it for the inside of
an enqueue, which nothing makes the writer begin, and for the reader: a dedicated
scanner polls until it is told to stop. `CompressedMachine!FairSpec` has it for
the loop of a scan, which is sequential code. `LinkedList` assumes that a thread
inside an operation goes on. Nothing assumes that a call is made, that the rate
gets high, or that a spinning thread gets the lock.

## Proofs

`HeavyPacketProofs` has three parts. The first is `CyclicLockFreeQueue`, for every ring size, modulus, lag and number of
enqueues, under one assumption: `MaxLag <= Size * (MaxSeq - 1)`, the writer is
never so far ahead that its numbers come round to those the reader expects
(2^24 laps of the ring in the code). Sequence numbers are laps modulo `MaxSeq`
(`Sq`); the invariant `IInv` says, slot by slot, which lap each of the two numbers and the
packet of a slot belongs to (`RingInv`), how far the writer may be ahead
(`LagInv`), and what the reader's registers still imply about the slot it is
reading (`ReaderInv`): if the right number was the expected one and the left
one still is, the packet in between was of that lap. `FifoDelivery` alone is
not inductive since it says nothing of a dequeue in progress. From `IInv` follow
the FIFO property, the alarms, the finality of a lap and, with the mapping in
`CyclicLockFreeQueue`, the refinement of `HeavyPacketFifo`.

The second is `DrainedQueue`, for every ring, range of numbers and lag,
`LagAssumption` not needed: `FatalOnlyAtWrap`. One thread at a time holds
`read_idx`, the scanner and then the manager, and what it has in its registers is
the state of the queue (`HolderInv`), until the scanner makes its last step as a
reader (`Escaped`) and never looks again. What the scanner has loaded after the
stop is the state of an earlier moment (`StaleInv`): it looked for the packet of
some lap `l`, at most one enqueue has begun since, and the sequence number it
loads next is that of `l` or a later lap – or, when the slot is the first, of the
lap before, if the manager has wrapped `read_idx` and not yet stored `read_sq`.
`Misled` goes through what the two numbers can then be: only the last case is
taken for an overflow.

The third is `HeavyRate`, for every number of scanners, update interval and length of
trace: `NoCountLost` and `NeverHighInTotal`. The latter needs `Ahead`: what is
in a heavy counter, or past it, has been preceded in the total counter.

`LinkedListProofs`, for every set of threads and items, of `LinkedList!Spec`,
that is, if locking is not switched on within an operation of the owner
(`MCLinkedListSwitch` is why): mutual exclusion, both chains, the first item to exactly one dequeue,
the emptiness test. `LockInv` says who has the lock, or that only the owner is
inside while there is none; `ItemInv` that an item is in the list or with one
thread; the shape of the pointers is stated for the list as it is between two
operations and for each point inside one, since in between `head` and `tail`
do not agree.

`SumProofs` has the lemmas about sums that the next proofs and `ThroughputProofs`
need. The library's induction theorems take a predicate, which no installed
prover can instantiate; `Induction` is stated with the set of the numbers that
satisfy it instead, which is an ordinary constant, and is derived from the
theorem that a non-empty set of naturals has a least element. From it follow
induction over the subsets of a finite set and what `SumFunctionOnSet`, a fold,
does when one term changes, comes or goes.

`HashMapProofs`, for every set of keys, hash function, number of buckets and
limit: counts and buckets agree with the objects (`Integrity`), and each step is
one of `OrderedMap` or a stutter (`ImplementsOrderedMap`). The table is described
by `Holds`, relative to a set of objects, so that one lemma about moving serves
the addition, the expansion and the destruction. That no chain exceeds its limit
(`ChainsBounded`) is not obvious after an expansion, which raises the limit of a
bucket by how often its count goes into the ideal length: that quotient must not
round away what is over. `Bounded` adds that the multipliers of all buckets
together are at most the number of buckets. So an expansion comes before there
are two thresholds per new bucket, and the ideal length it starts from is at
most `Threshold`.

`Mca2Proofs`, for every number of scanners, number and size of work groups and
trace: types, `PartnerReady`, `QueuesMatchRoles`, `NoEarlyCrash` and
`NoScanWhileDraining`. Nothing is locked in the switch, so the argument is
its order, part by part of `IInv`: `MatrixInv`, the matrix and the targets are
filled for `Assigned` dedicated threads before their number is published;
`SwitchInv`, whoever is in alert mode finds every thread up to itself switched,
with its lock and machine – and a partner has a lower number; `RoleInv`, what a
scanner is doing was its to do and its partner is dedicated; `QueueInv`, so
packets are only in queues that were made; `StopInv`, when the manager comes to
free, all scanners were told or are gone. `DoneInv` ties the count of finished
threads to who is gone, which the manager concludes from. What is not proved
there is what the code does not have: that only regular threads transfer
(`MCMca2Roles`).

The second part of `Mca2Proofs` goes on from there to the packets themselves: `NoCloneTwice`,
`NothingLost`, `ScanOrder` and `NormalRunScansAll`, for the same range of
systems. `Holdings` gives the content of each place a packet can be in, a list,
a queue, a thread's hand, what it is stealing, what it has scanned. Every step of
a scanner takes the first packet of one place and appends it to another, puts it
first in its own list when it was stolen, or, told to stop, forgets it
(`ScannerFlows`); the lemmas on the data are about one such move between any two
places. That packets stay apart and are not lost follows at once. Order needs two more conjuncts: `Home`,
which says where packets of a regular thread's list may be (what is stolen comes
from dedicated threads, so it may overtake), and `InOrder`, which orders not
only what is in one place but each place before those that are further away
(`Distance`) on the way to the thread that scans. `CalmScan`, for runs without
alert mode: scanned, in hand and in the list, put together, are what was read of
the scanner's copy; nobody is told to stop, because a list that runs empty is
marked (`ReaderInv`). An overlap of two dequeues in the switch of a list's lock
copies a packet, and the model ends there. So `WholeInv`, the inductive invariant,
has what is about packets (`PInv`) under the condition `ListsWhole`, as `NoCloneTwice`
and `NothingLost` have it; `ScanOrder` and the first part hold without it, as the
step with the overlap comes by no scan.

`ThroughputProofs`, for every number of scanners, packets and intervals, and if
there is a size a packet may have: `EachByteCountedOnce`, `SinceAlertOnce` and
`MeasurementsComplete`. That the counter since the alert goes no lower than one packet
is not inductive: `SinceInv` adds that a packet a table machine may still take back was
counted since the alert, or is the one that was not (`Covered`), for which it
must be known that a packet received is never with a table machine (`HandInv`).
`JInv` is about the bytes of all scanners together: what was counted, what waits
in the queues and what is in hand and not counted is what was begun (`CountInv`).
It needs that a packet is passed on only after all dedicated scanners were
switched (`PassedInv`), in their order (`SwitchInv`), so that the receiver counts
it the way the sender has left it; after the stop a receiver counts it in full
and the equation becomes an inequality. `TimeInv` is the time line of each
scanner, with the bytes that the timer has taken and not stored yet. `Rates` says how far
each list is while the timer goes through them; `EventInv`, that the places taken
are filled or belong to one thread each.

`AhoCorasickProofs`, for every patterns file: each failure is the longest proper
suffix in the tree (`FailureIsLongestSuffix`), and none is to a leaf, nor a
message lost, once they were moved (`LeavesAreSkipped`). `TrieInv` describes the
tree while patterns are entered: every prefix of a node is one, a leaf is a
pattern. `SearchInv` is the breadth-first pass: the queue is in the order of
length, spanning two lengths at most, and a node without a failure is below one
that is queued, so that all candidates for a suffix have theirs. The loop that
follows failures (`Follow`) is a recursive function; that it ends and where is
shown by induction on the length. `MovedInv` and `VisitInv` are the depth-first pass,
which follows failures that it may have moved before: whatever has been skipped
is a leaf and its message is kept.

Its second part is the full-table machine. `TableInputs` says what it is given:
bytes, and a tree whose failures were not moved (`TableStateMachineGenerator.c:236`);
TLC evaluates this in `MCMachines`. `TableInv` says that every entry of
a row that was filled leads to the longest suffix, `ScanInv` that a scan is in the
state of the longest suffix of what it has read and has reported what it came by.
Hence, for every packet, every limit and every choice of common states, both scans follow the tree
(`ScansFollowTheTree`), answer exactly if no pattern is inside another
(`ScansAreExact`: the two halves of `ScansAreRight` that are about this machine),
and lose nothing at a hand-over (`HandOverIsSafe`): `last_idx_in_root` is where
the current state began, so the next scanner reads all of what is in progress.

Its third part is the compressed machine, `CompressedMachine`, under `CompressedInputs`,
for every patterns file, packet and limits of the encodings (`Options`).
`MachineIsComplete` and `ScanIsExact` are about results; the inductive invariant
`CompressedInv` is `TreeInv` and four parts, one per phase of the program, each of
which also says that the later phases leave it alone:

- `MarkInv`, while failures are found and moved. `constructFailures` counts the
  failures into each node (`CountInv`). `avoidFailToAcceptingStates` takes one off
  a leaf for each failure moved away and adds none to the new target, so the counter is
  too low in general. It is still right where it matters (`UnmarkInv`): a node
  other than a leaf never loses one, and had one if a chain of failures comes to it; a leaf
  has at most those that still wait to be moved, hence none in the end
  (`MarkedRight`, `FailTargetsAlwaysMarked`).
- `GenInv`, `generateStates`. `StateNodes` says without the queue which nodes
  are to have a state: of those that are no leaf the root, the branches, the marked
  and the children of a branch. Nodes below the queue (`Waiting`) are untouched, the others have a
  state exactly if they are in `StateNodes`, with the room that `RoomFor` says
  and the level marks (`Generated`). That no node in the queue is below another
  (`Apart`) makes a step final for the nodes that it leaves.
- `DataInv`, `setStatesData`. A state that is filled has the data `DataOf` it; the
  look-ups have those of the first two levels that are filled (`Filled`); what is
  not filled is below the queue. That the two passes agree is then a matter of
  counting the pointers of a state in two ways (`Counted`): those stored are at most
  those for which room was made. A phase in `Failed` needs a root that is no branch.
- `CScanInv`, `matchIterative`. At byte `idx` in state `s` the bytes read end with
  `s` (`ScanAt`); unless the exceptions of `ScanIsExact` hold, no longer node they end
  with can go on (`PendingAt`), and what they have come by was reported (`SeenBy`,
  together `ExactAt`). `s` need not be the longest suffix, since leaves have no
  state: `LongestSuffixIn` is one of `s`, a leaf below it, or a leaf that fails to it.
  A step is a goto, an agreement along a path, or a failure; the lemmas about
  each say where it leads for any state and pointer (`LeadsTo`, `ScanTo`), and the
  actions only put them together.

TLC checked `CompressedInv` on all 937,123 states of `MCCompressed` before it was
proved. The proofs know of `MAX_NODE_DEGREE` only that it is a constant. The three parts are in one module since they share the lemmas on prefixes,
suffixes and `Follow`.

`InputProofs`, of `Inputs!Spec` under the three assumptions above: the three
properties of `MCInputs`, for every set of options, text, number of rounds and
sizes of buffers (`ConverterBuffer < 65536`, for two bytes to hold a size).

- `UsedConsistently`: `CommandInv` says what main has made and checked at each
  point; the checks depend on options only, so they still hold where it acts.
- `PatternsArrive`: `PatternInv` says that the file holds the records of the first
  `n` patterns of the text, each at the sum of the lengths before it (`OffsetsOf`), and
  behind them nothing or a record that is cut (`FileHas`). The reader is at one of these places
  and has read the patterns before it (`TreeHas`). That no other bytes are ever
  taken for a record needs that places do not depend on what is in the file: hence
  `off` is a function of the text alone.
- `PacketsArrive`: `TraceInv` has the same for packets, whose bytes come in groups
  of lines (`GroupOf`), one of which is at hand and not written yet. Packets
  without bytes have a record that the reader skips, so a place in the file
  is that of a line, not of a packet (`InPlace`). A reader that comes to a packet that is
  too long loses its place for good, in this round and all later ones (`LostPlace`);
  what is left then is that it has read what comes before. The number of packets read is a
  multiple of those in the file, and those of the round at hand.

`Said`, `Told` and `TotalSize` are recursive functions. `Recursion` derives from
`Induction` that there is such a function on an interval, so that the proofs can
use what defines it.

The type invariants (`TypeOK`) of these modules are theorems and not run again.

Only model-checked: the liveness properties (`ScanEnds` and others), which are out of
the prover's reach; what uses `Bitwise` or `RECURSIVE` operators, for which the
prover has no backend: the encodings, `SavedMachine` and `SimpleMachine`
(`AnswerIsRight`, `SavedExactly` and the part of `ScansAreRight` about the simple
machine).

## Not modelled

Logging and wording; `FindLP.c`, which is neither compiled nor called;
`matchRecursive` and `runTest`, which nothing calls; how `setStatesData` puts
together the texts of patterns; the printing functions; the generators of random
traces (`DummyDumpCreator`, `DummyPacket`); `hashmap_remove`, and the macros of
`uthash.h`, `utlist.h`, `utarray.h` and `utstring.h` that the program does not
use; `list_get`, `list_contains_str` and `list_delete_item`, which are not called
while threads run; the builds with mutexes, `ALERT_MODE_RECHECK`,
`SIMPLE_USE_TABLE`, `MIX_IDS` and `FIND_MC2_BAD_PATH`; dump files that are short
or come from elsewhere. `Mca2` has the drain of a queue in one step;
`DrainedQueue` has its inside. What the states of `SavedMachine` are to say is
taken from a set of descriptions, not from `CompressedMachine`: the two are
separate models of the two halves of the generator.

## What could come next

- An abstract matcher that reports the accepting suffixes of what it has read,
  with the machines as its implementations.
- `CompressedMachine` composed with the bytes of `SavedMachine`.
