# TLA+ models of TECHUILAGUY

The repository is a collection of systems built from scratch: a compiler, a
network simulator, RPC and Raft over a simulated network, a storage engine, a
small blockchain, a 32-bit kernel, a version control system and its server, and
several numerical libraries. This directory holds TLA+ models of the parts
whose correctness depends on the *order* of events (messages, crashes,
interrupts, allocations) or on several algorithms fitting together (the
compiler, merging), the TLC configurations that check them, and proofs of the
safety properties of election, RPC, store, ledger, chain, scheduler and
register allocator.

Run a model with `tlc -config X.cfg MCx`, check the proofs of a component with
`tlapm XProofs.tla`.

## Inventory

| Component (path) | State | Operations | What is hard | Correct means |
|---|---|---|---|---|
| Raft election (`07-distributed-systems/raft`) | role, term, vote, tally, two timers per node | requestVote and heartbeat handlers, response processing, timers | messages lost, late, repeated; timers racing heartbeats | one leader per term, one vote per term, a reachable leader stays |
| Simulated network (`07-.../rpc/rpc.cpp`) | messages under way, inboxes, partitions | send, tick, receiveAll, partition, heal | drop, duplicate, delay | what a partition blocks; order |
| RPC (`07-.../rpc/rpc.cpp`) | request ids, the blocking call's budget | call, pumpServer, handleRequest | late and duplicated requests and answers, timeouts | answers belong to their call, calls return |
| Serialization, protocol codecs (`07-.../rpc/serialization.cpp`, `06-networking`) | none | encode, decode | malformed bytes | round trips |
| WAL and KV store (`08-storage`) | log file, map | append, recoverRecords, put, remove, replay | crash in the middle of an append, damaged records | a restart yields what was written |
| Ledger (`23-blockchain/l1/ledger.cpp`) | accounts | apply, snapshot, loadSnapshot | unsigned wrap, self transfer, replay | conservation, each transaction once |
| Chain (`23-blockchain/l1/chain.cpp`) | pending, height, tip; four kinds of key in the store | genesis/load, submitTransaction, produceBlock | death between the four puts of one block | linked blocks, restart recovers the state |
| Scheduler (`22-os/scheduler`) | task table, current task, CR3 | create (3 kinds), exit, block, unblock, terminate, timer tick, yield | timer interrupting calls, slot reuse, running out of pages | one task runs, each on its own stack frame, dead ones in the window of `sched_race` only, nobody starves |
| Page allocator, paging (`22-os/memory`, `22-os/paging`) | bitmap, directories, page tables | alloc, free, create/map/destroy | partial failure, double free | each page has one owner |
| Kernel heap (`22-os/heap`) | segments, block lists, counter | kmalloc, kfree | splits and merges in any order, rounding at the top of `uint32_t` | blocks tile the page, live blocks untouched |
| ELF loader (`22-os/elf`) | none (a plan) | validate, plan, load | empty, adjacent and overlapping segments | no page of two segments |
| Interrupts, syscalls, kernel_main (`22-os`) | trap frames | dispatch, boot order | nesting | reaches the scheduler once |
| Drivers, GDT, VFS and security stubs (`22-os`) | device registers | port I/O | hardware | - |
| OGGit (`13-developer-ecosystem/oggit`) | object files, refs, HEAD, index, working tree | write and read objects, stage, move refs, checkout, merge, diff, log | files rewritten in place, several merge bases, files against directories, unreadable objects | what is readable is complete, merge loses nothing |
| OGForge (`13-.../forge`) | accounts, repositories | HTTP handlers | one step of several failing | as OGGit |
| netlab (`24-network-simulator`) | topology, learned addresses, session | send, step, missions | flooding, learning | frames reach their host |
| OGLang front end (`03-compiler/oglang`: lexer, parser, type checker, driver) | token stream, trees, symbol tables, import graph | lex, parse, resolve imports, check, mangle | precedence, import cycles and diamonds, names used across modules | a text means its tree, each module once and in order |
| OGLang back end (lowering, analysis, register allocation, code generation) | IR, live ranges, interference graph, register and slot maps, assembly | lower, analyse, colour, emit | values sharing registers, spills, saves around calls, hash map order | the executable does what the program means |
| ECS (`17-graphics/ecs`) | entities, component tables | create, destroy, add, get | stale entity ids | a dead entity has no components |
| Crypto, AI, quantum, robotics, scientific, orbital | none or numeric | functions | rounding | test vectors |

Interactions: Raft and RPC share `SimulatedNetwork` and are driven by ticks of
one thread. The chain calls the ledger and the KV store, whose durability is
the chain's only protection. The scheduler calls the page allocator and paging
and is entered from traps; the heap draws pages from the same allocator.

Hazards, line by line, are listed under `hazards` in `PROJECT.json` with the
properties that would show them; where the code does go wrong and the properties
have to except it, the hazard says so and names none, or what is still covered.

## Plan

1. `Raft`, then `SimNetwork` and `RaftCluster` implementing it; proofs, of the
   refinement too. *Done.*
2. `Rpc` over `SimNetwork`; proofs. *Done.*
3. `PrefixStore` (abstract), `KVStore` implementing it; proofs. *Done.*
4. `Ledger`, and `Chain` on top of it; proofs. *Done.* Open: a chain over a
   store whose puts may fail (`Chain` ignores the result of `kv.put`).
5. `Scheduler` with pages and directories; proofs. *Done.*
6. `Heap`; proofs. *Done.*
7. OGLang: the whole compiler, from text to the machine, composed of
   `OGSyntax`, `OGTypes`, `OGLower`, `RegAlloc`, `OGCodegen` and the external
   `OGMachine`, compared with `OGReference`; a proof of the register allocator.
   *Done.*
8. `ObjectStore` (the files and the order of their writes, with proofs) and
   `OGGit` implementing it: index, checkout, diff and merge. *Done.* Open: the
   server in front of it.
9. Open: ELF validation and load plan; netlab's learning switches; ECS entity
   reuse.

## Modules

**`Raft`** is the election protocol of `raft.cpp` with time abstracted away: a
timeout may fire at any moment, a message that was ever sent may be handled at
any later moment, any number of times or never (`msgs` only grows). One action
per branch of a handler: `startElection`, `grantVote`/`refuseVote`,
`acceptHeartbeat`/`refuseHeartbeat`, `observeNewerTerm`, `countVote`. A heartbeat
ack and a vote response have the same bytes in the code and are the same kind of
message here. A leader's repeated heartbeats are stuttering.

**`SimNetwork`** is `SimulatedNetwork`; the generator that decides on drop,
delay and duplication is a choice among what the configuration allows. Ticks
to wait replace absolute tick numbers. Response ports are addresses of their
own, as in the code.

**`RaftCluster`** is `RaftNode` and `RaftCluster::tick` over `SimNetwork`: the
four loops of a tick, a step for each message handled, both timers. `sent` and
`heard` are history variables. It implements `Raft` under the mapping
`msgs <- sent`; `StableLeader` is about timers and therefore lives here.

**`Rpc`** is the blocking `RpcClient::call` loop with `pumpServer` and
`handleRequest`, several clients on their own nodes and one server. Requests
are for a registered or an unknown method; payloads are left out.

**`PrefixStore`** states what the store can promise: it stands for a sequence of
operations, and a restart forgets at most a suffix behind the `safe` ones.

**`KVStore`** is the log file as a sequence of items (records, fragments, damaged
records), recovery, replay one record at a time, `put`/`remove` (log first,
then map), failed appends, and the three ways to die. CRC-32 is a perfect
detector.

**`Ledger`** is `apply`, with words of `Width` bits that wrap, reading the
recipient after the sender was written, and `loadSnapshot`. **`Chain`** extends
it with pending transactions and the four puts of a block, a step each, with
process death between any two. Hashes are collision free: the hash of a header
is the header.

**`Scheduler`** is the task table, the page bitmap, directories with their page
tables, CR3, the context the processor runs, and the calls in progress with
their local variables (`job`). A trap is one step, since interrupt gates clear
IF; a call of a kernel task is one step per access to shared state, and the
timer may fall between any two. `Supervisors` are the pids whose task creates and
unblocks others: in `kernel.cpp` it is one, the second task `kernel_main` creates
(pid 3, `taskBEntry`), which makes both calls with IF set (`kernel.cpp:186,193`).
A stack pointer is the context it resumes, so a tick that falls between `publish`
and `prepareInitialFrame` resumes in the slot whatever it held: the context of the
task that died there, which then goes on, or none (`Nowhere`), after which the
processor does nothing more.

**`Heap`** is the block list of each segment with offsets and sizes; `alignUp`
wraps at `WordSize`. `live` is what callers hold.

**`OGCompiler`** is the driver `main.cpp`: one step per file parsed, then import
resolution (depth-first search for cycles, Kahn's order), one step for checking
and mangling, and per function lowering, each step of the allocator, and
emission; then assembling, and one step per instruction of the executable. It
composes the modules that follow, which are operators except for the allocator.

| Module | Code |
|---|---|
| `OGSyntax` | `ast.hpp`, `token.hpp`, `lexer.cpp`, `parser.cpp`: a text is a sequence of atoms (words, digits, punctuation); a parse is a node and the next position, or `Thrown` |
| `OGTypes` | `type_checker.cpp`: types of expressions, statements, return on every path, the tables of a module |
| `OGLower` | `ir.hpp`, `lower.cpp`: values, variables as values, labels, arrays and structs as groups of values |
| `RegAlloc` | `liveness.cpp`, `interference.cpp`, `register_allocator.cpp`: the allocator is a state machine over its worklist, stack and maps, with the hash map's order as a parameter |
| `OGCodegen` | `x86_64.cpp`: the instructions of each IR operation, with operands as registers and slots |
| `OGMachine` | external: assembler and linker (labels defined, and once), and the x86-64 instructions in use, on words of `Width` bits; stack addresses lie above every word, so a pointer cut to 32 bits faults |
| `OGReference` | what programs mean, written without the compiler: a printer, an evaluator, liveness along the jumps |

**`ObjectStore`** is the files of a repository (objects, refs, HEAD, the index) and
the operations on them. An id *is* the object, since SHA-256 is taken as collision
free, and a stored file is whole or `broken`, which `readObject` detects. Every file is
rewritten in place, so each write has a form that the death of the process cuts
short: an object becomes broken, a ref `TornFile`. `StoreSpec` is an abstract
specification: the discipline of the callers, that an object is written after its
parts, a ref after its commit, and that the index takes only blobs that were
written. It says nothing of which trees and commits they are.

**`OGGit`** extends it with `Index`, `buildTreeFromPaths`, checkout, diff and merge,
and implements `StoreSpec`. A commit is one step per file that is written
(`making` holds what is left), and the process may die at each of them and between
any two; a line of the index that is cut short becomes another path. `Trie` and `TreesOf` build trees in the order
the code writes them. `mergeResults` is `mergeCommits`; of several lowest common
ancestors the code takes the smallest hash, which may be any. The program has no
command that commits; `commitIndex` and `merge` are the caller that the tests
and the headers describe (trees, then commit, then ref), and are external.
`moveRef` follows the same discipline: it names commits that can be read.
`spoiled` remembers that a good file was destroyed, and `last` what the last
operation returned.

`MC*` modules give constants, symmetry and, for the compiler and OGGit, the
inputs; the modules whose names end in `Proofs` hold the theorems, and
`SimNetworkProofs` the lemmas about the network that two of them share.
Operators commented *Seeded bug* or *Mutant* are not part of any model: each is a
wrong form of the definition after it, used to confirm that the properties
notice.

## Runs

| Run | Instance | Shows |
|---|---|---|
| `raft` | 3 nodes, terms to 2, symmetric; about 366,000 states | `AtMostOneLeaderPerTerm` over all time, `OneVotePerTerm`, `NothingTakenBack` (a leader keeps its term, a vote is final) |
| `cluster` | 3 nodes, terms to 2, timeouts 2..3, heartbeat every tick, link 1-2 cut and healed at will; about 201,000 states | `ImplementsRaft`; `StableLeader`: a leader everyone hears is not deposed while links stay as they are |
| `rpc` | 2 clients, 2 calls, 2 ticks each, drop, duplication, delay 0..1, partitions; about 191,000 states | `OutcomeTellsExecution` (an answer is the call's own and tells whether it ran; each copy runs once), `CutOffCallsFail`, and `CallReturns` |
| `kv` | 2 keys, 2 values, 4 log items; about 161,000 states | `MapIsLastWrites`, `ImplementsPrefixStore` |
| `kv_torn` | same, no bit rot and no failing append | *violated*: `RestartKeepsAcknowledged` |
| `ledger` | 3 addresses, 2-bit words, 3 transactions; about 68,000 states | `SupplyConserved`, `AppliedInNonceOrder` |
| `chain` | 2 addresses, height to 3, 3 transactions, death at every step; about 413,000 states | `OrderlyRestart`, `LinkedUnlessCut`, `StoreUsable` (every height has its block, the snapshot is of committed state), `OnceUnlessCut` |
| `sched` | 4 slots, 9 pages, pids to 6, all kinds of task, one supervisor, ticks anywhere in its calls; about 21,600 states | `OneRuns`, `OwnContext`, `PagesAccounted`, `ReadyRuns`; `DeadRunsOnlyUnframed`: an ended task is resumed only in a slot that has no frame yet |
| `sched_race` | 3 slots, kernel tasks | *violated*: `DeadNeverRuns` |
| `heap` | 2 pages of 120 bytes, requests of 1, 12, 32 and 97 bytes; about 165,000 states | `BlocksSound` (blocks tile the page, no two free ones adjoin), `LiveIntact` |
| `oglang` | 490 inputs of one to three files, the four registers of the code, every order of the hash map up to 4 candidates; about 43,000 states | `ParsesBack`, `OrderSound`, `ColouringSound`, `AcceptedIsCompiled`, `CompiledRight` |
| `oggit` | 1,335 repositories of up to six commits, 3 names, 2 contents, up to 5 operations, death at and between writes, damage; about 929,500 states | `MergeSound`, `ReadsSound`, `HistoryIntact`, `ImplementsObjectStore` |

Why the bounds are enough to be interesting: two terms let a stale leader,
candidate and votes of the first term meet the second; a timeout range of two
values lets one node win and lets votes split. Two calls let the first one's
leftovers arrive in the second. Four log items give a record, a fragment, a
record behind it and a restart in every order. Height 3 gives a block cut short
with two built on it. Four slots with nine pages let a table fill, slots be
reused by every kind and pages run out in every step of a creation (a user task
takes four pages). A page of 120 bytes holds four blocks, so a block is freed
with either, both or no neighbour free; 97 bytes is one more than fits.

The compiler's inputs cover every expression, statement, declaration and error
path: operators in every nesting of two, loops, branches, arrays in and out of
bounds, structs, enums, pointers, asm blocks, calls of up to six arguments,
more live values than registers, modules in lines, diamonds and cycles, texts
that are no program and programs the checker must refuse. `MaxLiteral` (511)
is the largest literal and `Width` (10) the width of a word, so that sums wrap;
`StackSlots` (40), `MaxSteps` (400) and the evaluator's `Fuel` (20 rounds of a
loop) are never exhausted: a program that ran out would be a deadlock or a
difference. `MaxOrdered` (4) bounds how many values are permuted in the order of
the hash map. The outcomes of the model were compared with those of the real
compiler for all inputs: they differ only where a 10-bit word and a 32-bit word
do, and in two programs outside `CompiledRight`'s precondition where the real
hash order gives another wrong result.

OGGit's repositories are every filling with small trees of a fork, a criss-cross
(two merge bases), a side branch merged before (a common ancestor that is not
lowest), unrelated roots and lines; the trees have a file, a directory of the
same name, and a second file. Five operations from an empty repository are
enough to stage, save, lose, stage again and commit.

Deadlock is checked for `oglang`, where a compilation or a produced program that
does not reach an end is a deadlock; that every run of the compiler ends needs no
fairness then, since its only cycle is the final stuttering. The other systems may
stop: the processor at `cli; hlt`, the end of `scheduler_exit`, where a tick that
resumes a task after its end leads, or without a stack, and the histories that are
bounded (`MaxTerm`, `MaxCalls`, `MaxItems`, `MaxApplied`,
`MaxHeight`, `ops`) end.

Fairness: `Rpc` assumes WF of `Step`, the body of a loop in one thread that
nothing blocks. `Scheduler` assumes SF of `timer`, the 100 Hz PIT whose
request the interrupt controller keeps until it can be taken, and WF of
`callStep`, the processor executing the call it is in; `ReadyRuns` excepts the
stopped processor. The other
specifications state no fairness.

### What the violations show

* `kv_torn`: nothing truncates a torn tail. A store that restarts after a torn
  append works, acknowledges writes, and loses them at the next restart,
  because recovery stops at the fragment.
* `sched_race`: `scheduler_create_task` marks the slot `Ready` before
  `prepareInitialFrame` replaces `savedEsp`. A tick in between resumes the
  stack of the task that died there. `taskBEntry` makes the call with interrupts
  enabled. `DeadRunsOnlyUnframed` and `OwnContext` are what holds with such ticks:
  nobody else is ever resumed after its end, and once `prepareInitialFrame` has run
  the new task is resumed on its own frame, also when the old one ran in between.

Observed while modelling and not given a run of their own:

* A heartbeat ack of a newer term makes a node step down, although the comment
  in `processIncomingResponses` says acks are not acted upon. It is harmless:
  `AckInv` shows that no ack is ever counted as a vote.
* `isPartitioned` is asked in `send` only (`rpc.cpp:91`), and with the addresses as
  given: messages already under way are delivered, and everything sent to a
  response port passes, since the port is another `NodeId`. `rpc.hpp:103-105` says
  that a partition blocks all delivery in both directions. `CutOffCallsFail` is
  what does hold.
* Death between the puts of `tip` and `state_snapshot` (`chain.cpp:101`) leaves the
  accounts of the block before, and a transaction of the last block is accepted
  again; `OnceUnlessCut` is what holds. ADR 0021:65-66 promises more.
* A failed `kv.put` is ignored by the chain (`chain.cpp:93`).
* `alignUp` wraps at the word size (`heap.cpp:41-43`), so a request for almost 2^32
  bytes is rounded to 0, and `kmalloc`, which tests the size before rounding,
  hands out a block; TLC finds it with a request of 250 and words of 256.
  `heap.hpp:9-10` says that an allocation cannot exceed a page.
* Two `RpcClient`s on one node would share its response port and count ids from
  the same start, and could take each other's answers.
* Death between the puts of `height` and `tip` makes the next block name the
  block before the last as its predecessor.
* With two supervisors, which `kernel.cpp` has not: `scheduler_unblock` tests and
  sets in two steps, and preempted in between can make a task `Ready` that was woken
  by the other and has exited; and two creations under way could find the same slot.
* `kernel_main`'s self-test of slot reuse does not reuse a slot: nine tasks are
  created, the tenth slot is `Unused`, and `findSlot` prefers it.
* A wake-up that comes before `scheduler_block_self` is lost.
* OGLang, each outside the precondition of `CompiledRight` (`Disciplined` names the
  programs, `undisturbed` the colourings) or of `AcceptedIsCompiled`:
  * `let y = x` binds `y` to the value of `x` (`lower.cpp:159`): assigning one
    changes the other;
  * live ranges follow the text and not the jumps (`liveness.cpp:23`): in a loop
    around an asm block or a call, a value the loop's head reads again is not
    saved, while `OG_LANG_SPEC_V0.1.md:48-49` says "Any other live value is
    saved/restored around the asm block";
  * a division loads its divisor into `ecx` (`x86_64.cpp:419`), which may hold
    another live value or the dividend;
  * moves are 32 bits wide (`x86_64.cpp:279-289`), pointers 64;
  * blocks open no scope: a second declaration of a name replaces the first;
  * label numbers restart in every function (`lower.cpp:20-21`,
    `x86_64.cpp:658-663`), and the assembler refuses a program with two of one
    name;
  * a module that imports the entry module and calls into it does not link: the
    call is mangled and the function is not (`main.cpp:87-92, 553-559`); a
    function `m__f` collides with `f` of module `m`.
* OGGit:
  * `writeObject` cuts the file of an object that is already stored before it
    writes the same bytes again (`object_store.cpp:163`), so that a crash while a
    known content is added destroys history; refs are rewritten the same way;
  * an unreadable ancestor hides the merge base behind it (`merge.cpp:43`): an
    older common ancestor reached another way is then used, and a clean but
    wrong merge is possible, where ADR 0020 wants no "wrong answer presented with
    false confidence"; `MergeSound` asks for the lowest base on readable histories
    only;
  * a path read back from a cut index line is not normalised: `a/` is committed
    as `a`, and `removeFile` cannot name it;
  * `diff.hpp` speaks of one Removed and one Added entry at a path that changes
    between file and directory; the code lists the files below;
  * ADR 0020 speaks of one new tree per merge; one per directory is written;
  * `ForgeServer::setBranch` accepts any object that exists, a blob too.
* `World::addComponent` (`ecs/world.hpp`) does not ask whether the entity is alive.

## Proofs

`RaftProofs` proves, for every finite non-empty `Node` and every `MaxTerm`:
`TypeCorrect`, `Inductive` (`Spec => []IInv`), `ElectionSafety`, `VoteSafety`,
and `PromisesKept` from `LeaderStays` and `VoteStays`.
`AtMostOneLeaderPerTerm` alone is not inductive, nor is it with the usual
"a leader has a majority": in this code `becomeFollower` clears the vote within
a term, and acks look like votes. `IInv` therefore adds that a message's term
was reached by its sender (`SenderInv`), that a node that is not a Follower holds its
own vote (`OwnVoteInv`), that a vote granted in the present term still stands and its
giver is a Follower (`StandingVoteInv`), that a candidate's tally holds real votes
(`TallyInv`), that an accepted heartbeat's ack goes to somebody who has led that term
(`AckInv`), and that whoever led a term had a majority, is not in it in another role and
voted for nobody else (`LeaderInv`). Two majorities meet (`MajoritiesMeet`),
and the node they share voted twice unless the leaders are the same. One lemma
per action shows that the invariant is kept.

`StorageProofs` holds the proofs about the two stores. Of the key-value store it
proves, for all keys, values and lengths of the log:
`Inductive`, `TypeCorrect`, `MapCorrect` (`Spec => []MapIsLastWrites`) and
`Implements` (`Spec => ImplementsPrefixStore`, a refinement with
`safe <- goodPrefix(file)`). `IInv` relates the good prefix of the file to the
operations the store stands for (`FileInv`) and a replay under way to the part
it has applied (`ReplayInv`); `LastWrites` is stated without recursion so that
one record more is one step of the argument.

Of the repository it proves, for any branches and any objects, `RepositoryIntact`
(`StoreSpec => []HistoryIntact`): whoever writes children before parents and the ref last
keeps a usable repository through crashes at every write. `HistoryIntact` is inductive:
in an unspoiled repository every id a caller can come by (`Known`: read from an
object, the index or a ref) is readable, so that an object written over known parts
has them all, and a write cut short breaks only a file that was not whole.
`WholeHistoryReadable` goes from
one step to any number: along every trail of parts from a ref, HEAD or the index
everything can be read, by a least counterexample on the length of the trail. That
OGGit's trees and commits are written in that order is `ImplementsObjectStore`, which TLC
checks: `TreesOf` is recursive.

`RegAllocProofs` proves, for every finite interference graph without loops, every
pool of distinct registers, every iteration order and any reserved slots,
`ColouringCorrect`: neighbours never share a register, slots are distinct, and a
finished allocation gives every value one place; and `InterferenceSymmetric`, that
the analysis builds such a graph. `AllocInductive` adds that a value is in
exactly one of four places (in the graph, on the stack, in a register, in a
slot), since the pop of a value must find it uncoloured, and that the graph
stays symmetric, since colours are compared from one side only. That a value
simplified with few neighbours always finds a register is not claimed: the code
spills it if not. `Fits`, the precondition, is part of the compiler's `TypeOK`.

`SimNetworkProofs` holds no theorem of its own. It shows what `send`, `broadcast`
and `tick` do to the messages under way: if `W[a]` are the letters that may be
on their way to address `a`, they stay so (`SendCarries`, `TickCarries`,
`TakeCarries`), and `kept`, the loop of `tick`, reads off the chosen positions in
order and each once (`KeptPlaces`), so that copies can be counted. `kept` is a
recursive function; that it is well defined and what it computes is shown by a
least counterexample, since the library's induction rules cannot be
instantiated.

`RaftClusterProofs` proves, for every cluster, timeout range, delay and
combination of faults: `ClusterTypeCorrect`, and `ClusterImplementsRaft`, that every
step of the ticking cluster is a step of `Raft` or a stutter. The mapping needs
that each letter under way or in an inbox is the body of a message in `sent`
(`MailInv`), and that a leader's heartbeat message of its term is there from its
election on (`LeadInv`), since a repeated heartbeat must be a stutter. With the
refinement the theorems about `Raft` hold of the cluster
(`ClusterElectionSafety`, `ClusterPromisesKept`, from an instance of `RaftProofs`).
`LeaderStable` proves `StableLeader` from the premise `Prompt`: nothing is dropped,
and `MinTimeout` exceeds `HeartbeatInterval + MaxExtraDelay`, the slowest a heartbeat
can come (duplication is allowed). Its invariant `StableInv` says of every leader
and every node that follows it in its term (`TimelyInv`) that the follower's election
timer outlasts the leader's next heartbeat and the slowest way of it, or that a
heartbeat is under way that arrives in time, or that one waits in the inbox. A timer
loop that has visited one of the two and not the other shifts the comparison by one
(`ahead`). `PhaseInv` says that the loops empty what they work on; `HeardInv` that
what a node heard was sent by a leader; `Elections`, carried over from `RaftProofs`,
that no other leader and no newer term is left in a message once everyone has heard.

`RpcProofs` proves `RpcTypeCorrect`, `Outcome` and `CutOff` for any clients,
server, number of calls and ticks, delay and faults, from the premise `OnePerNode`:
no two clients run on one node. The premise is needed: with two clients on one
node TLC finds a call that takes the other's answer. The invariant `RpcInv` says
that there is a log of the calls made so far and a set `out` of those no partition
cut off, with which everything agrees: requests under way are of calls in `out`,
answers go to the caller's node, and one that says ok follows the execution
(`PostInv`); the ids of one client's calls differ (`LogInv`), which with the
premise makes an answer with the right id the right answer; a call that starts
behind a partition is not in `out` (`CutInv`). `CopiesInv` counts the copies of a
request under way, in the inbox and executed: only `send` adds to the sum.

`ChainProofs` proves about the ledger, for any addresses, amounts and width of a
word, `NonceOrder` and `Supply` (`LedgerSpec => SupplyConserved`), and about the
chain, for any height, `ChainTypeCorrect`, `Restart`, `ChainLinked`, `Usable` and
`Once`. `Total` is a fold over a set in an unspecified order; `SumAny` shows that
the order does not matter, and `TotalStore` what writing one account does to it,
so that a transfer leaves the total or takes one whole word from it, and the
latter cannot happen when the total fits a word. `ChainInv` says for each point
between two puts what is in hand and what is stored (`MakingInv`, `HeightsInv`,
`SnapshotInv`), that the stored snapshot has spent the nonces of every settled block
(`SpentInv`) and that the pending transactions lead from it to the accounts
(`PendingInv`): a transaction in two blocks would need a nonce both spent and fresh.

`KernelProofs` holds the proofs of the two kernel modules. Of the scheduler it
proves, for any number of slots, pages and pids, `SchedTypeCorrect`,
`OneTaskRuns`, `TasksOwnContext` (`Spec => []OwnContext`), `DeadStaysDead`
(`Spec => DeadRunsOnlyUnframed`) and `NoPageLost`, with ticks anywhere in any call,
from the premise `OneSupervisor`: `Supervisors` has one member at most, as in
`kernel.cpp`. `SchedInv` says who is in the middle of a call on another slot
(`busy`, one at most, and alive: `CallInv`), and follows a creation through its
steps: which fields of the slot it has filled, which pages it holds, and that they
are disjoint from those of every other holder, so that each page `rollback` and
`reclaimSlot` free had one owner. For the window in which a slot is filled in and has
no frame (`Unframed`) it says that what a tick resumes there is a `Ghost`: a context
whose pid no slot has any more, or none. A ghost is in no call on another slot, and
may run, exit or be put away in that slot; every other context is the one of the
task whose slot it is in (`CurrentInv`, `ContextInv`).

Of the heap it proves, for any layout of a page, width of a word, number of pages
and sizes of requests, `HeapTypeCorrect`, `BlocksStaySound` (`HeapSpec =>
[]BlocksSound`) and `AllocationsIntact` (`HeapSpec => []LiveIntact`), the last from
the premise `SizesRound`: no request is so large that `alignUp` wraps, without
which TLC finds it false. `HeapInv` adds to `BlocksSound` and `LiveIntact` that
every segment has a page of its own (`PagesInv`), that its blocks lie in the order of
the list and within the page (`LaidInv`), that blocks and headers together take what
the pages have, which bounds the counter (`RoomInv`), and that the used blocks are,
one for one, what callers hold (`HeldBy`). The
argument is about addresses and not positions: a split or a merge shifts the
positions of all later blocks of its list, but leaves the set of used blocks
with their addresses (`usedBlocks`) alone, and that set changes by exactly the block
taken or freed. `bytesOf` is a fold over it in an unspecified order; as in the
ledger, one element more or less is shown to change it by its size.

The inductive invariants were checked by TLC on the runs' instances before they
were proved.

Assumptions: those named in `Raft` (`NodeAssumption`, `MaxTermAssumption`),
`SimNetwork`, `RaftCluster`, `Rpc`, `KVStore` (`AbsentAssumption`,
`MaxItemsAssumption`), `Ledger` (`AddressAssumption`: finitely many addresses, as they are
of fixed length; amounts and the history fit a word), `Chain` (`NilAssumption`: a
missing value is neither a number nor an account map), `Scheduler`, `Heap`
(`LayoutAssumption`: header sizes and the word size are multiples of the alignment,
a page holds its headers and is smaller than a word; `RequestAssumption`: sizes are
words other than 0, for which `kmalloc` returns at once), the pool's in
`RegAlloc`, and `MainAssumption` of `ObjectStore` (the first branch is a branch); and the
four premises above.

Only model-checked: that OGGit implements `ObjectStore`, its merges and its reads, and the compiler
but its allocator, whose recursive operators on trees are out of the prover's
reach; and liveness (`CallReturns`, `ReadyRuns`).

## Not modelled

Byte layouts (serialization, protocol headers, the bytes of objects), hashing
and CRC arithmetic, device programming (PIC, PIT, GDT, serial, keyboard),
floating-point libraries, and the placeholders (`vfs`, `security`). In the
modelled parts: payloads, page contents and permission bits, the TLB, `kfree` of a
pointer that is not live (undefined in the code), positions and wording of the
compiler's diagnostics, authors and messages of commits.

OGForge is authentication followed by one call of the object store or the refs.
The ELF loader validates a byte layout without later state. netlab and the ECS
are sequential and without failures; they are left for an extension.
