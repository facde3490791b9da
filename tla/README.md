# A verification of the CSE502 pipeline simulator

`src/core-project` simulates, clock cycle by clock cycle and in SystemC, a
five-stage scalar x86-64 pipeline with a memory hierarchy: Fetch, Decoder,
Dispatch, Execute and Writeback, running the programs `prog1` and `prog2`.
`core-project/README:4` promises that it "faithfully simulates" that subset of
x86.  `src/warmup-project` is a small cache over clocked SRAMs, called from a
host through a wrapper.  This directory models both in TLA+, checks them with
TLC on small instances, and proves much of what is checked, for every instance,
with TLAPS.

Status: every process of the pipeline and of the warm-up cache is modelled.
The pipeline is checked in two halves, front end and back end, and the memory
behind both on its own; section 2 says what joins them.

## 1. The system

### Components

| component | state it keeps | operations | talks to |
|---|---|---|---|
| SystemC kernel, `main.cc`, `top.*`, `core_cse502.*` | signals, simulated time | runs each `SC_METHOD` once per rising edge, in an order it chooses, then makes written signals visible; runs the reset methods first | everything |
| `common.*` | `regfile`, `dd_uop_queue`, `de_uop_queue`, `ew_uop_queue`, `RIP_jump`, `offsetreg_value` | none: plain globals, no signal delay | all stages |
| Fetch | `RIP`, `prev_tag`, `firstRunFlag` | request a block, accept the response with its tag, restart at `new_RIP` | Memory (instruction port), Decoder, Execute (`change_RIP`) |
| Decoder | `rem_string`, `last_good_addr`, `first_run` | assemble bytes, disassemble (udis86), crack into micro-ops, push to `dd_uop_queue` | Fetch, Dispatch |
| Dispatch | none of its own | read operands from `regfile`, move micro-ops to `de_uop_queue` | Decoder, Execute |
| Execute | `state`, `Op`, `prev_reg1/2`, `prev_value1/2`, `expected_addr`, `prev_addr`, `rip_changed`, `firstrun`, `stackpointer`, `eflags` | forward, compute, jump, load and store, system call, push to `ew_uop_queue` | all others |
| Writeback | none of its own | retire one micro-op into `regfile` | Execute |
| Core / system calls | `brk_val`, host files | write, brk, ioctl, exit, clock_gettime | Execute, Memory's array |
| Memory | the byte array, `i_mshr`, `d_mshr`, delay buckets, L1i, L1d, L2 (`lruset`) | answer reads after a latency, apply writes | Fetch, Execute |
| program loader (`memory.cc`) | the byte array | load an ELF file and the arguments | Memory |
| `warmup-project/cache.h`, `sram.h` | `operation`, `opstate`, `waitdelay`, `set`, six SRAMs | insert, read probe, write probe, state update | its wrapper |
| `warmup-project/wrapper.*` | the requests out, the data last written | submit a request, run a cycle, check the reply | the cache, a host simulator |
| `HW` | none | host-side timing loops and a kernel module | nothing above |

### How they interact

Two media with different timing.  *Signals* (`out_ready`, `clear`,
`change_RIP`, the memory ports) are read one cycle after they are written.
*Globals* (the queues, the register file, `RIP_jump`) are seen at once, by
whichever stage happens to run later in the same cycle.  A ready signal
therefore describes a queue as it was a cycle ago, and every handshake works,
or not, because of what the two sides do in between, in an order SystemC does
not fix.

Back-pressure: Dispatch waits until `de_uop_queue` is empty, Execute waits
while more than one micro-op waits for Writeback; nothing stops Fetch and the
Decoder.  A taken jump, a call and a ret raise `clear` (for one cycle) and
`change_RIP`; each stage empties its own queue when it sees `clear`.  A load,
pop or ret puts Execute into `STATE_READ` until an answer with its address
comes.  Nobody takes a request off a memory port: it is made again in every
cycle, joins the waiting list of the miss already registered, and is answered
as often; only the tag tells the answer that is wanted from one that is late.

The warm-up cache takes one request at a time.  It drives the pins of all six
SRAMs, waits for their latency, and answers; `port_available` keeps the host
off meanwhile, one cycle late.

### What is hard

Results that are needed before they are written back (forwarding from the last
two results, the stack pointer's shadow copy, the register of address
computations); flushes racing with pushes; ready signals a cycle late;
instructions of several micro-ops crossing a queue in portions, and instructions
crossing a block; repeated and late memory answers; a miss register removed in
the cycle in which it is joined; pins that keep their last values; uninitialised
members; resets in any order; arithmetic at the edges of a word.  The complete
list, each at its line, is `hazards` in `PROJECT.json`.

### What makes each component correct

* Dispatch: moves the micro-ops of one instruction at a time, in order, and
  does not leave Execute waiting for ever.
* Execute: every operand is the value program order gives it; wrong-path
  micro-ops are never run; the right ones are never dropped.
* Writeback: retires each micro-op once.
* Dispatch, Execute and Writeback together with Memory's data port: the program
  runs as if its instructions were executed one at a time.
* Memory: a read returns the value of the last write before it; a request is
  answered in bounded time, however often it is repeated; the miss registers do
  not lose a waiting request.
* Fetch and Decoder: the instructions pushed are those at the addresses from the
  last redirect on, each whole and once, and they keep coming.
* `crack_opcodes`: the micro-ops do together what the instruction does.
* Warm-up cache: a block store with one answer per request, which says what block
  is in the place asked for.

## 2. The modules

| module | models | correspondence |
|---|---|---|
| `Alu` | the switch of `Execute::work()`, `do_shift()` | `Results(op, flags)` is the set of outcomes of one opcode: one where the code is deterministic, two for `__builtin_clz(0)`, none where the host faults |
| `Common` | `common.h`, `common.cc`, Execute's members and ports | `sig` is what every stage reads in this cycle, `nxt` what has been written for the next, the queues and `regfile` are plain variables, `ex` holds Execute's members |
| `Dispatch` | `dispatch.cc` | one action per path of `work()`: `ClearQueue`, `NothingToDispatch`, `ExecuteBusy`, `DispatchBatch` |
| `Execute` | `execute.cc`, `core.cc` | `ClearStage`, `AwaitData`, `Blocked`, `CompleteRead`, `DropUnexpected`, `IssueRead`, `Perform`, `Syscall`, `Crash` |
| `Writeback` | `writeback.cc` | `RetireUop`, `NothingToRetire` |
| `DataMemory` | the data half of `Memory::work()`, its latencies open | an answer or none, then the request on the port; `d_resp` stands for the delay bucket and the miss registers |
| `BackEnd` | the composition, the kernel's cycle, an abstract front end | one `Run...` action per process, `DeliverInstruction` for each instruction the decoder pushes, `Tick` for the update phase |
| `Isa` | nothing in the code: the abstract machine | one instruction per step on registers, flags and memory; shares `Alu` with the detailed model |
| `Refinement` | the refinement mapping | the architectural registers are `regfile` after everything in `ew_uop_queue` has retired, with `stackpointer` for rsp; a store is in force once it is on the port |
| `LruSet`, `DelayBucket` | `lruset.h`, `delaybucket.h` | a sequence, least recently used first; a bag of values with the cycles each has left |
| `Memory` | `Memory::work()` | `MemoryWork` is one call: both ports deliver (`Answers`), then the instruction request and the data request are taken, in that order, and a write is applied |
| `DataPort` | Memory with Fetch and Execute at its ports | one action per cycle; `Read`, `Write`, `Compute`, `WaitFor`, `Take` are what Execute does with the port; `FetchSide` keeps asking for a block until its answer, a redirect replaces it at any moment |
| `Fetch` | `fetch.cc`, the reset methods of the core, Fetch and Dispatch | `Restart`, `FirstRequest`, `AcceptBlock`, `KeepWaiting`; `CoreReset`, `FetchReset`, `DispatchReset` |
| `Decoder` | `decode_opcodes()`, `work()` | `Decode` cuts the bytes of a block, after those left over, into instructions; `NoDecode` |
| `FrontEnd` | Fetch, Decoder and Memory with the redirects of Execute | one action per cycle; `pc` is the history variable that says what is due next |
| `Cracker` | `crack_opcodes()`, `push2q()`, `sign_extend()` | `Crack(mnemonic, operands)` is the sequence of micro-ops pushed |
| `Sram` | `sram.h` | cells and output; `Clocked` is one call of `work()` |
| `CacheProject` | `cache.h` | `CacheWork`: one disjunct per path of `work()`, then the SRAMs |
| `BlockStore` | nothing in the code: what the warm-up cache promises | a request is asked, carried out at one instant, answered |
| `WarmupTop` | `wrapper.cpp` and the host that calls it | `systemc_clock`, `systemc_request_submit` |
| `MCBackEnd`, `MCAlu`, `MCFrontEnd`, `MCDataPort`, `MCWarmup` | TLC instances | section 3 |
| `AluProofs`, `BackEndProofs`, `FlightProofs`, `FragmentProofs`, `WarmupProofs`, `MemoryProofs`, `FrontEndProofs` | theorems and proofs | section 5 |
| `Induction` | nothing in the code: the least-number principle and iterated functions | section 5 |

How the parts join.  `BackEnd` composes Dispatch, Execute and Writeback with two
abstractions: a front end that delivers whole instructions of the path in order,
at any pace, and `DataMemory`.  `FrontEnd` checks, as `InOrder` and
`KeepsDelivering`, that Fetch, Decoder and the instruction port deliver just
that; `DataPort` that Memory's data port is a `DataMemory` (`ImplementsPort`),
with one difference in its use named in section 3.  `Cracker` and `MCAlu` check
that the micro-ops of a memory operand are the instruction.

Operators whose comment starts with "Slip:" are not part of the model: they are
plausible mistakes in the code around them, used to see that a property would
notice (`mutants` in `PROJECT.json`).

Abstractions of the back end.  A word has `WordBits` bits (64 in the code).  A
memory cell holds a whole word, so overlapping accesses are not modelled, and
`SlotSize` stands for the 8 of push and pop.  Addresses are words.  `d_tagin`
always equals `d_addr` and is left out.  A system call's strings are sequences
of words.  `eflags` is the four flags the code ever touches; `pushfq` stores
them packed.  Value fields of a delivered micro-op are uninitialised.  Reset has
happened.

Of the memory.  Latencies are cycles.  A waiting list is a number, since the
tag of a request is its address.  The delay bucket's comparator (`<=`) is no
strict order, so which of several responses due at the same time comes first is
left open.  The caches decide latencies only, as in the code: data always come
from the array, at delivery.  The wrong address marked when a dirty line leaves
the L1 (`memory.cc:180`) is modelled as it is.

Of the front end.  Memory is a ring of blocks and a byte is its address, so that
what the decoder holds says where it came from.  The hex strings of the code
become sequences of bytes; a byte cut in half by the stripping of leading zeros
(`decoder.cc:586`) becomes `Junk`.  udis86 is external: an instruction has the
length its first byte determines.

Of the warm-up cache.  An address is a tag and an index; offsets, traces and log
files are left out.

## 3. The runs

The words of `MCBackEnd` and `MCAlu` have 4 bits (16 addresses, 16 values):
enough for a sign bit, a wrap around and an 8-deep program, while two operands
still have 256 combinations.

| run | asks | instance |
|---|---|---|
| `kernel` | do programs run sequentially (`RunsSequentially`); is any micro-op lost, duplicated or reordered (`InFlight`); does the address check ever drop one (`NothingDropped`) | all programs of 3 instructions from menus for registers and jumps, memory, wide operations, system calls, and of 4 from the stack menu (3 where rsp is also counted down); processes in the order of one kernel (`KernelOrder`) |
| `any_order` | the same refinement and `Terminates` when the processes run in any order, changing from cycle to cycle | programs of 3 instructions from 4, and of 2 from the memory menu |
| `faults` | `EwHandshake`, `OneInstruction`, `FlushComplete`, `TypeOK` in the worst conditions | any order, refused addresses, host faults, a loop, uninitialised `rip_changed` and `stackpointer` |
| `alu` | are `cmp`, `test` and the jumps, `cqo; idiv` and `mul` right; do the micro-ops of a memory operand do what the instruction does (`CracksMemory`) | all operands; every addressing mode with displacements of either sign, in loads, stores, comparisons, lea, push and mul |
| `memory` | is every waiting request served (`NoWaiterLost`), in bounded time (`ReadAnswered`) and with a bounded backlog (`BacklogBounded`); is the value read the last one written (`FreshRead`); is the data port a `DataMemory` (`ImplementsPort`) | two blocks between which Fetch is redirected at any moment, with one data address and value; one block, with two data addresses and two values; an L1 of one line and an L2 of two, latencies 1, 1 and 2 |
| `frontend` | are the instructions delivered those of the path (`InOrder`), for ever (`KeepsDelivering`); does the stack pointer survive the resets (`StackReady`) | three blocks of four bytes, seven codes with lengths 1 to 3, six targets |
| `warmup` | is the cache a block store (`StoreSpec`); do the wrapper's assertions hold (`RepliesRight`); is a request ever overlooked (`CacheBusy`, `Answered`); does a reply name the tag in the array (`TagTold`) | two tags, two indexes, two contents and states; blocks that share an index, and blocks that do not |
| `half_dispatch`, `cmp_memory`, `stale_remainder`, `imul_operand`, `cmp_overflow` | section 6 | one program, or all operands of `cmp` |

Bounds of the back end.  `MaxQueue` (6 or 8) bounds `dd_uop_queue`, which the
code does not bound; it holds every program of the menus but the longest whole,
and batches of every size up to a full instruction with others behind it occur.
`MaxFetch` = 2 is how many instructions one call of the decoder delivers;
Dispatch only sees the queue, and since the decoder goes on while Execute waits,
every queue length up to `MaxQueue` occurs.  Three instructions cover every
distance at which a result is still in flight (two results are remembered); the
stack menu has four so that a call, a push and both ways back meet.

The menus of `kernel` leave out three situations.  A double-width operation
right after a write to rdx with a third instruction behind it, and the compare
with memory and the one-operand imul, are wrong in the code (section 6).  A push
directly followed by a pop or ret is left out because `DataMemory`, with its
latencies open, admits answers for an earlier request to the same stack slot;
`FreshRead` says where the stale answer can come from with the real latencies:
only to a READ put on the port in the cycle right after a WRITE to its address.
Whether Execute gets that close is not settled, since the two models are not
composed.  System calls and stores do not share a menu: `clock_gettime` writes
memory behind the data port's back.

Bounds of the memory.  In the code an instruction takes 2 ns, a datum 3, the L2
9 and the array 100 more: the longest latencies, `ILongest` and `DLongest`,
differ between the ports.  No bound is put on time, buckets or waiting lists:
the state space is finite because the backlog is.  A workload of `MCDataPort` has
either several blocks or several addresses and values, which keeps the run small;
the theorems need no such split.  Addresses of a kind are interchangeable, and the
symmetry is sound, because no step and no property tells two of them apart.
Two blocks bring a redirect on top of an unanswered request, whose answers still
come.  Two data addresses over one L1 line make every access of the other address
a miss with a victim, dirty or clean; three addresses share two L2 lines.  With the longest latency (4) four
repetitions of a request are outstanding when the first answer comes, and
answers to an abandoned request are still due during the next.

Bounds of the front end.  With lengths 1 to 3 and blocks of four bytes an
instruction may end at, before or behind the end of a block, with one or two
bytes left over.  Targets lie at every offset in a block, one of them (8) is a
low byte.  Redirects come at any moment after an instruction of the path was
delivered, so old requests and responses overlap the new path in every way.

Bounds of the warm-up cache.  Tags and indexes are compared for equality only;
two of each give hits, conflicts and independent blocks.

What the host of the warm-up cache may do.  Any request, at any moment the port
is free, except five: data without a state to store, which `CacheProject` drops
although `cache.h:79` and `cache.h:82` describe the two inputs separately, so that
the next read would fail the wrapper's check; needing data while updating the state, which
is served as a read; a lookup with no flags at all while another request is
outstanding, which no branch serves; an insert without data; and physical address 0, which the wrapper
answers itself.  A lookup without flags does occur when nothing is outstanding: it
changes nothing (`StoreSpec`) and later requests are served, but `Answered` is
claimed for the forms `Served` names only.  Also visible in the model: an empty
cache hits the zero tag.  `TagTold` is not claimed of inserts (section 6).

What the arithmetic leaves out.  `TestBranches` claims nothing of `jl`, `jge`,
`jle`, `jg` and `cmovns` after a test of two negative operands (section 6), and
`SmallProducts` nothing of rdx after a product with a zero operand, where
`execute.cc:414` leaves it as it was.

What the memory operands leave out.  `crack_opcodes` takes some forms by a route
that is not the instruction: a compare of a register with a memory target swaps
its operands, arithmetic on a memory target does not read it, an immediate
stored without an index is taken for a register (`decoder.cc:350-356`), an
absolute address has no base to start from, and a register that is base and
index of scale 1 is added once (`decoder.cc:386`).  `Cracker` models them;
`MemoryInstructions` names the forms `CracksMemory` is claimed for.

Paths that begin at a byte whose first hex digit is 0 are excluded from
`InOrder` (`intact`): the decoder strips such digits, reads the rest half a byte
off and delivers nonsense.  Such targets do occur in the run, and
`KeepsDelivering` and later paths are checked across them.

Deadlock is checked in all runs but `alu` and `cmp_overflow`, whose fragments of
an instruction or two end; a back end that has ended stutters (`Stopped`).

Fairness.  `any_order`: weak fairness of the processes and `Tick`, since the
clock never stops and a started cycle ends; strong fairness of
`DeliverInstruction`, because Fetch always has a request out and the instruction
port answers, which is `KeepsDelivering`; strong fairness of answering the read
on the port, because the request is repeated and answered within the longest
latency, which is `ReadAnswered`.  `Terminates` asks that every jump-free or
forward-jumping program comes to its end; the mutant that makes Dispatch move an
instruction whole breaks it, because `dispatch.cc:54` lowers `out_ready`
whenever its own queue is empty.  `frontend`: weak fairness of `FrontNext`, the
clock.  `warmup`: weak fairness of `systemc_clock`, which `systemc_main` calls
in a loop; nothing is assumed of the host's requests.  `memory` needs none: its
two time bounds are invariants.

## 4. What TLC shows

With these bounds the back end is a refinement of the sequential machine
outside the situations of section 6, whatever the pace of the decoder and of
memory.  The address check of `execute.cc:323` is never needed if `rip_changed`
starts down, in any order of the processes: `clear` alone keeps the wrong path
out (run `kernel`, and `NothingDroppedCorrect`).  The
stages' handshake, the one-instruction rule and the flush hold in any order and
with any initial value of the uninitialised members.

The front end delivers the path: the comparison of tags is enough against late
blocks, and what is left over from the old path never reaches the new one.
`RIP_jump` is a global without a signal's delay, but Fetch sets it in a cycle in
which `clear` keeps the decoder from looking at it, so the order of the two does
not matter.

Repeated requests do not pile up: one is answered per cycle, so a port never has
more than the longest latency outstanding, and a READ waits that long at most.

The warm-up cache is a store of one block per index: both ways are wired to the
same pins, so one holds a copy of the other, and its 2 x 16 rows of 64 bytes are
2 KB of which 1 KB is a copy (section 6).  As such a store it is right: requests
take effect once and in order, a reply names the block in the place asked for,
and the wrapper's assertions hold for every host of the model.

`cmp` serves the unsigned jumps always and the signed ones as long as the
difference fits a word; `test` serves its jumps as long as its operands
are not both negative; `cqo; idiv` divides; small products are exact; a memory operand is
computed, loaded and stored as the instruction says.

## 5. What is proved

Each theorem holds for every value of the constants that satisfies the named
`ASSUME`s of the modules.  These say that the constants have the types the code
gives them, that latencies and capacities are positive and no set of addresses
or values is empty.  One is a fact of arithmetic: `PowerAssumption`, 2^0 = 1 and
2^(i+1) = 2 * 2^i up to the size of a word, because the prover knows nothing of
exponentiation; that powers are positive and that a word has an even number of
values follows (`Powers`, `EvenWord`).  TLC evaluates all of them in the runs.

| module | theorem | says |
|---|---|---|
| `AluProofs` | `ResultsTyped` | every outcome of every opcode is two words and flags |
| `BackEndProofs` | `Invariant` | `Spec => []IInv` |
| | `TypeCorrect`, `HandshakeCorrect`, `FlushCorrect`, `OneInstructionCorrect` | `TypeOK`, `EwHandshake`, `FlushComplete`, `OneInstruction` |
| `FlightProofs` | `FlightInvariant` | `Spec => []FlightInv`, if `rip_changed` starts down |
| | `InFlightCorrect`, `NothingDroppedCorrect` | `InFlight`, `NothingDropped` |
| | `CrackedWell`, `CrackedProgram` | what `crack_opcodes` pushes satisfies the assumptions made of a program |
| | `RegistersSequential`, `RegisterCodeSequential` | `RunsSequentially` (the refinement of `Isa`), for programs that compute in registers and jump |
| | `CrackedRegister` | which instructions the decoder cracks into such a program |
| `FragmentProofs` | `FragmentInvariant` | `Spec => []FragmentInv` |
| | `UnsignedJumps`, `SignedJumps`, `TestJumps`, `SignedDivisions`, `ExactProducts` | the five arithmetic properties of run `alu`, for every word size |
| | `MemoryOperands` | cracked instructions with an operand in memory do what the instruction does |
| | `MemoryCracked` | `CracksMemory`, from words of four bits on |
| `MemoryProofs` | `PortInvariant` | `PortSpec => []PortInv` |
| | `ReadsFresh`, `WaitersServed`, `PortImplemented` | `FreshRead`, `NoWaiterLost`, the refinement of `DataMemory` |
| | `MemoryTypes` | `MemoryTypeOK`, with the caches' capacities |
| | `PaceInvariant` | `PortSpec => []PaceInv` |
| | `BacklogStaysBounded`, `ReadsAnswered` | `BacklogBounded`, `ReadAnswered` |
| `FrontEndProofs` | `StackAlwaysReady` | `StackReady` |
| | `FrontInvariant` | `FrontSpec => []FrontInv` |
| | `InOrderCorrect` | `InOrder` |
| `WarmupProofs` | `CacheInvariant` | `WarmupSpec => []CacheInv` |
| | `CacheTypes`, `TagsTold`, `RequestsSeen` | `CacheTypeOK`, `TagTold`, `CacheBusy` |
| | `StoreRefined` | `WarmupSpec => StoreSpec`, the refinement of `BlockStore` |
| | `RepliesAlwaysRight` | `RepliesRight` |

*Back end.*  `IInv == TypeOK /\ ReadPending /\ ClearPhase /\ Handshake`.  Types
alone are not inductive: `CompleteRead` takes the head of `de_uop_queue`, which
has one only because a read in progress keeps its micro-op there
(`ReadPending`), which needs that no flush can come while Execute waits.  That
in turn needs to know where in its one cycle a flush is, before or after Execute
has seen it, and which queues are already empty at that point (`ClearPhase`); at
the end of the cycle it gives `FlushComplete`.  `Handshake` extends
`EwHandshake` from the start of a cycle to every point inside it.  The proof has
one lemma per process and one for `Tick`; Execute's follows the disjuncts of
`ExecuteWork`.  `OneInstruction` is inductive relative to `IInv`: Dispatch fills
the queue only when it is empty and stops at the next address, the patch loop
changes no address.

*Arithmetic.*  `FragmentInv` says what the finished part of a fragment left
behind: words, the flags `cmp` and `test` compute from the operands, rdx after
`cqo`, quotient and remainder after `idiv`.  The work is in the lemmas: where
the sign of the truncated difference is the order of the operands
(`DifferenceSign`), that a value which fits survives the cast (`CastFits`), and
that C++ division truncates (`Truncated`, from `DivMod`).  The dividend of
`idiv` needs rdx to be `cqo`'s, which is why `FragmentInv` remembers it.

*Memory operands.*  `MemoryOperands` takes any registers, flags and memory and any
instruction of `Accesses`: lea, mov, sub, cmp and test of a register with an
address, mov of a register or an immediate to one, cmp and test of it with an
immediate, push and mul.  Base, index, scale, displacement and immediate are
arbitrary numbers that fit a word; the conditions in `Address` are the two forms
section 3 leaves out.  The machine is a record of three functions (`St`), each
micro-op has a lemma that says which of them it changes (`StepMove` to
`StepMul`), and `Run` composes them (`RunNext`, `RunPair`).  `AddressLeft` is the
heart: after the two to four micro-ops of an address, `loadstore` holds
base + index * scale + displacement and nothing else has changed.  Every micro-op
casts its result to a word, and the multiplication reads its operands as signed;
that the casts on the way do not show in the end is `CastSum` and `CastFactor`,
from uniqueness of the remainder (`Congruent`), and a displacement extended by
`sign_extend` adds what the signed one does (`Displaced`).  `MemoryCracked` carries
this over to the run: the machine of `MCAlu` is such a machine, and each of
`MemoryInstructions` such an instruction.

*Memory.*  `PortInv` has types, the shape of the buckets and waiting lists, and
`WritesFollow`.  `NoWaiterLost` is not inductive without the bucket being a bag
of positive counts over the port's addresses: a delivery removes one copy of a
response and adds as many as were waiting, and the claim about the remaining
miss registers needs that other addresses keep theirs.  `FreshRead` needs
`WritesFollow`: memory differs from the program's view in at most the address
of the one WRITE put on the port in the last cycle, which is why a READ in the
very next cycle is the exact exception.  `PortImplemented` maps `d_resp` to the
addresses in the bucket or in a miss register.

*Caches.*  `get` permutes the keys of a set (`Promote`), `put` takes the least
recently used line out before a new one goes in, marking a line dirty keeps its
key.  `MemoryTypes` follows, with at most the capacity and no key twice.

*Backlog.*  A request is made again in every cycle until its answer comes, and a
response brings along all that wait for it, so nothing obvious keeps the backlog
small.  `Paced` is what does: at most `L` requests are outstanding at a port, and
at most `L - k` of those are due in `k` or more cycles.  In each cycle one request comes in.
Either a response goes out as well, or none was due (`NoneDue`): then all that is
outstanding is due later and was within the smaller bound.  Requests are counted as a set of numbered members (`Numbered`), so that
a cycle is an injection and a delivery removes a member, and the library's facts
on `Cardinality` replace a sum over a bag.  `ReadsAnswered` needs `AnswerNear`: while
Execute waits, the requests for other addresses get one fewer in each cycle, or
else no response is due and the one awaited comes a cycle nearer.

*Front end.*  `ResetInv` adds to `StackReady` that Fetch's first request comes
after the last reset, and that the core's reset, once run, has given Fetch its
RSP.  `FrontInv` says of every moment at which the path is intact what is left
over, what is asked for and what is on the port: the bytes in `rem_string` are
those from `pc` on and end with a block (`DecoderInv`), and the block Fetch
shows is the one that holds the byte awaited, or it is about to ask for that one
(`FetchInv`).  While a redirect is on its way nothing is claimed; when it has
arrived, both hold for the new path.
`Decode` is then exact: cutting the stream into instructions is iterating
`NextEnd` (`Iterated`), and it stops where the stream does.

*Flight.*  `FlightInv == RedirectSignals /\ Course /\ Addresses`, inductive relative
to `IInv`.  While no flush is under way, `de_uop_queue \o dd_uop_queue` is the
code of the program from the micro-op due next to the address the decoder goes on
at (`Flows`: each entry has a number within its instruction, and succeeds the one
before).  Once a jump has been executed the queues hold the wrong path and
nothing is said of them, only of where the program goes on; when `clear` has been
seen they hold the right path again.  `Addresses` ties `expected_addr` and
`prev_addr` to the micro-op due next, also across a read.  `InFlight` and
`NothingDropped` follow.

Two facts of a program are used (`WellCracked`): only the last micro-op of an
instruction redirects, and a load is neither its first nor its last.
`CrackedWell` proves both of what `crack_opcodes` pushes, for every instruction it
has a form for (`Decodable`; the operands are arbitrary, but what redirects has
one).  A third is that an instruction is shorter than the address space, since
the address after it must differ from its own.  The hypothesis
`~ex.rip_changed` is about the initial state: the member is uninitialised
(`execute.h:34`), and if it is set by chance, `expected_addr` is kept and
`execute.cc:323` drops the second instruction.  Run `faults` has both values.

*Registers.*  `RegistersSequential` is the refinement of `Isa` for programs whose
instructions are one micro-op without a memory operand (`RegisterUop`): mov, add,
sub, and, or, xor, test, cmp, the conditional moves and the shifts of a register by
a register or a value, inc, dec, neg, cqo, nop, imul with two or three operands,
and all jumps, to a displacement or through a register.  `CrackedRegister` says
which operands `crack_opcodes` turns into these.  Process order, pace of fetch and
word size are arbitrary, and so are the stack pointer and value fields, which
`execute.h:34` leaves uninitialised; only `~ex.rip_changed` is assumed, as above.

`RegisterInv == Quiescent /\ Forwarding /\ Decoded /\ Waits` is inductive relative
to `IInv` and `FlightInv`.  `Forwarding` is the claim one would argue about: the
two remembered results cover every result that has not reached the register file,
so a register's value is the remembered one if there is one and else the one in
the file.  Two are enough because `Handshake` leaves at most one result for
Writeback when Execute starts, whichever of the two processes comes first, and
that one is in `prev_reg1`; the older entry may by then be stale as a result, but
not as a value: it equals the register file.  `Waits` says that the micro-op in
`de_uop_queue`, with forwarding applied, has the operands of the sequential
machine, although Dispatch may have read the registers before the last results
were written; for the operands the opcode ignores nothing is claimed
(`HasOperands`, and `SameResults` that it does not matter).  `Decoded` has the
addresses in `dd_uop_queue` consecutive, so that Dispatch's "all micro-ops of one
address" is exactly one.  `ExecuteRegister` then gives a step of `Isa`, and every
other process a stutter: retiring a result moves it from the queue to the file
and the registers of the program are the same (`SettledTail`).

What is left out is left out for a reason.  Instructions of several micro-ops and
memory operands run into `cmp_memory` and `half_dispatch` (section 6),
double-width mul and division and one-operand imul into `stale_remainder` and
`imul_operand`; push, pop, call and ret depend on the shadow stack pointer, whose
value 0 means "none"; a read just after a write can see the old value; a system
call reads and writes rax in the register file itself, past the results on their
way.  In all of these the claim is false for some programs, and where it is true
needs conditions on the neighbouring instructions.

*No induction principle* can be instantiated with these provers, so induction
over numbers is done with sets: `LeastMember` gives the least element of a
nonempty set of numbers (from well-foundedness), `UpTo` and `Iterated` follow.

*Warm-up cache.*  `CacheInv == CacheTypeOK /\ WaysIdentical /\ PortFollows /\
Phases`.  `Phases` says, for each operation and `opstate`, what the pins ask of
the SRAMs and, once the wait is over, what the SRAMs show and hold;
`PortFollows` that a free port means an idle cache, with the cycle of delay of
`port_available` accounted for.  From these every path of `work()` is a step of
`BlockStore` or a stutter: a write is carried out when the SRAMs see the pins, a
miss changes nothing, an answer is what the store holds.  `WaysIdentical` is
needed because a request looks for the block in both ways and answers from the one
in turn; with it, and with `temptag` still what the array holds when a write is
answered, `TagTold` follows.  `RepliesRight` needs
more (`HostInv`): a request keeps its entry in the map until it is answered
(`Asked`), and a cell that holds a block holds the data the host last wrote to
it, unless the write is still on its way (`Stored`).

Only model-checked.  Liveness (`Terminates`, `KeepsDelivering`, `Answered`) is
out of the prover's reach.  `RunsSequentially` for programs with memory operands,
the stack, wide operations and system calls stays with the runs `kernel` and
`any_order`.

## 6. Where code and documentation disagree

Each is a run that TLC ends with a counterexample, against a sentence of
`core-project/README:4`.

* `half_dispatch`: `dispatch.cc:65` compares a growing index with a shrinking
  queue, so an instruction of three micro-ops is never moved "at once".
* `cmp_memory`: `execute.cc:313` replaces `value2` where `reg1` matched.  In
  `mov %rax,(%rdi); cmp (%rdi),%rcx` split by a store the comparison is made
  with the wrong operand.
* `stale_remainder`: only rax of the two results of a division is remembered;
  after `cqo; idiv` the rdx of `cqo` is forwarded over the remainder.
* `imul_operand`: `dispatch.cc:68` does not read the operand of a one-operand
  `imul`.
* `cmp_overflow`: `execute.cc:670` truncates sign bits to `int`; OF is never
  set, and signed jumps go wrong when the subtraction overflows.

Three more sentences are contradicted by what the models say, without a run of
their own.

* `warmup-project/README:1`: "Set-associative,16KB".  Both ways hang on the same
  pins (`cache.h:431-483`), so an insert replaces the block of its index in both,
  and there is never more than one block per index: what `StoreSpec` shows is
  a direct-mapped store.  Sixteen indexes of 64 bytes are 1 KB, 2 KB with the
  copies.
* `cache.h:87`: `out_addr` "should always be set to what has been read out of the
  tag array".  An insert does not read the tags: its reply carries `temptag`,
  which an earlier operation left (`FinishInsert`).  `TagTold` holds for all
  other replies.
* `core-project/README:4`: flags are simulated faithfully for `test`.
  `execute.cc:635` compares a masked bit 63 with 1, so SF is never set:
  `TestBranches` would fail for two negative operands without its exception.

Other deviations (the operand forms above, the stripped zeros, the dropped
request form) are stated in section 3 and where they are modelled.

## 7. Plan

Done: all modules, runs and theorems above.

Next, in this order:

1. The back end on the detailed memory instead of `DataMemory`, to settle
   whether a pop right after a push can see the old value.
2. `FrontEnd` as a refinement of the front end of `BackEnd` with the queue
   `dd_uop_queue` between them; so far the two meet in prose.
3. Proofs: `RunsSequentially` for loads and stores that no read follows at once,
   with `MemoryOperands` for what the micro-ops of one instruction do together.

### Not modelled

* The ELF loader and `mem_init` (`memory.cc`): host I/O in straight-line code,
  run once before the first cycle.  Programs are constants of the models.
* The host's side of system calls: its answers are nondeterministic.
* `HW`: timing loops and a kernel module that reads the cycle counter.
* udis86 (vendored), and the workloads `prog1` and `prog2` themselves.
