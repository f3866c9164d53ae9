# pieces_OS in TLA+

pieces_OS is a collection of course projects on operating systems, in C: a
semaphore and a ring buffer for threads, two elevator simulations, rings in
shared memory between processes, a parallel matrix multiplication, two memory
allocators, a socket pair and a shell. They share no code but for copies of
`sem.c`, the thread wrappers and `ringbuffer.c`. This directory holds TLA+
models of them, TLC configurations that check the models on small instances,
and proofs for all instances of the properties that matter most. Sources are
named relative to the repository.

## 1. Inventory

| Component | State | Operations | Interaction |
|---|---|---|---|
| Semaphore (`matrix/MPMC/sem.c`; copies in `elevator/*`) | `value`, `wakeups`, a mutex, a condition variable | `make_semaphore`, `semaphore_P`, `semaphore_V` | called by `rbuffer.c`; the elevators link it and do not call it |
| MPMC ring buffer (`matrix/MPMC/rbuffer.c`, `main.c`) | `array`, `head`, `tail`, `num_rest_to_produce`, `num_rest_to_consume`, three semaphores; totals in `struct Shared` | `rbuffer_push`, `rbuffer_pop`, `producer_entry`, `consumer_entry` | producers and consumers are threads; `main` joins them |
| People queue (`elevator/*/people.c`) | a linked list, `number`, `timesup`, mutex, condition variable | `add_person`, `pop_person` / `pop_people`, `set_timesup` | the people maker adds, elevators take and wait |
| Simulation (`elevator/*/main.c`, `gv.c`, `idmaker.c`) | ids, totals, the clock | `people_maker_entry`, `elevator_entry` around the elevator's work | threads over the queue |
| Improved elevator (`elevator/improved/elevator.c`) | floor, direction, destination, passengers | `make_sure_direction`, `move_to_dest_floor`, `drop_people`, `letin_people` | reads the shared queue under its mutex, uses what it read later |
| Basic elevator (`elevator/basic/elevator.c`) | floor, one passenger | `letin_person`, `transport_person` | as above |
| Shared memory ring (`IPC/sysvshm`, `IPC/posixshm`) | `head`, `tail`, `data` in a segment that outlives the processes | `rb_init`, `rb_add`, `rb_remove`, the two processes | no lock: each counter has one writer; both spin |
| Task board (`matrix/PMM/parmul.c`) | `board`, its mutex, the result matrix | `getTask`, `worker_entry`, `parallelMultiply` | worker threads |
| Slab allocator (`slab/slab_allocator.c`) | pool of slabs, classes, two doubly linked lists in each | `init_slab_allocator`, `alloc_mem`, `free_mem`, `popSlab`, `chopSlab`, `popChunk`, `addToAllocated` | sequential |
| Aligned block pool (`balloc/balloc.c`) | a list of free blocks, its count | `create_block_pool`, `alloc_align_block`, `free_align_block` | sequential |
| Shell parser (`shell/parser.c`) | the line's buffer, the array of tokens, the list of command blocks with their argument lists | `readline`, `tokenize`, `commandize`, `push_arg` | called by `main` for every line |
| Shell loop and executor (`shell/main.c`, `executor.c`) | the processes of each line, their descriptors, the pipes between them | the loop of `main`, `do_pipe`, `execute` | fork, pipe, dup2, execvp, wait |
| Shell builtins (`shell/builtins.c`) | none | `is_builtin`, `is_chdir`, help, about, cd | called by `main` and `execute` |
| Sockets (`IPC/sockets`) | a stream | send, receive | kernel |
| Utilities (`*/utils.c`, `seqmul.c`) | none | wrappers, argument parsing, matrices, printing | |

What is hard about each part, and what makes it right:

* *Semaphore.* A signal wakes any sleeper, callers arrive between a signal and
  the moment the woken thread has the mutex again, and wake-ups may be
  spurious. Right means: no permit is lost or used twice, no wake-up is
  stranded.
* *MPMC.* Three semaphores have to agree with the ring at every step, and at
  the end the order is met while producers wait for places and consumers for
  items that will not come: refused producers must give their place back and
  one extra permit must go round the consumers. Right means: a bounded queue,
  and everybody ends.
* *Elevators.* Decisions are taken from a queue that others change before they
  are carried out; one arrival signals one waiter, perhaps one that has no use
  for it; `timesup` is written without the mutex. Right means: nobody is lost
  or carried twice, no passenger's floor is passed, nobody waits for ever
  while there is time, and no parameter check ends the program.
* *Shared memory ring.* Lock-free, unsigned counters that wrap, a segment
  left over by a killed run, a process that cannot attach.
* *Task board.* Scans from random places, with a count of tests that decides
  when a worker stops. Right means: each task once, none missed.
* *Slab allocator.* One list of a class is known by its head, the other by its
  tail; a long sequence of calls must leave both whole.
* *Block pool.* A count kept beside a list, blocks freed twice or not at all,
  and a scan whose end is a pointer nobody sets. Right means: each block is in
  the list or with the program, never both, and no two blocks share memory.
* *Shell parser.* Buffers that grow on the way, a walk over the tokens that
  steps by one or two and overwrites what it has read. Right means: no store
  and no read outside a buffer, and a list of commands that means what the
  line says.
* *Shell.* `wait` may reap another child than the one it is for; an end of a
  pipe that stays open in the wrong process keeps a reader waiting for ever.
  Right means: each stage is wired to its neighbours and to nothing else,
  every pipeline ends, the prompt waits for what runs in the foreground, and
  zombies are reaped.

`PROJECT.json` lists these hazards line by line, with the properties that
cover them, or the reason why none does.

## 2. Modules

| Module | Models | Notes |
|---|---|---|
| `CountingSemaphore` | what a semaphore promises | abstract |
| `Semaphore` | `sem.c` | operators on a variable `sem`; instantiated by its users |
| `SemaphoreClient` | threads calling one semaphore in any order | the specification checked and proved |
| `SemaphoreProofs` | theorems of `SemaphoreClient`, and the effect of each operation on the permits | instantiated three times in `MPMCProofs` |
| `BoundedFifo` | what a ring buffer promises | abstract, used by `MPMC` and `ShmRing` |
| `MPMC` | `rbuffer.c` and `main.c` of `matrix/MPMC` | composes three instances of `Semaphore` |
| `MPMCProofs` | theorems of `MPMC` | |
| `PersonQueue` | `people.c` of both elevators: list, flag, condition variable | |
| `Simulation` | what the two elevator programs share | extends `PersonQueue` |
| `ElevatorImproved`, `ElevatorBasic`, `ElevatorProofs` | the elevators and their theorems | extend `Simulation` |
| `MCElevatorBasic` | the people of the basic elevator's run | extends `ElevatorBasic` |
| `ShmRing`, `ShmRingProofs` | both shared memory programs and their theorems | |
| `DataLemmas` | induction, sums over finite sets, sequences without repetition, the items between two counters of a ring | lemmas the proof modules share |
| `TaskBoard`, `TaskBoardProofs` | `parmul.c` and its theorems | |
| `ChunkPool` | what an allocator promises | abstract, used by `SlabAllocator` and `BlockPool` |
| `SlabAllocator`, `MCSlabAllocator` | `slab_allocator.c`, and its constants for TLC | |
| `BlockPool` | `balloc.c` | |
| `Memory` | what the two allocators share: a pool, and a program that holds memory | both extend it |
| `AllocatorProofs` | theorems of `SlabAllocator` and of `BlockPool` | |
| `ShellParser`, `MCShellParser` | `parser.c`, and the lines TLC tries | |
| `Shell`, `MCShell` | `main.c` and `executor.c` of the shell, and its lines for TLC | |
| `ShellProofs` | theorems of `ShellParser` and of `Shell` | |

Definitions have the names of the functions they model; `PROJECT.json` maps
each to its lines. `ElevatorProofs` extends both elevators, `ShellProofs` the
parser and the executor, `AllocatorProofs` both allocators; what the two of a
pair would both call `Init`, `Next` or `TypeOK` is `Basic...` in
`ElevatorBasic`, `Parser...` in `ShellParser` and `Block...` in `BlockPool`.
Definitions named `Bug...` (and, in `Semaphore`, `PTake_...`, `V_...`) are
plausible slips of the code. Nothing uses them in a run; each, put in the place
of the definition next to it, breaks the property `PROJECT.json` pairs it with.

### How state and steps correspond to the code

* **Grain.** A stretch of code that runs with a mutex held and neither waits
  nor sleeps is one step, possible while the mutex is free, because everything
  it touches is guarded by that mutex. What is read or written *without* the
  mutex is a step of its own: `timesup` (a data race; each read sees the
  current value), the `cv_signal` of `elevator_entry`, every access to the
  shared memory segment, `getTask`'s random index.
* **Condition variables.** `pthread_cond_wait` releases the mutex and blocks in
  one step. A signal moves one waiter, whichever, and is lost when nobody
  waits. Spurious wake-ups may happen at any moment and need not.
* **Semaphore.** `sem.asleep` are the threads inside `pthread_cond_wait`,
  `sem.awake` those that have left it and not yet got the mutex. `PReturn` is a
  call that takes a permit, `PBlock` one that goes to sleep. In `MPMC` each
  call is one step of the caller's program counter. The momentary decrement of
  `num_rest_to_produce` below 0 in a refused push happens and is undone under
  the semaphore `mutex`, where nobody else looks.
* **People queue.** The list is a sequence: its order and the taking out of the
  middle are modelled, its pointers are not. `lock` is the elevator that has
  tested the queue and not yet called `cv_wait`; the other critical sections
  are single steps. A person's identity is the id, the floor and the
  destination. Time is one flag, `timeOver`, that may go up at any moment.
* **Elevators.** Moving and sleeping are steps because others run meanwhile.
  Ties between equally near floors or people do not affect anything checked
  but are resolved as the loops do.
* **Shared memory ring.** `rb_init` is a load and a store. The test of the
  spin, the store or load of the slot, and the atomic addition are separate
  steps. The programs are built with `-g` and no optimisation, so the test
  reloads the word every time; an optimising build of this code, whose fields
  are not `volatile`, could spin on a register and is not modelled. Accesses
  are sequentially consistent: the atomic additions are full barriers, and on
  the x86 these programs are meant for a load is not reordered with a load.
* **Task board.** The test of a board entry and the write that takes it are two
  steps, so the mutex matters. An element's value is left out: it depends on
  matrices nobody writes; `matrixC` is the set of elements stored.
* **Slab allocator.** A chunk `<<slab, place>>` stands for its `struct chunk_t`
  and its address. `prev` and `next` are the real pointers. Every `malloc` can
  fail; a NULL pointer that is followed sets `crashed`, where the model stops.
* **Block pool.** The nodes are never changed once they are linked, so the
  chain from `pool_head` is a sequence of block addresses, and `last` is what
  the `next` of the last node made holds: null by chance, or garbage. The
  addresses are computed as `aligned_malloc` does, from disjoint answers of
  `malloc`. A scan that runs into garbage may crash, or end as if the pointer
  had been null. The program may hand back NULL, a block it holds, one it has
  freed already, or a pointer off the alignment; *any other aligned pointer* is
  left out, since the code takes it in whenever the pool is not full. `prev`,
  which nothing reads, is left out.
* **Shell parser.** A pointer to a token is the number of the token; `strtok`,
  which cuts them, is left out, so the number of characters of a line only
  bounds the number of its tokens. The three sizes by which buffers grow are
  constants. A failed allocation ends the program.
* **Shell.** Process `<<j, 0>>` is the one `main` forks for its `j`-th line; it
  runs `do_pipe` and in the end the last stage. `<<j, k>>` is the one it forks
  for stage `k`, and also names the pipe behind that stage. A process has the
  four descriptors the code uses; an end of a pipe is open as long as some
  process has it. Each system call is a step; `fork` may fail, with what the
  code makes of a failure; `pipe` and `dup2` do not fail. A child of `main` that
  ends is a zombie until it is reaped; a child of a child is not `main`'s. A
  program copies its input to its output, may end early (`Quit`) and is killed
  when it writes to a pipe nobody reads; a builtin writes once; `cd` in a
  pipeline ends its process as a failed `execvp` does. A command without
  arguments leaves `args[0]` unset: comparing it crashes or finds nothing.

## 3. What the runs check

Every run is exhaustive for its constants. `CHECK_DEADLOCK` is on everywhere:
the states in which a program has ended have an explicit idle step.

| Run | Instance | Properties | Shows |
|---|---|---|---|
| `semaphore` | 5 threads, value 1, up to 3 | `WaitersAccounted`, `NoStrandedWakeup`, `ImplementsCounting` | blocked callers are those owed a wakeup or with one waiting; it is a counting semaphore |
| `mpmc` | 2 producers, 2 consumers, 3 items, 2 slots | `MutualExclusion`, `SpacesAccounted`, `ItemsAccounted`, `ImplementsFifo`, `Termination` | a bounded queue; the semaphores account for every slot and item, one extra permit at the end and never two; all threads end and are joined, with the totals right |
| `elevator_improved` | 2 elevators, up to 2 people, 3 floors | `TypeOK`, `Conservation`, `PassengersAhead`, `NoPerrorExit`, `Tally`, `TakenOnceArrivalsCease` | nobody lost; no floor passed; no exit; once arrivals cease the queue empties |
| `elevator_improved_stop` | 2 elevators, 1 person, 2 floors | `OthersStopWaiting` **violated** | finding 1 |
| `elevator_basic` | 3 elevators, up to 2 people, 2 floors, all go up | `BasicTypeOK`, `BasicConservation`, `LetinIsSafe`, `EveryoneIsTaken`, `SleepersAreAwoken` | nobody lost or forgotten; no exit; everyone is taken while there is time; the signal at the end reaches every sleeper, passed on by those it wakes |
| `shm_ring` | 4 slots, counters modulo 8 from any start, 9 messages | `TypeOK`, `NoSharedSlot`, `ImplementsFifo`, `Termination` | a bounded queue without a lock; both processes end, and the counts they print are right |
| `shm_ring_left_over` | 2 slots, up to 2 items left in the segment | `InitEmpties` **violated** | finding 2 |
| `task_board` | 3 workers, dimension 2 | `OncePerTask`, `NoneMissed`, `ResultComplete`, `Termination` | each task once, none missed |
| `slab` | pools of 0, 1 and 4 slabs, 2 classes | `TypeOK`, `ListsLinked`, `NoChunkLost`, `ImplementsPool` | both lists stay whole under every sequence of calls |
| `block_pool` | 3 blocks, alignment 3, addresses to 14 | `BlocksAccounted`, `BlocksApart`, `BlocksImplementPool` | no block lost, doubled or shared, whatever is freed; a set of free blocks |
| `shell_parser` | lines of up to 6 tokens, buffers that grow by 3, 2 and 2 | `InBounds`, `ParsedAsMeant` | every access inside its buffer; well-formed lines mean what they say |
| `shell` | 2 lines of up to 3 stages, pipes and files of 1 | `Wired`, `PromptWaits`, `PipelinesEnd`, `ZombiesReaped` | no descriptor where it should not be; pipelines end; the shell waits and reaps |

### Why the bounds are enough

* *semaphore:* five threads let two sleep, one be woken, one pass by and one
  signal at once. `MaxValue` bounds the number of free permits only.
* *mpmc:* three items through two slots wrap the ring, fill it and empty it;
  more threads than items on each side make refused producers and consumers
  that end on the extra permit.
* *elevator_improved:* three floors are the fewest with one strictly between;
  two elevators are enough for a choice made stale by the other; two people
  are enough to lose one while carrying the other, and travel together.
  `MaxPeople` is the model's bound on what the people maker makes; after it the
  maker waits for the end of time. The real maker never stops before, so no
  property rests on that: `TakenOnceArrivalsCease` speaks of each number of
  people made and excepts a further arrival, and the maker is free to make
  fewer or to be slow.
* *elevator_basic:* three elevators are the fewest with two asleep when the
  third signals the end, so that the second sleeper depends on the first to
  pass the signal on. With two elevators a loop that forgets `timesup`
  (`BugTestEmpty`) goes unnoticed; with three it is refuted. Two people are
  enough to forget one for the other. Where people go decides nothing here but
  how long an elevator is away, so `MCElevatorBasic` lets them all go up
  between two floors.
* *shm_ring:* the ten items go more than twice round the ring and past the
  wrap of the counters, from every starting value. `Wrap` stands for 2^32 and
  is a multiple of `Size`, as 2^32 is of 512.
* *task_board:* three workers on four tasks from every start; the proofs cover
  the rest.
* *slab:* with four slabs and two classes (two chunks to a slab, and one) the
  first class can grow to six chunks over three slabs, so chunks are freed from
  the head, the middle and the tail of an allocated list; slabs run out; a pool
  of one slab has one class only, and requests that are too large.
* *block_pool:* three blocks can be freed in another order than they were
  given out, with a block between. An alignment that neither divides nor is
  divided by the size of a block makes blocks start at every offset in their
  chunk. The proofs cover the rest.
* *shell_parser:* with increments of 3, 2 and 2 every buffer grows more than
  once, and fills to the last place before it does, within six tokens. Every
  line of six tokens over a word and the five symbols is tried, well-formed or
  not: two pipes with something between and after, a redirection in each of
  two stages, an ampersand alone, last, or in the middle.
* *shell:* two lines are enough for `wait` to reap the other's process; three
  stages are the fewest with one that has a pipe on both sides. A pipe and a
  file of one character block and unblock a writer and give a reader data
  before the end. The five lines are chosen for their wiring: redirections
  that compete with a pipe, a builtin that writes to one, a background line
  with a command and one without.

### Fairness

Weak fairness of each thread or process, as the scheduler gives it: a thread
that can take a step from some moment on takes one. None is assumed of
spurious wake-ups, of the passing of time, or of which waiter a signal picks.
For a thread that waits for a mutex weak fairness suffices in these programs:
the mutex is modelled as free between steps (or, in `TaskBoard`, its other
users end). A spin is a step that changes nothing, so it does not count as
progress, and it ends when the other side has moved. In `Shell` `main` and each
process are scheduled, and lines, if only empty ones, go on being read (at the
end of its input `readline` returns at once, for ever); nothing is assumed of
`Quit`, so a program may as well copy its input to the end. The programs the
shell runs are assumed to come to an end.

Nothing is assumed of the people maker of the elevators: it may sleep for any
time between two people. What is promised to those who wait ends with the
time, after which the code promises nothing. Before that it differs:

* The basic elevators serve the queue from its head, so everyone is taken,
  however many arrive behind them (`EveryoneIsTaken`).
* The improved ones head for whoever is nearest (`elevator.c:168-180`). Let one
  elevator stand at floor 0, somebody wait on floor 2, and somebody arrive on
  floor 1 for floor 0 in every round: the one on floor 2 is never taken while
  this lasts. No document promises otherwise. What holds is that nobody is
  left once arrivals cease (`TakenOnceArrivalsCease`).

### Findings

1. **`elevator/improved/main.c:169` (and `basic/main.c:150`).** An elevator
   that finds the time up sets `timesup` and signals without the mutex. One
   that has tested `timesup` (`people.c:154` or `elevator.c:156`) and not yet
   called `cv_wait` misses both, and waits for ever; `main` never joins it. The
   comment at `main.c:170` says "signal others to stop waiting". The run
   `elevator_improved_stop` exhibits it; in the basic version
   `SleepersAreAwoken` shows what does hold: all who are already asleep are
   woken, the first by the signal (`basic/main.c:151`) and the others by those
   woken before them, who pass it on twice (`people.c:121` before they leave
   the queue, `main.c:151` when they stop; the second alone would do). There is
   a second way to the same state: if the time ends when every elevator is
   asleep on an empty queue and no arrival comes, nobody is awake to set
   `timesup`.
2. **`IPC/sysvshm/ringbuffer.c:27` (and `posixshm/ringbuffer.c:24`).**
   `rb_init` runs in the parent after the fork and sets `head` to a `tail` it
   has loaded before. On a segment in which a killed run has left items, the
   child may have taken one in between; `head` is then one behind `tail`, and
   `head - tail` is 2^32 - 1: the ring is never full, and holds garbage. The
   comment says it sets the buffer empty. On a new segment, or one that was
   emptied, `shm_ring` shows that the race does no harm.

Behaviour that no document contradicts, so that no property is stated against
it:

* The slab allocator follows NULL when a `malloc` fails in `chopSlab` during
  an allocation, or failed for the pool in `init` (modelled: `AllocNoMemory`,
  `Crash`).
* A parent or child of the shared memory programs that cannot get the
  segment leaves the other spinning (modelled: `ParentMapFails`, `AttachFails`;
  `Termination` excepts them).
* An improved elevator with passengers aboard may
  wait on an empty queue, for `pop_people` waits for people in any case, and
  its passengers stay until the next arrival.
* `create_block_pool` never sets the `next` of the last node, and the scan in
  `free_align_block` follows it for every block that is not in the list
  (`FollowsUnset`). Memory fresh from the kernel is null, so a small program
  does not notice. `alloc_align_block` is saved by the count
  (`BlocksAccounted`).
* A line that is only an ampersand, or only redirections, is a command whose
  `args[0]` nobody sets: `commandize` terminates an argument list only when it
  stores an argument. `main` and `builtins.c` read it (`ReadLine`,
  `ExecuteFails`).
* With `> a >> b` both flags are set and only the last name is kept: `b` is
  truncated and then opened again to append.
* `wait` in `main` may reap a background job while the line in the foreground
  goes on, and the prompt comes back early; the check before the prompt later
  reaps the other. `PromptWaits` and `ZombiesReaped` state what is left of the
  promise.
* At the end of its input the shell does not exit: every `readline` returns an
  empty line.

## 4. What is proved

TLAPS checks all of this for every value of the constants.

**`SemaphoreProofs`** assumes finitely many threads and a natural initial value.
* `TypeCorrect`. The struct keeps its types; a thread waits in one place.
* `WaitersAlwaysAccounted`, `NoWakeupStranded`. The invariant is `Accounting`,
  the conjunction `TypeOK /\ WaitersAccounted /\ NoStrandedWakeup`. Neither of
  the last two is inductive alone: a caller that uses a wakeup keeps
  `WaitersAccounted` only if it is one of the awake ones, and `NoStrandedWakeup`
  survives a signal only if, by `WaitersAccounted`, there is a sleeper to wake
  whenever the value was negative.
* `PermitsAlwaysAccounted`, by the invariant `Balance`.
* `SemaphoreCounts`: `SemaphoreClient` implements `CountingSemaphore` under the
  mapping in which the permits are the positive part of `value` and `wakeups`.

**`MPMCProofs`** assumes finitely many producers and consumers, disjoint and at
least one of each, and positive sizes, as `parse_args` ensures.
* `Invariance`: `IInv`, i.e. `TypeOK /\ OneHolder /\ SpacesAccounted /\
  ItemsAccounted /\ Counters`. What each semaphore's operations do to its
  permits comes from `SemaphoreProofs`, proved once and instantiated three
  times. `OneHolder` adds the mutex's permits and its holders up to 1;
  `Counters` ties `head`, `tail` and the two countdowns together. A pop finds
  an item because by `ItemsAccounted` the consumer's permit stands for one
  unless it is the extra permit, which by `Counters` exists only when nothing
  is left to consume.
* `TypeCorrect`, `Exclusive`, `SpacesBalance`, `ItemsBalance` follow.
* `RingIsFifo`: `MPMC` implements `BoundedFifo`. An item is in the abstract
  queue from the moment `head` has passed it, before its producer counts it.
  That the queue is not full in a push follows from `SpacesAccounted`, that it
  is not empty in a pop from `ItemToPop`; that a push writes over nothing is a
  fact about residues (`PlacesApart` in `DataLemmas`).

**`ShmRingProofs`** assumes that the segment holds no items of an earlier run
(`Left \subseteq {0}`; without this finding 2 applies), and that the size of
the ring divides the range of its counters.
* `Invariance`: `IInv` adds to the types that a test stays true until the
  process acts on it (`Tested`: the other side can only make more room, or more
  items), that the child cannot get past an empty ring before `rb_init` is over
  (`Fresh`), and that the item about to be published is in its slot (`Stored`).
* `TypeCorrect`, `SlotsNeverShared`: counters that differ by 1 to `Size - 1`
  have different slots, also across the wrap (`SlotWraps`).
* `RingIsFifo`: the ring implements `BoundedFifo`, without a lock, for every
  interleaving and through every wrap. `NextSlot` and `HeadSlot` carry the
  queue over the wrap.

**`TaskBoardProofs`** assumes a positive dimension and at least one worker.
* `Invariance`: besides what is to be proved, `IInv` says that whoever is in
  the scan holds the mutex, that what the scan has tested since its start is
  off the board (`TestedOffBoard`, in terms of how far behind the index a task
  lies), and that what is in the result is off the board. `NoneMissed` needs
  the second: at the end of a scan the tasks behind the index are all tasks.
  `OncePerTask` needs the first and the third, and that row and column tell
  the tasks apart (`CellInjective`).
* `TypeCorrect`, `EachTaskOnce`, `NoTaskMissed`; `ResultIsComplete` needs that
  every element has a task (`CellOnto`).

**`AllocatorProofs`**, the blocks, assumes positive sizes, alignment and number
of blocks.
* `BlockInvariance`: `Accounting` adds to `BlocksAccounted` that the chunks stay
  disjoint (`Laid`) and that the set of blocks held is finite. What passes the
  tests of `free_align_block` is a block the program holds (`FreedIsHeld`): the
  accounting leaves nothing else, which is why a block freed twice is refused.
* `BlockTypeCorrect`, `NoBlockLost`; `BlocksLieApart`, from where rounding down
  can put a block in its chunk (`AlignedBounds`).
* `PoolIsSet`: `BlockPool` implements `ChunkPool`, one class without slabs.

**`AllocatorProofs`**, the slabs, assumes that the sizes of chunks are positive
and fit a slab (`SizesAssumption`) and that NULL is neither a chunk nor an array
of classes (`PointersAssumption`). Pools, classes and calls are any.
* A list is stated without walking it: `ListOf(link, x, S)` says that from `x`
  the pointers `link` lead through the set `S`. Pointers stay in `S`, no two
  are the same, all of `S` but `x` is pointed at, and a rank that grows along
  the pointers excludes circles. Taking the head (`ListPop`), putting a new one
  in front (`ListPush`) and cutting out of the middle or the end (`ListCut`)
  are then facts about sets, and one induction shows that the walk of the
  properties meets `S` and ends (`ListWalk`).
* `Invariance`: `Good` says that the lists of every class are such lists in
  both directions (`Linked`), that each pointer is answered by its opposite,
  nothing stands before a head or behind a tail, no chunk is in two lists and
  no slab in two classes, that the lists account for all chunks
  (`Accounted`), and that the chunks are of the slabs before the pool's
  pointer, so that the next one's are new. `ListsLinked` alone is not
  inductive: without the sets, a pointer could lead from one list to another.
  `GiveLinked`, `FreeLinked` and `ChopLinked` are the three changes of
  pointers the code makes.
* `TypeCorrect`, `ListsStayLinked`, `NoChunkIsLost`, and `ListsAreSets`:
  `SlabAllocator` implements `ChunkPool`, the failing `malloc` included.

**`ElevatorProofs`** assumes finitely many elevators, at least one and at least
two floors (`SimulationAssumption`), and that `NoOne`, which stands for a NULL
person, is no person (`NobodyAssumption`). `MaxPeople` is any number: the
theorems bound neither the building nor the elevators nor the people.
* Both invariants begin with `Common`, what `Simulation` keeps: where the maker
  stands between making a person and counting it (`Makes`), that the totals
  are the counts of the elevators that have handed theirs in (`Counts`), and
  that who is on the way out has seen the time over (`Stops`).
* `Invariant` is `IInv == Common /\ Accounts /\ Travels`. `Accounts` states
  `Conservation` over whom each elevator has, whichever way (`Accounted`), so
  that one lemma serves both elevators: those waiting, those with the
  elevators and the number delivered account for all that were made.
  `Travels` says where an elevator is on its way at each label (`Travelling`):
  the destination is the nearest floor of anybody aboard, every passenger's
  floor lies ahead in the direction, or is this one when they are about to be
  dropped, and an elevator with anybody aboard has a direction.
  `PassengersAhead` is not inductive without it: a move keeps a floor ahead
  only because the destination is the nearest.
* `TypeCorrect`, `NobodyIsLost`, `NobodyIsPassed`, `ChecksNeverFail`, and
  `TallyIsRight`, a sum over all elevators (`DataLemmas`).
* `BasicInvariant` is `BasicInv == Common /\ BasicAccounts /\ Carries`:
  `Carries` says at which labels an elevator has a passenger, has popped one
  it has not let in, or may have got nobody, which only the end of time
  explains. `BasicTypeCorrect`, `BasicNobodyIsLost`, `LetinAlwaysSafe` follow.

**`ShellProofs`**, the parser, assumes positive increments, at least 2 for
arguments (`SizesAssumption`), and that the lines are sequences of words
(`TypedLinesAssumption`); there is no bound on their length.
* `ParserInvariance`: besides `InBounds`, `Filled` ties the number of tokens
  stored to the place in the buffer and says that each points into the line;
  `InBounds`, whose last part is that `commandize` has yet to overwrite the
  tokens in front of it, is inductive only with it. `ParserTypeCorrect` and
  `StaysInBounds` follow.
* `LinesAreUnderstood` (`ParsedAsMeant`). The invariant `Understood` says what
  the list is in the middle of the pass (`ParsedUpTo`): there are as many
  blocks as pipes passed and one; all but the last mean their stages; the last
  has the meaning of the part of its stage that was read; and the token before
  `pos` announces no name, which is what stepping by two is for. At a pipe the
  stage in front is complete because pipes are counted from left to right
  (`PipesCount`, `PipeOfStage`).

**`ShellProofs`**, the executor, assumes lines with at least one stage and at
most `MaxStages`, and positive bounds (`BoundsAssumption`, `LinesAssumption`).
* `ShellInvariance`: `ShellInv` says of each process which four descriptors it
  has at each place of `do_pipe` and `execute` (`InPlace`): at stage `k` the
  read end of the pipe before it, and between `pipe` and the closing after the
  fork both ends of the one behind. A process that does not run has none, and
  zombies are `main`'s children only (`InOrder`). `Waits` counts unreaped
  children against background lines; a background line counts from when it is
  read, its child only from the fork, which `Owed` makes up for.
* `ShellTypeCorrect`, `StagesAreWired`, `PromptAlwaysWaits`, for pipelines of
  any number of stages and any number of lines.

**`DataLemmas`** has no theorem of the system. The library's induction theorems
take an operator, which no prover here can instantiate; `LeastNumber` and
`SetInduction` get the same from a set (the numbers at which a statement holds)
and the well-foundedness of `<`, and the sums and segments are built on them.

**Only model-checked.** The liveness properties (`Termination`,
`TakenOnceArrivalsCease`, `EveryoneIsTaken`, `SleepersAreAwoken`,
`PipelinesEnd`, `ZombiesReaped`): liveness under fairness and `ENABLED` are
beyond the prover.

## 5. Not modelled

* `IPC/sockets`: two processes that send and receive on a stream; almost all
  the behaviour is the kernel's.
* Argument parsing, printing, clocks, sleeping times, the arithmetic of
  matrices (`seqmul.c`, `PMM/utils.c`), `malloc_check` and the wrappers that
  exit on an error of the thread library.
* Functions nothing calls: `PersonQueue_clr_timesup`, `letin_person` and
  `transport_person` of the improved elevator, `aligned_free`.
* `strtok`'s cutting of a line into tokens, what builtins print, what `chdir`
  does, the prompt, failures of `pipe` and `dup2`.
* A pointer that never came from the block pool but has its alignment: the
  code takes it in when the pool is not full, and says nowhere that it should
  not.
* Alignment and addresses of the slab allocator; the start time that the IPC
  programs keep in the segment.

## 6. Plan

Order of work, the most important behaviour first; done: 1 to 9.

1. `Semaphore`, its client, its refinement and proofs.
2. `MPMC` on three semaphores, its refinement of `BoundedFifo`, the proof of
   its invariant.
3. `PersonQueue`, `Simulation`, both elevators.
4. `ShmRing`; `TaskBoard` with proofs.
5. `SlabAllocator` and its abstract specification.
6. `BlockPool` and `ShellParser` with proofs; `Shell`.
7. Proofs: `MPMC` and `ShmRing` implement `BoundedFifo`; `NoSharedSlot`.
8. Proofs of every safety invariant of both elevators, of the meaning of a
   line, of the wiring of a pipeline and of the prompt.
9. Proofs of every safety property of `SlabAllocator`, its refinement included.
10. Left: the two processes of `IPC/sockets` over a stream.

To run a check: `tlc -config MPMC.cfg MPMC`, and so on by the table in
`PROJECT.json`; to check a proof module: `tlapm MPMCProofs.tla`.
