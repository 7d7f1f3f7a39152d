# TLA+ models of c-cpp-programs

This directory holds TLA+ models of the programs in `src/`, together with the
TLC configurations that check them. These programs are modelled so far:

- the sbrk-based heap allocator `src/heapAllocator/alloc.c`;
- the multi-threaded key-value server `src/kvstore/`, covering its job
  queue, its worker pool, its hash table and one worker's request loop
  (parser, dispatcher, payload reading and responses);
- the metadata callbacks of the FUSE file system `src/filesystem/sfs.c`;
- the container programs: `HashSet/HashSet.h`, `Vector/diyvector.h` and the
  two stack programs `Stack/stack.cpp` and `Stack/stack-on-heap.cpp`;
- the process structure of the shell `src/shell/shell.c` and `front.c`:
  commands, pipelines, subshells, background jobs and sequences.

## 1. Inventory of the system

| Part | Sources | State | Operations | Concurrency / hard behaviour |
|---|---|---|---|---|
| Heap allocator | `heapAllocator/alloc.c` | block chain in the sbrk heap (8-byte descriptor per block: flag bit 63, size in words); `base_block`, `first_free` (left-most-free hint), `recent_freed[5]` (recency cache) | `mymalloc`, `mycalloc`, `myfree`, `myrealloc`, plus the helpers `get_free_block`, `expand_heap`, `split_block`, `align` and the descriptor helpers | single-threaded; the hard part is long call sequences, the size_t arithmetic and the hint and cache going stale |
| Allocator test framework | `heapAllocator/test_framework/*` | simulated heap with `max_brk_size`; the sorted doubly linked region list `allocs` (and `freed_allocs`, `zero_sized_allocs`) | `sbrk`/`brk` interception; `checked_alloc`, `checked_alloc_array`, `checked_free`, `checked_realloc` around the allocator; the tests of `tests.c` | every assert or `error()` ends the program; the list's fast paths trust `head` and `tail`; the checks must neither miss a fault nor raise a false alarm |
| kvstore | `kvstore/*.c` | hash table of items with bucket lists, FIFO job queue, 64 worker threads; per worker a `struct request` and the thread's `errno` | producer accepts connections and enqueues jobs; workers dequeue jobs and run `main_job`: read a header line, dispatch, serve SET/GET/DEL/PING/RESET, answer | a condition variable used without a predicate; hash table without locks; a byte stream that must stay framed; clients that leave; a thread-local `errno` nothing clears |
| Simple file system | `filesystem/sfs.c`, `sfs.h`, `diskio.c` | image: root directory (64 entries), block table (16-bit links, `EMPTY`/`END`), data blocks; a directory's 16 entries fill two blocks | FUSE callbacks: getattr, readdir, read (read-only); mkdir, rmdir, unlink (change the disk); create, truncate, write, rename return `-ENOSYS` | libfuse runs callbacks on several threads; each callback rewrites whole copies of the table and the parent; a crash between two writes persists |
| Shell | `shell/shell.c`, `front.c` | parsed command tree; per process the C call stack, stdin/stdout and open pipe ends; the script's shared read offset | read a line; `exec_command` (builtins, fork + execvp + wait), `exec_pipe`, `exec_redirect`, `exec_subshell`, `exec_detach`, `exec_sequence` | many processes run at once; pipe ends must be closed in the right processes; `wait(NULL)` reaps any child |
| HashSet | `HashSet/HashSet.h` | a vector of buckets (vectors of `T`) and `elementCount` | `add` (with rehash), `contains`, `remove`, copy constructor, iterator | single-threaded; the rehash and the iterator's walk over empty buckets |
| Vector | `Vector/diyvector.h` | `arrayPtr` of `actualSize` slots, the first `vectorSize` used | `pushBack`, `popBack`, `erase`, `insert`, `at` | single-threaded; growth, element moves, uninitialised slots |
| Stacks | `Stack/stack.cpp`, `Stack/stack-on-heap.cpp` | a `vector<int>`; a linked list of heap `Node`s with `nodeAmount` | the `promptStack` commands push, pop, top, list, end | single-threaded; copies and destructors of the linked stack |

### How the allocator's parts interact

`mymalloc` aligns the request (`align`) and asks `get_free_block` for a block.
That function first looks in `recent_freed`, then scans first-fit from
`first_free` to `sbrk(0)`, and otherwise calls `expand_heap`, which takes whole
pages from sbrk and moves `first_free` to the new block. It then splits the
block with `split_block` if more than two words would be wasted; the split also
moves `first_free`, to the right half. `myfree` walks the chain from
`base_block`, marks the matching in-use block free, lowers `first_free` and
pushes the block into `recent_freed`, dropping the oldest entry. `myrealloc`
either runs `mymalloc`, `memcpy` and `myfree` (grow) or splits the block in place
(shrink).

### How the test framework wraps the allocator

A test calls `checked_alloc` (or `checked_alloc_array`), `checked_free` and
`checked_realloc` instead of the allocator. Each wrapper calls `mymalloc`
(`mycalloc` with `-c`), `myfree` or `myrealloc` and checks the result against
`allocs`, a list of the regions the test holds sorted by address.
`memlist_add_region` records a new region. It takes a fast path for an empty
list, a region before the head and a region behind the tail; otherwise it walks
the list, calls `error()` on an overlap, and inserts the region behind the first
one it fits after. `checked_free` and `checked_realloc` find the region with
`memlist_find`, assert that the pointer is its start, and take it off the list
with `memlist_remove`. `checked_realloc` also asserts that the first
min(old, new) bytes at the new pointer still hold the old data. Any failed
check exits the program. The `brk`/`sbrk` of `intercept.c` serve the
allocator's heap from a reserved area and assert that it stays within
`max_brk_size`.

### How the kvstore's parts interact

`main` accepts a connection and wraps it in a `job_t`. Under the mutex `mtx`
it calls `job_enqueue` and `pthread_cond_signal(&cond)`. Each of the 64
workers then runs the same loop:

1. lock `mtx`;
2. call `pthread_cond_wait` once, with no test of the queue;
3. call `job_dequeue`, unlock, and run `main_job` on the connection.

`main_job` loops over the requests of its connection. `recv_request` waits
in `select` (whose 60 s timeout is not treated as an error), and
`receive_header` calls `parse_header`, which reads one line with `read_line`,
takes the method, the optional key and the optional length (`strtoul`,
followed by a test of `errno`). A line too long, an EOF or an unparsable
length sets `connection_close`. `request_dispatcher` answers PING and unknown
methods itself; `main_job` answers RESET and calls `set_request`,
`get_request` or `del_request`. `set_request` reads the payload with
`read_payload` and its `'\n'` with `check_payload`. Every answer goes out
through `send_response`, whose failure every caller ignores. These look items up with `get_item` and relink the bucket's
doubly linked list. The bucket and item locks exist only as comments, so
workers serving different connections touch the table concurrently.

### How the file system's parts interact

Every callback starts with `get_entry`, which walks the path from the root
directory through directory blocks. `sfs_unlink` and `sfs_rmdir` then locate
the parent with `get_parent_info`, read its entries, empty the victim's entry
and write the parent back, then read the whole block table, free the victim's
blocks in that copy and write the whole table back. `sfs_mkdir` calls
`alloc_dir_blocks`, which reads the table, finds two consecutive free blocks,
writes their two table entries and zeroes them; it then reads the parent and
looks for a free slot, but never writes the new entry. `sfs_read` follows the
block table from the file's first block. All disk access goes through
`disk_read`/`disk_write` (`diskio.c`), which exit on an I/O error. `main`
passes `-f` but not `-s` to `fuse_main`, so libfuse runs callbacks on several
threads; the kernel holds the parent directory's lock (and the victim's, for
rmdir) during each callback, so only callbacks in different directories
overlap.

### How the container programs' parts interact

Each container is used by a caller that makes one call at a time. `HashSet`'s
`add` looks the element up in its bucket, rehashes into twice the buckets when
`elementCount + 1` reaches the bucket count, and pushes the element into its
bucket. The iterator walks the buckets in order, skipping empty ones.
`DiyVector` grows its array by one slot when it is full and moves elements for
`insert` and `erase`. The two stack programs read commands in `promptStack`;
the heap version's "list" copies the stack twice (once explicitly, once by
value into `listStack`), pops one copy empty and destroys the other.

### How the shell's parts interact

`front.c`'s `main` reads the script line by line with `readline` and hands
each parsed tree to `run_command`, which dispatches on the node type.
`exec_command` runs a builtin in the shell itself, or forks a child that
calls `execvp` while the parent waits. `exec_pipe` creates all the pipes,
forks one child per part, and each child `dup2`s its ends by position and
closes all the pipe descriptors. The parent then closes its copies and calls
`wait(NULL)` once per part. `exec_subshell` forks a child that runs the subtree
and exits, and the parent waits for it. `exec_detach` forks without waiting.
All processes forked from the shell share the script's read offset.
The processes interact through pipes, through end of file and SIGPIPE, and
through `wait`.

## 2. Modules

| Module | Models | State ↔ code |
|---|---|---|
| `Alloc` | `alloc.c` together with a client holding pointer slots | `heap` is the chain, header address to `[units, free]`; `brk` is `sbrk(0)`; `base_block`, `first_free` and `recent_freed` are the globals of lines 45–54; `slot` is the client's pointer variables |
| `AllocHarness` | `checked_alloc.c` and `memlist.c` around `Alloc` | `region` maps a region object to `[start, end, next, prev]` (bytes, as `struct mem_region`); `head`, `tail` are `allocs.head`, `allocs.tail`; `failure` names the check that ended the program |
| `MCAlloc` | TLC instance of `AllocHarness` (and so of `Alloc`) | `reallocOn`, `harnessOn` pick the client per behaviour; `calls` counts the checked calls of the realloc client; symmetry over slots and region objects |
| `AllocArith` | the size_t arithmetic of `align` and `expand_heap` | pure operators modulo 2^`SIZE_WIDTH` |
| `KVJobQueue` | `job_t`/`job_queue_t`, `init_job_queue`, `job_enqueue`, `job_dequeue` | a queue is `[front, rear, next]`; the operators return the new queue, as `Alloc`'s do |
| `KVQueueSpec` | what the job queue promises: a FIFO | `queue` is a sequence of jobs |
| `KVServer` | `main`'s producer loop and the `worker` loop | `q` is `job_pool`; `pc[w]` is the worker's place (`lock`, `blocked` in `cond_wait`, `woken`, `serve`); `job[w]` is the job it took; `accepted` counts connections; `crashed` records the NULL dereference at line 298 |
| `MCKVServer` | TLC instance of `KVServer`, for its violation runs | |
| `KVStoreSpec` | what the hash table promises: a map from keys to values | `store` maps each key to a value or NULL |
| `KVHashTable` | `get_item`, `init_hash_item`, `set_request`, `get_request`, `del_item`, `del_request` | `head` is the bucket's `ht->items[b]`; `item` maps an item address to `[key, value, next, prev]`; `freed` is the set of freed items; `pc`, `req`, `target`, `new`, `oldHead` and `branch` are each worker's locals; `fault` records a read or write through NULL or a freed item |
| `MCKVHashTable` | TLC instance of `KVHashTable`, for its violation run | |
| `KVSession` | one worker's `main_job` loop over successive connections: `recv_request`, `receive_header`, `parse_header`, `read_line`, `method_to_enum`, `request_dispatcher`, `send_response`, `read_payload`, `check_payload`, and the SET/GET/DEL/RESET handlers | `stream` is what the client sent and the worker has not read (header lines as their words, payload bytes, the terminator, an over-long line); `pc` is where the worker is in `main_job`; `req` is `*request`; `closeFlag` is `request->connection_close`; `len` and `buf` are `set_request`'s; `errno` the thread's; `resp[c]` the answers written on connection `c`, each marked delivered or failed; `store` the table as a map |
| `MCKVStore` | `KVServer`, `KVHashTable` and `KVSession` in one model | `active` picks one of the three per behaviour; `SessScripts` are the client scripts of the session |
| `SfsDisk` | `sfs_unlink`, `sfs_rmdir`, `sfs_mkdir` with `get_entry`, `get_parent_info`, `get_path_name`, `alloc_dir_blocks`; `sfs_read`'s walk | `table` is the block table, `root` the root directory, `data[b]` the entries of the directory whose first block is `b`; per thread `pc`, `req`, `tgt` (the entry `get_entry` returned), `ploc`/`pbuf` (parent location and copy), `tbuf` (copy of the table); `image` is the mounted image, kept for the properties |
| `MCSfsDisk` | TLC instance of `SfsDisk` | two images, the requests |
| `HashSetTable` | `HashSet<int>`: `add`, `contains`, `remove`, the copy constructor; `begin` and `operator++` | `table` is `hashTable` (bucket `i` is `table[i+1]`); `elementCount`; `ret` is the last call with its argument and result |
| `SetSpec` | what `HashSet` promises: a set | `set`, and `ret` as above |
| `DiyVector` | `DiyVector<T>`: `pushBack`, `popBack`, `erase`, `insert` | `arr` is `arrayPtr`, a function from slot to value with `Unset` for slots `new T[]` left uninitialised; `vectorSize`, `actualSize`; `thrown` says the last call threw `OutOfRange` |
| `StackRepl` | `promptStack` of both stack programs, fed the same command | `elements` is stack.cpp's vector; `heap` (`mem`, `live`, `fault`) and `onStack` (`topNode`, `nodeAmount`) are stack-on-heap.cpp's; `outVec`/`outHeap` what each printed; `running` what each `promptStack` returned |
| `Shell` | `front.c`'s read loop and `run_command` with the `exec_*` handlers of `shell.c` | `st`, `parent` are the process table; `frames[p]` is what is left of the C call stack of process `p` (run a node, fork a pipeline part, close the pipes, wait, exit); `exe[p]` the program `execvp` loaded; `fdIn`, `fdOut`, `held` the pipe ends open in `p`; `cursor` the shared read offset; `buf` the items in each pipe |
| `MCPrograms` | TLC instance of the three containers and the shell side by side | `active` picks one program per behaviour; `ops` counts container calls; `ScriptLines` are the parsed lines a script can hold |

Addresses and sizes in `Alloc` are in words of 8 bytes (one `meta_t`). The
descriptor word becomes a record: `units` stands for `descriptor & ~(1<<63)` and
`free` for bit 63. Each operator keeps the name of the C function it models:

- `Desc` is `set_descriptor`, which always sets the free flag.
- `NextMeta` is `get_next_meta`. `DataSize` is `get_data_size`, including its
  `offset == 8` test.
- `ExpandHeap`, `SplitBlock` and `GetFreeBlock` are `expand_heap`,
  `split_block` and `get_free_block`.
  - `CacheHits`, `FirstFit` and `MaybeSplit` are the three stages of
    `get_free_block`.
  - `MaybeSplit` keeps the size_t wrap of its subtraction. No call reaches
    it: both split tests run only on a block at least as large as the request.
- `FindBlock` is the walk of `myfree`.
- `MyMalloc`, `MyFree` and `MyReallocLive` are the public calls. They are
  functions from the allocator state, taken as a record by `Mem`, to a new state
  and a result.

`myrealloc` runs `mymalloc` and `myfree` inside one step, as the C code does.
The public calls are atomic steps because the program is single-threaded. The
client actions are:

- `Malloc`, `Calloc` and `Free`.
- `FreeUnheld`: a free of NULL, a double free, or a free of a stale or interior
  pointer.
- `Realloc`, with all three branches.

An sbrk past `MaxHeapUnits` is a fatal assert in the test harness
(`intercept.c:38`), so a step that would need one is disabled.

`AllocHarness` conjoins each wrapper with the client action of `Alloc` it
wraps. `CheckedAlloc` is `Calloc` (mymalloc of the product; mycalloc adds a
memset) followed by `AfterAlloc`: the zero-size early return, the non-NULL and
heap-bound asserts and `AddRegion`. `CheckedFree` and `CheckedReallocLive` first
`Find` the region and check its start (`Refuse` when that fails, before the
allocator runs), then run `Free` or `Realloc` and `Remove`/`AddRegion`.
`CheckedRealloc` has the NULL and zero-size branches of `checked_realloc`.
`Settle` either commits the new list or records the failed check, after which
only `Exited` (the program is gone) can happen. The list operators `InsertFront`,
`InsertAfter`, `Remove`, `AddRegion` with `AddLoop`, and `FindFrom` follow
memlist.c line by line on the linked objects; `SetPrev` and `SetNext` are the
`if (x) x->prev = ...` of the C code.

In `KVServer` each critical section is one atomic step. The critical sections
are:

- `main`'s lock, enqueue, signal and unlock;
- a worker's lock followed by `cond_wait`, which releases the mutex;
- the reacquire, dequeue and unlock that follow `cond_wait`.

Collapsing them is sound because only those sections touch the queue. The
mutex is therefore implicit.

`pthread_cond_signal` wakes one blocked worker, or is lost if none is blocked.
A spurious return from `cond_wait`, which POSIX allows, is the action
`SpuriousWake`, switched on by `SpuriousWakeups`.

In `KVHashTable` every read or write of shared memory at the lines named in
`PROJECT.json` is a step, because the table has no locks. The exception is the
walk of `get_item`, which is one step. The list is checked through two
refinement mappings:

- `Chain(q)` maps the job queue's linked list to the sequence of
  `KVQueueSpec`.
- `Store` maps the bucket, read through `get_item`, to the map of
  `KVStoreSpec`.

In `KVSession` one step covers one call of `main_job`'s loop up to the next
blocking read: `RecvHeader` is `recv_request` with the dispatcher, the answer
to PING, RESET or an unknown method, the free of the key and the loop test;
`ReadPayload` is one call of `read_payload` in `set_request`'s `while`, with
`len += received` in a size_t of `SizeWidth` bits, so that -1 at EOF wraps to
`SIZE_MAX` and ends the loop; `SetFinish` is `check_payload`, the table update
and the answer. A client script is a sequence of requests, and `Encode` turns
each into the bytes a client sends. A client may have left (`gone`); then any
`send_response` may fail and set `errno` to `EPIPE`, since SIGPIPE is ignored.
`errno` is one variable of the thread, never reset between connections, as in
the code. The table is a map: the races on it are `KVHashTable`'s subject, and
one worker runs its handlers alone.

In `SfsDisk` each `disk_read` or `disk_write` is one step, and `get_entry`'s
walk is one step. A `blockidx_t` keeps its 16-bit arithmetic (`U16`), so the
`END - 1 = 0xfffd` fix-up of `sfs_read` is modelled as written. A table write
outside the table (`Put`) extends the table's domain, which `TypeOK` reports.
`sfs_read` changes nothing on disk; its walk is the operator `ReadBlocks`,
compared in every reachable state with the chain of every file. The kernel's
directory locks appear as the guard `LocksFree` of `Start`. `CrashRemount`
kills the process between any two disk writes and mounts the image again,
keeping every write made.

In `HashSetTable`, `std::hash<int>` is the identity (libstdc++), so
`calcHashIdx(x)` is `x % hashTable.size()`. `Rehash` is written as the code
does it, with `calcHashIdx` reading the old table while the new one is filled.
The copy constructor never sets `elementCount`; the copy's count is a
nondeterministic choice among `GarbageCounts`. The iterator is the pure
operator `Iterate`, built from `begin` and `Incr` (`operator++`).

In `DiyVector` a write goes through `Put`, which adds the slot to the array's
domain when it lies outside, so an out-of-bounds write shows in `TypeOK`.
`erase` is modelled as written: its loop repeats the single assignment
`arrayPtr[index] = arrayPtr[index + 1]`. A read past the array (`ReadSlot`)
yields `Unset`.

In `StackRepl` one command is one step, covering every call the branch makes:
"list" on the heap stack is two copy constructions, `listStack`'s pops and the
destructor of the first copy. `new` returns some address not live; `delete`
removes it from `live`; a read or delete of an address not live sets `fault`.
The push branch of `promptStack` ends without a `return`, so what it returns
is undefined; the model lets each program continue or stop.

In `MCPrograms` the programs share nothing, so `Init` picks one of them
for the whole behaviour and only that one takes steps. `Next` lists each call
of each container and each shell step as its own disjunct. `MCKVStore` does
the same for the three parts of the kvstore; the client scripts are chosen
only when the session is the active part.

`MCAlloc` explores four clients in one run. `reallocOn`, fixed for a behaviour,
says whether the client calls realloc; the ownership properties are checked for
the client that does not. `harnessOn`, also fixed, says whether it calls the
allocator directly (bad frees included) or through the checked wrappers, as
the tests do. A harness client makes at most `MaxCheckedCalls` calls, after
which its test returns (`TestReturned`).

In `Shell` a process's `frames` copy the C call stack, and `fork` copies them
as the kernel copies the stack. A child of `exec_pipe` starts with "run part
i, exit". When `execvp` fails, the child returns into the caller's frames with
the shell's image and goes on running the rest of the line. Every step that
another process can observe is one action: `ReadLine`, `ExecCommand`,
`ExecPipe`, `ForkPart`, `ClosePipes`, `WaitReap` and `Exit`, among others.
`wait(NULL)` reaps any zombie child. `dup2` of an end the process has already
closed fails and leaves the descriptor as it was. A write into a pipe that no
running process holds for reading is SIGPIPE. End of file means the pipe is
empty and no process holds its write end. The programs that commands run are
not code of the repository: `gen` writes items, `cat` copies, `sink` reads to
end of file, `true` exits, and `bad` does not exist.

## 3. Runs

| Run | Expect | What it shows |
|---|---|---|
| `alloc` | pass | Checks malloc, calloc, free and bad frees, with and without realloc, called directly or through the test framework. The chain tiles the heap (`HeapTiled`). The hint and cache stay sound (`RecentFreedSound`). For a client without realloc, no memory is handed out twice (`NoAliasingNoRealloc`) and in-use flags match ownership exactly (`InUseExactlyHeldNoRealloc`). Through the wrappers, `allocs` stays a sorted, doubly linked list of exactly the held regions (`HarnessListMirrorsHeld`). A test without realloc passes every check (`SilentWithoutRealloc`). With realloc, every aliasing and every loss of data is reported by the call that causes it (`HarnessReportsFaults`): the overlap error catches the `alloc_realloc_alias` trace, and the retention check catches a realloc of a 56-byte block. |
| `alloc_realloc_alias` | violation of `NoAliasing` | `realloc(p, smaller)` calls `split_block`, which flags the live block free. A later `malloc` returns `p` again. The trace is malloc(8), malloc(56), realloc(p2, 24), free(p1), malloc(24). |
| `kvstore` | pass | Each behaviour explores one half. The queue half has three workers, four connections and spurious wake-ups. Every accepted job is in exactly one place: the list, a worker, or served (`JobsConserved`). The list implements the FIFO (`QueueRefinement`). The table half has one worker, three keys and six requests, which exercise all four cases of `del_item`. The bucket stays a well-formed doubly linked list of live items (`BucketWellFormed`) and implements the map (`StoreRefinement`); a lost item or a key inserted twice would show there as a key that vanishes or comes back after a DEL. The session half has one worker and two connections, each sending up to two of SET/GET/DEL/PING or one of an over-long line, an empty line, an unknown method, RESET, a cut SET or a SET with an unparsable length, to a client that may have left. The i-th answer on a connection answers its i-th request, and only a GET hit carries a value (`AnsweredInOrder`). Under weak fairness of the worker every connection is closed (`ConnectionsClosed`), the cut SET included, whose payload loop ends by the size_t wrap. |
| `kv_spurious` | violation of `NoNullDequeue` | The worker tests nothing after `cond_wait`. A spurious wake-up dequeues NULL and line 298 dereferences it. |
| `kv_lost_wakeup` | violation of `EveryJobServed` | The trace runs under weak fairness of the workers. One job is served. The second job's signal is sent while the only blocked worker is elsewhere, so it is lost. Both workers then block while the job stays queued. |
| `kv_errno` | violation of `EveryRequestAnswered` | Connection 1 sends a SET whose length strtoul cannot represent (ERANGE), or leaves before a write (EPIPE). Connection 2, on the same worker, sends a well-formed `SET k 1`; `parse_header` finds `errno` still nonzero and returns -1, and the connection is closed with no answer. |
| `ht_uaf` | violation of `NoBadDereference` | A SET finds an item, a DEL frees it, and the SET then writes its value. |
| `sfs_seq` | pass | One thread, both images, up to five callbacks among unlink, rmdir and mkdir in the root and in a directory, with crashes between disk writes. No callback changes the chain of a file or directory that survives (`SurvivorsIntact`), even after a crash. A completed removal has freed its whole chain (`RemovalFrees`). `sfs_read` reads exactly a file's chain from the block of its offset (`ReadFollowsChain`). |
| `sfs_race` | violation of `NoLeakedBlocks` | `unlink /a` and `unlink /d/b` run on two threads. Both read the block table, the first writes its copy with a's blocks freed, and the second writes its own copy, where they are still in use. a's blocks then belong to nothing. |
| `programs` | pass | Up to eight calls on one container, or one script run by the shell. The HashSet iterator dereferences every stored element exactly once (`IteratorVisitsAll`), through rehashes, removals and copies. DiyVector never writes outside its array (`TypeOK`) and never exposes an unwritten slot (`VisibleInitialised`). The heap stack prints what the vector stack prints (`StacksAgree`), never reads a freed node (`NoUseAfterFree`) and frees every node it no longer holds (`NoLeakedNodes`). The shell runs every script of up to two of six lines (`gen\|sink`, `gen\|cat\|sink`, `gen\|true`, `gen &`, `(cd; exit)`, `bad; gen`). Under weak fairness of each process, every process eventually exits, the shell included (`Terminates`): every write end is closed where it must be, so every reader sees end of file. No pipeline part dies of SIGPIPE on a pipe that has not yet had a reader (`NoEarlySigpipe`). `gen\|true` does reach SIGPIPE, but only after `true` has held the read end. |
| `sh_reap` | violation of `ForegroundFinished` | Line 1 is `gen &` and line 2 is `(cd; exit)`. The background `gen` exits first, and the subshell's `wait(NULL)` reaps it. The shell is then back at its prompt while the subshell still runs. |
| `hs_rehash` | violation of `SetRefinement` | add(2) into two buckets, then add(0) rehashes to four buckets. The rehash leaves 2 in bucket `2 % 2 = 0`, while lookups now look in bucket `2 % 4 = 2`. A second add(2) succeeds where a set says it must fail. |

The unlocked check-then-insert of `set_request` lets two SETs of new keys into
one bucket both publish their item as head, losing one, and lets two SETs of
one missing key both insert it. `KVHashTable` states what breaks as
`NoLostItem` and `KeysUnique`, and TLC breaks both within nine steps on
`MCKVHashTable` with two workers. No run checks them: with one worker the
interleaving cannot happen and both follow from `StoreRefinement`, and with
two workers `ht_uaf` already gives the project's one violation run of the
unlocked bucket code to the use-after-free of `get_request`. The hazard at
`kvstore.c:63` records the lost and duplicated inserts. The allocator's `DataPreserved` (realloc of an 8-word
block copies nothing, because `get_data_size` reports 0) is stated in `Alloc`
and has no violation run of its own: the project holds at most twelve runs,
and these two violations gave their runs to the container programs. The loss
does appear in `alloc`, where `checked_realloc` reports it: that is what
`HarnessReportsFaults` checks.

`NoNullDequeue` also holds when spurious wake-ups are switched off, because
each signal then pairs with one enqueued job. That case has no run of its own,
since real `pthread_cond_wait` may wake spuriously.

Every property of a passing run has a mutant in `PROJECT.json`: a plausible bug
in the operator it is about, which TLC must catch. The mutants are:

- a cache shift that writes `recent_freed[5]`;
- a split that gives the right half one word too many;
- a cache hit that leaves the block in the cache;
- a free walk that ignores the flag, or that matches interior pointers;
- in the test framework:
  - a `memlist_find` that stops at a region starting at the pointer;
  - a `memlist_remove` that leaves `tail` on the removed object;
  - a tail fast path in `memlist_add_region` that tests `tail->start`;
- in the job queue:
  - a link one job too far;
  - an enqueue at the front;
  - a dequeue that leaves `rear` stale;
- in the hash table:
  - a new item without its value;
  - a `del_item` head case that leaves `next->prev` stale;
  - a `get_item` with the `strcmp` test inverted;
- in the session:
  - a `check_payload` that looks at the terminator without consuming it;
  - a `receive_header` that returns -1 at EOF without setting
    `connection_close`.
- in the file system:
  - `alloc_dir_blocks` writing `END` one entry too far;
  - a parent update that compares the name with the whole path and empties nothing;
  - a read walk without the `0xfffd` fix-up;
  - an unlink loop that stops before the block holding `END`.
- in the containers:
  - a growth that allocates a slot but leaves `actualSize` unchanged;
  - an `operator++` whose bucket loop starts at the current bucket;
  - a growth copy that stops one item early;
  - a stack copy whose `nodeAmount` is one short;
  - a shallow stack copy;
  - a "list" without the destructor of `copyStack`.
- in the shell:
  - a parent that skips its close loop in `exec_pipe`;
  - a pipeline part that `dup2`s the write end of the previous pipe as stdin.

`DiyVector::erase` assigns `arrayPtr[index]` on every round of its loop
instead of `arrayPtr[i]`. Erasing any element but the last two duplicates one
item and loses another. The tester erases only the middle of three items,
where the single move is right. No run checks the vector against a sequence
yet; the hazard list records it.

`sfs_mkdir` allocates two blocks and never writes the directory's entry, so
every mkdir leaks two blocks. `NoLeakedBlocks` would report that first in any
run that issues mkdir, so `sfs_race` issues only unlinks, and `sfs_seq` checks
properties that hold whatever mkdir leaks. As written, `sfs_mkdir`'s slot
search (`sfs.c:427`) compares a directory entry struct with
`SFS_BLOCKIDX_EMPTY` and does not compile. The model leaves the search out:
its result only decides whether mkdir returns 0 or -1, and no entry is
written either way.

## 4. Bounds and why they suffice

`MCAlloc` uses the following bounds:

- **Page size: 96 bytes**, which is 12 words. A page therefore holds several
  blocks, so splitting, reuse and growth across pages all happen. 12 is not 8,
  so whole fresh pages do not fall into the 8-word quirk of `get_data_size`.
  Blocks of exactly 8 words still arise by splitting, so the quirk is
  reachable (see the `DataPreserved` hazard).
- **Request sizes: {0, 8, 24, 56} bytes**, which are 1, 3 and 7 words after
  alignment. They cover:
  - the zero request;
  - requests that leave room to split, and requests that do not;
  - a request that needs most of a page.

  In `alloc` the direct realloc client uses {0, 8, 56}. That still takes both the grow path
  (1 to 7 words) and the split path (7 to 1 word), while keeping the run short.
  The violation runs keep 24, which the aliasing trace needs.
- **calloc counts: {0, 1}**, which cover the zero product.
- **Heap: 36 words, which is 3 pages.** The realloc violation runs use 24 words,
  which is 2 pages.
- **Two client slots**, enough for two owners to alias. Symmetry over the slots
  is sound because the slots are interchangeable model values.
- **Cache fill:** the 5-entry cache fills and evicts within these bounds. TLC
  explores the full depth: `alloc` has 309,551 distinct states over the four
  clients.
- **The harness clients** use all of {0, 8, 24, 56} and make at most 9 checked
  calls each. With two pointers, 9 calls alloc, free and realloc through every
  arrangement of two held regions: front, behind the tail, between and removed
  at either end. The client with realloc fails a check within 5 calls, both for
  the aliasing and for the lost data. Two region objects suffice,
  since a region is recorded only for a held pointer. The objects are
  interchangeable, so symmetry over them is sound: no check depends on which
  object it gets.

`Alloc` instantiates the size_t arithmetic of `AllocArith` with a 30-bit
size_t, in which the client's sizes never wrap.

`MCKVServer` uses the following bounds:

- **Three workers and four connections, two and two for the violations.**
  That is enough for jobs to queue behind busy workers, for a worker to be
  woken while another serves, and for the list to empty and refill.
- **Job ids are ordered numbers.** The FIFO check needs to tell them apart, so
  no symmetry is used.

`MCKVHashTable` uses the following bounds:

- **The sequential run: three keys and six requests.** Three SETs followed by
  DELs reach the middle, head, tail and only-item cases of `del_item`.
- **The concurrent runs: two workers, two keys and three requests.** That is
  enough for each race, whose traces have 7 to 10 steps.

The session part of `MCKVStore` uses the following bounds:

- **One worker, two connections.** Two connections are what the stale `errno`
  needs: one to set it, one to suffer it.
- **Scripts of up to two requests from SET (two values), GET, DEL and PING on
  one key, or one odd request.** Two requests let an answer be misplaced by
  one, and the odd requests (over-long line, empty line, unknown method,
  RESET, cut SET, unparsable length) reach every error path of
  `parse_header`, `receive_header` and `set_request`. Keys only decide the
  table's answer, so one key suffices; two values tell two SETs apart.
- **A 3-bit size_t.** The wrap of `len` at EOF needs only that `-1` becomes
  `SIZE_MAX`; the width does not change the control flow.

`MCSfsDisk` uses the following bounds:

- **Six data blocks, two root slots, two slots per directory.** Two images:
  one with a fragmented file (blocks 2 then 4), a directory holding a file and
  an empty file, and a free block; one with a file whose chain runs backwards
  (5 then 3) and two separate free blocks. mkdir then finds a free pair in some
  states and none in others.
- **Six requests, up to five callbacks.** Four removals empty the directory and
  remove it; mkdir goes to the root and to the directory.
- **Two threads and two unlinks for the race.** The kernel's locks allow exactly
  this overlap: the two parents differ.

`MCPrograms` uses the following bounds:

- **Eight calls per behaviour** (four for `hs_rehash`, whose trace needs three).
- **HashSet: elements 0 to 3, two initial buckets, at most eight.** The code
  starts with 32 buckets and rehashes at the 32nd element; two buckets reach
  the same code path at the second add, and 0 to 3 include elements whose
  bucket changes when the count doubles. `GarbageCounts` = {0, 64} covers an
  uninitialised count that rehashes late and one that rehashes every add.
- **Vector: two values, at most three items.** That reaches growth, a
  non-full array after `popBack`, inserts at both ends and in the middle, and
  erases at every position.
- **Stacks: two values, depth three, nine addresses.** "list" needs two copies
  of a full stack besides the stack itself.
- **Shell: scripts of up to two lines from six parsed lines, nine process ids,
  two pipes of capacity one, `gen` writing two items.**
  - The six lines cover:
    - two- and three-part pipelines;
    - a reader that exits early;
    - a background job;
    - a subshell that runs a builtin and exits;
    - a failed `execvp` followed by another command.
  - Two lines let a process from one line outlive it into the next, which the
    `sh_reap` trace needs.
  - Capacity one makes a writer block on a full pipe.
  - Two items let `cat` and `gen` interleave with their readers.
  - Nine pids are never exhausted: ten pids give the same 147,225 shell
    states. Fork therefore never fails for lack of a pid.

## 5. Fairness

No liveness is claimed for the allocator. It is a library of single-threaded
calls: every call terminates, since each walk is bounded by `sbrk(0)`, and
nothing must eventually happen between calls. The allocator's specifications therefore
carry no fairness. A test program that failed a check has exited, and one whose
test returned has nothing left to do. Both are final states, and the model
makes them explicit stuttering steps (`Exited`, `TestReturned`), so deadlock
stays checked for everything else.

`KVServer.FairSpec` assumes weak fairness of each worker's steps. A worker
thread that can run eventually runs. `main` gets no fairness: it waits in
`accept()` for clients, and nothing obliges a client to connect. That is why
the lost-wakeup trace, which ends with no more connections, is a real
behaviour. The server may also idle with no client left, so the kvstore and
hash-table runs say `CHECK_DEADLOCK FALSE`.

`MCKVStore.FairSpec` assumes weak fairness of the whole next-state relation;
in a behaviour only one part moves, and in the session part that is the one
worker thread, which the scheduler keeps running while it can. The session's
clients always send their whole script and then close or leave, so a read
never blocks for ever; `ConnectionsClosed` is checked under this assumption.
A client that connects and stays silent would hold the worker for ever,
because `connection_ready` ignores the select timeout; that is recorded as a
hazard.

No liveness is claimed for the file system: every callback is a bounded loop,
and a mounted file system may wait forever for the next callback. Its runs
therefore say `CHECK_DEADLOCK FALSE`.

The container programs make one call at a time and every call terminates, so
no fairness is assumed and no liveness is claimed. Behaviours end after
`MaxOps` calls, so their runs say `CHECK_DEADLOCK FALSE`.

The shell's `FairSpec` assumes weak fairness of each process's steps,
`WF_shVars(ShStep(Sh!Proc(p)))`. The kernel's scheduler keeps running every
runnable process, and a process blocked in `read`, `write` or `wait` is not
enabled in the model. `Terminates` is checked under this fairness. A script
ends, so every behaviour stops once all processes have exited, and the
`programs` run says `CHECK_DEADLOCK FALSE`.

## 6. Not modelled (yet) and why

Allocator:

- **The raw bits of the descriptor.** The record stands for them. A later
  module can check the bit codec with `Bitwise`.
- **`myfree` before any allocation.** It dereferences NULL (alloc.c:81–89),
  which is undefined behaviour with no state to continue from.
- **The `perror` messages and `check_meta`/`dump_heap`.** They are output only.
- **How far the heap grows.** `expand_heap` and `split_block` move `first_free`
  past free blocks, so the heap can grow while a free block fits. The safety
  properties hold either way, and no run asks the efficiency question.
- **Requests within a page of SIZE_MAX.** There `align` and
  `page_request * PAGE_SIZE` wrap. `AllocArith` keeps the wrap, but the client
  sizes stay far below it. The hazards in `PROJECT.json` record the case.
- **The `memset` of `mycalloc`.** The bytes of blocks are not modelled. `kept`
  and `want` track only how much of an allocation's data survives.

Test framework:

- **Memory contents.** `region_check_data`, `memlist_check_data`, the calloc
  zero check, the data tags of `get_data` and the poisoning in `do_brk` need
  the heap byte by byte. Only the retention check of `checked_realloc` is
  kept, by how many words `myrealloc` copied. With a correct allocator the
  other checks see intact data: the only writes into a held region come from
  aliasing, which `memlist_add_region` reports first.
- **`zero_sized_allocs`.** `mymalloc(0)` returns NULL, so the list stays empty
  and its refcounts never move. `memlist_find_overlap` has a bug: at line 83 it
  stops at the first region that ends before the new one, and at line 82 it
  returns the new region rather than the one it overlaps. It is called only on
  `zero_sized_allocs` and when brk is lowered, which this allocator never does,
  so the bug cannot be reached here.
- **`freed_allocs` and `memlist_find_overlap_unsorted`.** Only individual tests
  read them. Region objects leave the model when they are taken off `allocs`.
- **The system-allocator mode (`-l`), `mprotect`, the brk counters, option
  parsing and statistics.** They are configuration and reporting, and no check
  of the wrappers reads them.

kvstore:

- **Bodies of the queue's critical sections.** Each is atomic, and the mutex
  is implicit.
- **`get_item`'s walk.** It is one step, so it cannot see a list being
  relinked mid-walk.
- **The hash function.** All keys share one bucket, which is where requests
  interfere.
- **Socket I/O in `KVHashTable`.** There the payload is read in one step;
  `KVSession` models the stream, the payload loop and `check_payload`.
- **DUMP, EXIT and SETOPT.** They write a file, exit the process or set a
  socket option; no property is about them, and none shares state with the
  request loop except through the table.
- **GET or DEL without a key.** `get_item(NULL)` dereferences NULL in `hash`,
  a crash a direct test shows.
- **A `select` error in `connection_ready`.** `recv_request` then returns -1
  with the previous request's key freed but not reset, and `main_job` frees it
  again. With a valid descriptor and no signal handlers `select` does not fail,
  so the path is not explored.
- **`server_init`, `accept` and option parsing.** Setup code with no state the
  properties read.
- **Memory of a freed item.** It keeps its old fields. Reuse of that memory by
  a later `calloc` is not modelled.

File system:

- **File contents, getattr and readdir.** Only the chains that hold the data
  are modelled. getattr and readdir change nothing.
- **Name lengths.** `ENAMETOOLONG` depends on the characters of a name, which
  are model values here.
- **Reads past the file size, reads of empty files, bytes copied into `buf`.**
  The kernel does not issue them, and the model records which blocks are read,
  not how many bytes.
- **`get_entry` as several disk reads.** The walk is one step, and the kernel's
  locks keep the directories on the path stable.

Other programs:

- **Shell: `exec_redirect`.** It backs up descriptors, opens files and
  restores them. It also closes an uninitialised `fd_in` or `fd_out`, whose
  effect depends on garbage. A hazard records this.
- **Shell: fork failure, SIGINT, `set`/`unset`/`env` output and the working
  directory.** Nine pids never run out, and `cd` changes no state that a
  property reads.
- **Shell: the lexer and parser.** The model starts from parsed trees.

Containers:

- **`size()` and `at()`.** They read only. `size()` returns `elementCount`,
  which `remove` never decrements: a direct test shows the drift, and no
  property here depends on it.
- **`HashSet`'s move assignment and the destructors of `HashSet` and
  `DiyVector`.** They are defaulted or free memory nothing reads afterwards.
- **Text parsing of the stack programs.** Input is abstracted to command kinds;
  a non-number after "push" and an unknown command both become `Reject`.

## 7. Plan for the following work

1. The test framework's memory contents: a byte (or word) map with the data
   tags, so that `region_check_data` and the calloc zero check become real
   checks, and the tests of `tests.c` (`test_locality`, `test_realloc_opt`) as
   scripted clients.
2. `AllocDescriptor`: the bit codec of `check_free`, `set_free`, `set_inuse`,
   `set_descriptor`, checked against the record abstraction with `Bitwise`.
3. `AbstractHeap`: a spec of a heap as a set of disjoint owned ranges. `Alloc`
   with realloc disabled is shown to refine it, by `INSTANCE ... WITH` mapping
   the in-use blocks to ranges.
4. Let several `KVSession` workers share `KVHashTable`'s bucket, and an idle
   client show the ignored select timeout. Let `main_job` of `KVServer` run its requests on `KVHashTable` (today
   `MCKVStore` only puts the two side by side). Give `get_item`'s walk one step per link.
5. The djb2 `hash` as an operator with 32-bit wrap, checked against its
   closed form over short keys.
6. `SfsDisk` is done. Its next step is an abstract file tree that
   `SfsDisk` refines for unlink and rmdir, and the `get_entry` walk as one step
   per disk read.
7. The containers are done. Next: a sequence specification that `DiyVector`
   is checked against (the `erase` bug), once a run is free.
8. Shell: `exec_redirect`, with the descriptor table as a function from fd
   numbers to open files. Also a property that bounds how often a command of
   the script runs, which the failed-`execvp` duplicate shell breaks.
