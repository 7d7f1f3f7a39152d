------------------------------ MODULE SfsDisk ------------------------------
(***************************************************************************)
(* The metadata of the SFS FUSE file system (src/filesystem/sfs.c): the    *)
(* block table, the root directory and the directory blocks, and the      *)
(* callbacks that change them (sfs_unlink, sfs_rmdir, sfs_mkdir), run by   *)
(* the threads of libfuse's multi-threaded loop (fuse_main without -s).   *)
(*                                                                         *)
(* Every disk_read and disk_write of a table, a parent directory or a      *)
(* block is one step: a callback copies the whole block table or parent    *)
(* directory into a local buffer, edits the buffer and writes it back.     *)
(* get_entry's path walk is one step.  The kernel takes the lock of the    *)
(* parent directory (and of the victim, for rmdir) around each callback,  *)
(* so two callbacks on the same directory never overlap; the model keeps  *)
(* that lock and nothing else serialises the callbacks.                    *)
(*                                                                         *)
(* Data blocks are 0..NBlocks-1; a blockidx_t is 1 + the block number, 0   *)
(* (EMPTY) marks a free block and 0xfffe (END) the end of a chain, all in *)
(* 16-bit arithmetic.  A directory's 16 entries fill its two blocks; the  *)
(* model stores them under its first block.  File contents are not        *)
(* modelled: only the chains that hold them.                               *)
(***************************************************************************)
EXTENDS Integers, Sequences, FiniteSets, Functions

CONSTANTS
    Threads,      \* libfuse worker threads
    NBlocks,      \* data blocks (SFS_BLOCKTBL_NENTRIES)
    RootSlots,    \* SFS_ROOTDIR_NENTRIES
    DirSlots,     \* SFS_DIR_NENTRIES
    Names,        \* file names (model values)
    NoName,       \* the empty file name of an unused entry
    Requests,     \* callbacks the kernel may issue: [op, path]
    Images,       \* disk images the file system may be mounted on
    MaxOps,       \* bound on the number of callbacks
    Crashes       \* whether the process may die and be remounted

Blocks == 0..NBlocks - 1
RootSlot == 0..RootSlots - 1
DirSlot == 0..DirSlots - 1

EMPTY == 0                        \* SFS_BLOCKIDX_EMPTY
END == 65534                      \* SFS_BLOCKIDX_END
U16(x) == x % 65536               \* blockidx_t arithmetic
BlockIdx == {EMPTY, END} \cup 1..NBlocks

ROOT == -1                        \* location of the root directory

Entry == [name : Names \cup {NoName}, first : BlockIdx, dir : BOOLEAN]
EmptyEntry == [name |-> NoName, first |-> EMPTY, dir |-> FALSE]
EmptyDir == [s \in DirSlot |-> EmptyEntry]

\* A table write at index i; outside the table it writes past the stack
\* array, which TypeOK reports as a table with a larger domain.
Put(t, i, v) == [j \in DOMAIN t \cup {i} |-> IF j = i THEN v ELSE t[j]]

VARIABLES
    table,        \* block table on disk
    root,         \* root directory entries on disk
    data,         \* directory entries held in data blocks, by first block
    pc, req,      \* per thread: step and current callback
    tgt,          \* per thread: the sfs_entry get_entry returned
    ploc, pbuf,   \* per thread: parent location and its copy of entries
    tbuf,         \* per thread: its copy of the block table
    ops,          \* callbacks started
    image         \* the image mounted (history, for the properties)

vars == <<table, root, data, pc, req, tgt, ploc, pbuf, tbuf, ops, image>>

-----------------------------------------------------------------------------
(* Paths and lookups                                                       *)

Parent(path) == SubSeq(path, 1, Len(path) - 1)
Last(path) == path[Len(path)]                        \* get_path_name

\* The index of the first entry named n (the loops stop at the first hit).
FirstNamed(es, n) ==
    LET hits == {i \in DOMAIN es : es[i].name = n}
    IN  IF hits = {} THEN -1 ELSE CHOOSE i \in hits : \A j \in hits : i <= j

\* get_entry on the disk state r (root) and d (data): the entry of path, or
\* EmptyEntry for -ENOENT.  A second component is looked up in the two
\* blocks of the first one (first_block - 1).
LookupIn(r, d, path) ==
    LET i == FirstNamed(r, path[1])
    IN  IF i = -1 THEN EmptyEntry
        ELSE IF Len(path) = 1 THEN r[i]
        ELSE LET es == d[U16(r[i].first - 1)]
                 k  == FirstNamed(es, path[2])
             IN  IF k = -1 THEN EmptyEntry ELSE es[k]

Lookup(path) == LookupIn(root, data, path)
Exists(path) == Lookup(path).name # NoName

\* get_parent_info: where the entries of the parent directory are.
ParentLoc(path) ==
    IF Len(path) = 1 THEN ROOT ELSE U16(Lookup(Parent(path)).first - 1)

EntriesAt(loc) == IF loc = ROOT THEN root ELSE data[loc]

\* Mutant: the name is compared with the whole path and never matches.
UnnamedWholePath(es, n) == es

\* Empty the first entry of es named n (the loop in sfs_unlink/sfs_rmdir).
Unnamed(es, n) ==
    LET i == FirstNamed(es, n)
    IN  IF i = -1 THEN es ELSE [es EXCEPT ![i] = EmptyEntry]

-----------------------------------------------------------------------------
(* Block chains                                                            *)

\* The blocks of the chain starting at blockidx b in table t, in order; a
\* link to EMPTY or past the table ends the chain with that index.
RECURSIVE ChainIn(_, _, _)
ChainIn(t, b, fuel) ==
    IF b = END \/ fuel = 0 THEN <<>>
    ELSE LET blk == U16(b - 1)
         IN  IF blk \notin DOMAIN t THEN <<blk>>
             ELSE <<blk>> \o ChainIn(t, t[blk], fuel - 1)

Chain(t, b) == ChainIn(t, b, NBlocks + 1)

\* Mutant: the loop stops before freeing the block that holds END.
RECURSIVE FreeChainKeepLast(_, _, _)
FreeChainKeepLast(t, first, fuel) ==
    LET prev == U16(first - 1)
    IN  IF first = END \/ fuel = 0 \/ prev \notin DOMAIN t THEN t
        ELSE IF t[prev] = END THEN t
        ELSE FreeChainKeepLast([t EXCEPT ![prev] = EMPTY], t[prev], fuel - 1)

\* sfs_unlink's loop: free every block of the chain starting at first.
RECURSIVE FreeChain(_, _, _)
FreeChain(t, first, fuel) ==
    LET prev == U16(first - 1)
    IN  IF first = END \/ fuel = 0 THEN t
        ELSE IF prev \notin DOMAIN t THEN Put(t, prev, EMPTY)
        ELSE FreeChain([t EXCEPT ![prev] = EMPTY], t[prev], fuel - 1)

\* Mutant: the index is not decremented, the first two blocks after
\* the directory's first one are freed.
RmdirFreeNoDecrement(t, first) ==
    Put(Put(t, first, EMPTY), first + 1, EMPTY)

\* sfs_rmdir: free the directory's two blocks.
RmdirFree(t, first) ==
    LET fb == U16(first - 1)
    IN  Put(Put(t, fb, EMPTY), fb + 1, EMPTY)

\* Mutant: END written one entry too far.
AllocDirBlocksEndOffByOne(t, i) == Put(Put(t, i, i + 2), i + 2, END)

\* alloc_dir_blocks' writes: block i links to block i + 1, which ends
\* the chain.
AllocDirBlocks(t, i) == Put(Put(t, i, i + 2), i + 1, END)

\* alloc_dir_blocks' search: the first index i with blocks i and i + 1
\* free, or -1.
FreePair(t) ==
    LET hits == {i \in 0..NBlocks - 2 : t[i] = EMPTY /\ t[i + 1] = EMPTY}
    IN  IF hits = {} THEN -1 ELSE CHOOSE i \in hits : \A j \in hits : i <= j

-----------------------------------------------------------------------------
(* sfs_read's walk over the block table                                    *)

\* Mutant: the END fix-up after following a link is missing.
NextBlockNoEndFix(t, b) == U16(t[b] - 1)

\* Follow the link of block b: blockidx - 1, where END - 1 = 0xfffd is
\* turned back into END.
NextBlock(t, b) ==
    LET n == U16(t[b] - 1)
    IN  IF n = 65533 THEN n + 1 ELSE n

\* The loop that skips offset / SFS_BLOCK_SIZE blocks.
RECURSIVE SkipBlocks(_, _, _)
SkipBlocks(t, b, k) ==
    IF k = 0 \/ b \notin DOMAIN t THEN b ELSE SkipBlocks(t, NextBlock(t, b), k - 1)

\* The blocks read from b until END; a block past the table is read
\* (disk_read fails on it) and ends the walk.
RECURSIVE ReadFrom(_, _, _)
ReadFrom(t, b, fuel) ==
    IF b = END \/ fuel = 0 THEN <<>>
    ELSE IF b \notin DOMAIN t THEN <<b>>
    ELSE <<b>> \o ReadFrom(t, NextBlock(t, b), fuel - 1)

\* The blocks sfs_read reads, in order, for a file whose entry has
\* first_block first, at an offset in its k-th block (a partial first
\* block is read, then its link followed, as for a whole one).
ReadBlocks(t, first, k) ==
    ReadFrom(t, SkipBlocks(t, U16(first - 1), k), NBlocks + 1)

-----------------------------------------------------------------------------
(* Mounted images                                                          *)
(* An image is a set of objects [path, slot, dir, blocks]: the entry at   *)
(* slot of the parent directory and the data blocks of its chain; a       *)
(* directory has the two consecutive blocks alloc_dir_blocks gives.       *)

FirstOf(o) == IF o.blocks = <<>> THEN END ELSE o.blocks[1] + 1
EntryOf(o) == [name |-> Last(o.path), first |-> FirstOf(o), dir |-> o.dir]

TableOf(img) ==
    [b \in Blocks |->
        IF \E o \in img : \E i \in DOMAIN o.blocks : o.blocks[i] = b
        THEN LET ob == CHOOSE x \in img : \E i \in DOMAIN x.blocks : x.blocks[i] = b
                 n  == CHOOSE i \in DOMAIN ob.blocks : ob.blocks[i] = b
             IN  IF n < Len(ob.blocks) THEN ob.blocks[n + 1] + 1 ELSE END
        ELSE EMPTY]

SlotsOf(img, path, slots) ==
    [s \in slots |->
        IF \E o \in img : Parent(o.path) = path /\ o.slot = s
        THEN EntryOf(CHOOSE o \in img : Parent(o.path) = path /\ o.slot = s)
        ELSE EmptyEntry]

DataOf(img) ==
    [b \in Blocks |->
        IF \E o \in img : o.dir /\ o.blocks[1] = b
        THEN SlotsOf(img, (CHOOSE o \in img : o.dir /\ o.blocks[1] = b).path, DirSlot)
        ELSE EmptyDir]

-----------------------------------------------------------------------------
(* The callbacks                                                           *)

PC == {"idle", "lookup", "empty", "pread", "pwrite", "tread", "twrite", "alloc"}

Init ==
    /\ image \in Images
    /\ table = TableOf(image)
    /\ root = SlotsOf(image, <<>>, RootSlot)
    /\ data = DataOf(image)
    /\ pc = [t \in Threads |-> "idle"]
    /\ req = [t \in Threads |-> CHOOSE r \in Requests : TRUE]
    /\ tgt = [t \in Threads |-> EmptyEntry]
    /\ ploc = [t \in Threads |-> ROOT]
    /\ pbuf = [t \in Threads |-> root]
    /\ tbuf = [t \in Threads |-> table]
    /\ ops = 0

\* The kernel's locks for a callback: the parent directory, and the victim
\* of an rmdir.
Locks(r) == {Parent(r.path)} \cup (IF r.op = "rmdir" THEN {r.path} ELSE {})

LocksFree(t, r) ==
    \A u \in Threads \ {t} : pc[u] # "idle" => Locks(req[u]) \cap Locks(r) = {}

Goto(t, l) == pc' = [pc EXCEPT ![t] = l]

\* The kernel issues a callback on a thread of the loop.
Start(t, r) ==
    /\ pc[t] = "idle" /\ ops < MaxOps /\ LocksFree(t, r)
    /\ req' = [req EXCEPT ![t] = r]
    /\ ops' = ops + 1
    /\ Goto(t, "lookup")
    /\ UNCHANGED <<table, root, data, tgt, ploc, pbuf, tbuf, image>>

\* get_entry at the head of each callback: unlink and rmdir return its
\* error, mkdir returns -EEXIST when the path exists.
GetEntry(t) ==
    LET r == req[t]
        e == Lookup(r.path)
    IN  /\ pc[t] = "lookup"
        /\ IF r.op = "mkdir"
           THEN Goto(t, IF e.name # NoName THEN "idle" ELSE "tread")
           ELSE Goto(t, IF e.name = NoName THEN "idle"
                        ELSE IF r.op = "rmdir" THEN "empty" ELSE "pread")
        /\ tgt' = [tgt EXCEPT ![t] = e]
        /\ UNCHANGED <<table, root, data, req, ploc, pbuf, tbuf, ops, image>>

\* sfs_rmdir reads the directory and returns -ENOTEMPTY if an entry has a
\* first block.
RmdirCheck(t) ==
    /\ pc[t] = "empty"
    /\ Goto(t, IF \E s \in DirSlot : data[U16(tgt[t].first - 1)][s].first # EMPTY
               THEN "idle" ELSE "pread")
    /\ UNCHANGED <<table, root, data, req, tgt, ploc, pbuf, tbuf, ops, image>>

\* get_parent_info and the disk_read of the parent's entries.
ParentRead(t) ==
    LET loc == ParentLoc(req[t].path)
    IN  /\ pc[t] = "pread"
        /\ ploc' = [ploc EXCEPT ![t] = loc]
        /\ pbuf' = [pbuf EXCEPT ![t] = EntriesAt(loc)]
        /\ Goto(t, "pwrite")
        /\ UNCHANGED <<table, root, data, req, tgt, tbuf, ops, image>>

\* The entry named get_path_name(path) is emptied in the copy, and the copy
\* written back over the parent.
ParentWrite(t) ==
    LET es == Unnamed(pbuf[t], Last(req[t].path))
    IN  /\ pc[t] = "pwrite"
        /\ IF ploc[t] = ROOT THEN root' = es /\ UNCHANGED data
                             ELSE data' = [data EXCEPT ![ploc[t]] = es] /\ UNCHANGED root
        /\ Goto(t, "tread")
        /\ UNCHANGED <<table, req, tgt, ploc, pbuf, tbuf, ops, image>>

\* disk_read of the whole block table into the thread's copy.
TableRead(t) ==
    /\ pc[t] = "tread"
    /\ tbuf' = [tbuf EXCEPT ![t] = table]
    /\ Goto(t, IF req[t].op = "mkdir" THEN "alloc" ELSE "twrite")
    /\ UNCHANGED <<table, root, data, req, tgt, ploc, pbuf, ops, image>>

\* sfs_unlink frees the chain, sfs_rmdir the directory's two blocks, in the
\* copy; the whole copy is written back over the table.
TableWrite(t) ==
    /\ pc[t] = "twrite"
    /\ table' = IF req[t].op = "unlink"
                THEN FreeChain(tbuf[t], tgt[t].first, NBlocks + 1)
                ELSE RmdirFree(tbuf[t], tgt[t].first)
    /\ Goto(t, "idle")
    /\ UNCHANGED <<root, data, req, tgt, ploc, pbuf, tbuf, ops, image>>

\* The rest of sfs_mkdir: alloc_dir_blocks writes the two table entries
\* and zeroes the directory's blocks; get_parent_info and the search for a
\* free parent slot follow, but no entry is ever written.
MkdirAlloc(t) ==
    LET i == FreePair(tbuf[t])
    IN  /\ pc[t] = "alloc"
        /\ IF i = -1 THEN UNCHANGED <<table, data>>
           ELSE /\ table' = AllocDirBlocks(table, i)
                /\ data' = [data EXCEPT ![i] = EmptyDir, ![i + 1] = EmptyDir]
        /\ Goto(t, "idle")
        /\ UNCHANGED <<root, req, tgt, ploc, pbuf, tbuf, ops, image>>

\* The process dies (disk_read and disk_write exit(1) on an I/O error, or it
\* is killed) in the middle of callbacks and the image is mounted again: the
\* disk keeps every write made so far, the threads' copies are lost.
CrashRemount ==
    /\ Crashes
    /\ \E t \in Threads : pc[t] # "idle"
    /\ pc' = [t \in Threads |-> "idle"]
    /\ UNCHANGED <<table, root, data, req, tgt, ploc, pbuf, tbuf, ops, image>>

Thread(t) ==
    \/ \E r \in Requests : Start(t, r)
    \/ GetEntry(t)
    \/ RmdirCheck(t)
    \/ ParentRead(t)
    \/ ParentWrite(t)
    \/ TableRead(t)
    \/ TableWrite(t)
    \/ MkdirAlloc(t)

Next == (\E t \in Threads : Thread(t)) \/ CrashRemount

Spec == Init /\ [][Next]_vars

-----------------------------------------------------------------------------
(* Properties                                                              *)

TypeOK ==
    /\ table \in [Blocks -> BlockIdx]
    /\ root \in [RootSlot -> Entry]
    /\ data \in [Blocks -> [DirSlot -> Entry]]
    /\ pc \in [Threads -> PC]
    /\ req \in [Threads -> Requests]
    /\ tgt \in [Threads -> Entry]
    /\ ops \in 0..MaxOps

\* unlink, rmdir and mkdir never change the chain of another file or
\* directory: every object of the mounted image whose path still resolves
\* has the blocks it had on the image (sfs_unlink's chain walk, sfs_rmdir's
\* two-block free and alloc_dir_blocks' writes touch no other chain).
SurvivorsIntact ==
    \A o \in image :
        Exists(o.path) => Chain(table, Lookup(o.path).first) = o.blocks

\* An unlink or rmdir that completes its table write has freed every block
\* of the chain it found in its copy of the table (sfs_unlink's loop,
\* sfs_rmdir's two writes); a crash before that write frees nothing.
RemovalFrees ==
    [][\A t \in Threads :
         (pc[t] = "twrite" /\ pc'[t] = "idle" /\ ~CrashRemount)
            => \A b \in Range(Chain(tbuf[t], tgt[t].first)) \cap DOMAIN table' :
                   table'[b] = EMPTY]_vars

\* sfs_read reads the blocks of a file's chain from the block its offset
\* falls in to the block holding END, for every offset inside the file
\* (the kernel reads no further than the size getattr reports, and never
\* reads an empty file).
ReadFollowsChain ==
    \A o \in image :
        (~o.dir /\ Exists(o.path)) =>
            LET first == Lookup(o.path).first
                c == Chain(table, first)
            IN  \A k \in 0..Len(c) - 1 : ReadBlocks(table, first, k) = SubSeq(c, k + 1, Len(c))

\* The blocks the live entries own: the chains of the root's entries and of
\* the entries of the root's directories.
Owned ==
    LET live == {root[i] : i \in RootSlot} \cup
                {data[U16(root[i].first - 1)][s] : i \in {j \in RootSlot : root[j].dir}, s \in DirSlot}
    IN  UNION {Range(Chain(table, e.first)) : e \in {x \in live : x.name # NoName}}

\* When no callback is running, every block the table marks in use belongs
\* to a live file or directory: a block freed by unlink or rmdir stays free.
NoLeakedBlocks ==
    (\A t \in Threads : pc[t] = "idle") =>
        \A b \in Blocks : table[b] # EMPTY => b \in Owned

=============================================================================
