# TLA+ models of the UCLA CS111 labs

This directory holds TLA+ modules that model the programs of this repository,
TLC configurations that check them on small instances, and proofs that TLAPS
checks for every size. The modules are translated from the source files named in
each header; `PROJECT.json` maps each definition to its lines.

## 1. The system

The repository is a series of separate programs.

| part | state | operations | interactions |
|---|---|---|---|
| shared counter, `lab2a/lab2_add.c` | `counter`, `m_lock`, `atomic_lock` | `add`, `add_ntimes`, `main` | threads share the counter under a mutex, a test-and-set word, compare-and-swap or nothing |
| sorted list, `lab2a/SortedList.c`, `lab2b/SortedList.c` | `next`, `prev` of every node | `insert`, `delete`, `lookup`, `length` | called by threads under a lock of the caller, or none |
| list with one lock, `lab2a/lab2_list.c` | the list, its lock, `random_keys`, `actual_keys` | `generateKey`, `listOperations`, `main` | one lock around a thread's whole life |
| partitioned list, `lab2b/lab2_list.c` | the sublists, a lock each, `lock_time` | `activateSync`, `deactivateSync`, `listOperations`, `main` | one lock per sublist and operation |
| terminal and shell, `lab1a/lab1a.c` | terminal mode, `shell_flag`, `buf`, two pipes, the child | `main`, `setupShell`, `readMode`, `pollMode`, `processedWrite`, `handleSignal`, `restoreTerminal` | program, shell, terminal |
| remote shell, `lab1b/lab1b-client.c`, `lab1b-server.c` | terminal mode, socket, two pipes, zlib streams | two poll loops, `restore` | client, server, shell |
| sensor, `lab4b/lab4b.c` | `run_flag`, scale, period, start/stop | sampling loop, command parser, button callback | stdin commands, a callback thread |
| networked sensor, `lab4c/lab4c_tcp.c`, `lab4c_tls.c` | as above, plus socket and SSL | as above | commands from, and reports to, a peer |
| ext2 summary, `lab3a/lab3a.c` | the inode it is at, the calls of `ind_blocks_summary` | bitmaps, inode table, directory block, recursive walk of index blocks | reads an image, writes rows |
| ext2 checker, `lab3b/lab3b.py` | eight tables of blocks, inodes and entries, `flaws` | a loop over the rows, then nine passes | reads the rows of lab3a |
| copy, `lab0/lab0.c` | two descriptors | redirect, copy, SIGSEGV handler | none |

`lab3a/lab3acop.c`, `lab3a/lab3acopy.c`, `lab3b/lab3b2.py`,
`lab3b/raghav_lab3b.py` and `lab2b/SortedList2.c` are drafts that no Makefile
builds. The shell and gnuplot scripts run and plot the programs; they are used
as statements of what the programs do.

What is hard in these programs, and what makes each part correct:

* **Counter.** `add()` reads the counter and writes it back in separate steps,
  and in the swap loop computes in `int` what it keeps in a `long long`.
  Correct: with any `--sync` each call adds exactly once, the threads exclude
  one another, the counter ends at 0, the process ends. Without: updates are
  lost, but never more than were made.
* **Sorted list.** An insertion is four stores and a deletion two. Correct:
  under a lock every operation looks like one step on a set, every list that
  nobody holds is a sorted doubly linked ring of exactly the elements that are
  in it, and the self-checks of the program do not fail.
* **Partitioned list.** The lengths are summed up one sublist at a time, while
  other threads insert into sublists already counted and delete from those to
  come; the size check must nevertheless accept every correct run. The locks
  are per sublist, so the operations of two threads must not touch a node of
  another sublist.
* **Lock measurement.** `lock_time` is global, the locks are not.
* **Keys.** Elements are found by key, so the draws must never repeat.
* **Shells.** Each end must notice that the other is gone, pass on every byte
  in order, drain what is still in a pipe, reap the shell, and restore the
  terminal; and the programs must not wait for one another for ever.
* **Sensor.** The button callback ends the loop from another thread; commands
  arrive in pieces of any length; the peer may close.
* **File system tools.** A recursive walk of index blocks, and tables that are
  filled in the order in which the rows arrive. Correct: every block number is
  visited once for each place that holds it, the tables do not depend on the
  order, what is reported is true, what is wrong is reported, and the exit
  status says so. An image is damaged by definition, so every number in it may
  be out of range.

The list of hazards, each at its line, is in `PROJECT.json`.

## 2. Modules

| module | what it is |
|---|---|
| `AddCounter` | `lab2_add.c`, every access to shared memory a step |
| `AtomicCounter` | what `add()` promises: one indivisible addition |
| `AddCounterInv`, `AddCounterProofs` | inductive invariants, proofs |
| `SortedList` | the four operations of both `SortedList.c`, every pointer access a step |
| `SortedListInv`, `SortedListProofs` | what holds of a list between two accesses of its only user; proofs |
| `KeyPool` | `generateKey()` and the loop that calls it |
| `Lab2aList`, `MCLab2aList` | `lab2a/lab2_list.c`, on the pointers of `SortedList` and the keys of `KeyPool` |
| `Lab2aListInv`, `Lab2aListProofs` | its inductive invariants, proofs, with those of `KeyPool` |
| `PartitionedList` | `lab2b/lab2_list.c` where a sublist is a set and an operation a step |
| `PartitionedListInv`, `PartitionedListProofs` | inductive invariant, proofs |
| `Lab2bList`, `MCLab2bList` | `lab2b/lab2_list.c` on the pointers of `SortedList`, implements `PartitionedList` |
| `Lab2bListInv`, `Lab2bListProofs` | its inductive invariant, proofs |
| `LockTime` | the measurement in `activateSync()` |
| `Sensor` | lab4b, lab4c over TCP and over TLS: one loop, three ways to read and to report |
| `RemoteShell`, `RemoteShellProofs` | a session of lab1b, with or without `--compress`: both `poll()` loops, the connection, the pipes, the shell; proofs |
| `Terminal`, `TerminalProofs` | lab1a: the set-up, both loops, the exit handler, the pipes, the shell; proofs |
| `Ext2Rows` | the summary of an image: the rows that lab3a writes and lab3b reads |
| `Ext2Summary` | lab3a: from an image to rows |
| `Ext2Checker` | lab3b: from rows to a report |
| `ReportProofs` | proofs about `Ext2Checker`, `Sensor` and `LockTime`, one after the other: what these report is right |
| `Ext2Tools`, `MCExt2` | lab3a followed by lab3b, against what the layout of ext2 says of the image; a family of images |

Variables have the names of the source where it has one. Conventions:

* `pc[t]` (or `th[t].pc`) is the next step of thread `t`. A thread is
  `"unborn"` until `pthread_create()` and `"returned"` when it may be joined.
  `main` and `t_main` are the loop of `main()` and its index; `outcome` is how
  the process ended (`"printed"`: the result line was written; `"sigfpe"`: the
  average was divided by zero operations; `"exit2"`: an error of a pthread
  call; `"corrupted"`: a self-check failed; `"segfault"`: `signalHandler()`).
* When the process ends all its threads stop: every action asks for
  `outcome = "running"`.
* Options are variables that `Init` chooses and no action changes, so one run
  covers a family of command lines.
* A lock is modelled by its owner. The test-and-set word of `lab2_add.c` is
  modelled as it is in the code, 0 or 1. A waiting thread's failed
  test-and-set changes nothing and is a stuttering step.
* `SortedList` writes the straight-line code as two tables, label to
  "register = base->field" and label to "base->field = register". The
  programs are compiled without `-O`, so this is the order of the accesses.
* A key is its rank under `strcmp()`; what is written in decimal is left out.
* `simpleHashAndMod()` is any function from elements to sublists: with more
  keys than the model has, all distributions occur among them. This is an
  over-approximation for programs with few elements.
* `Lab2bList` starts from any permutation of keys; that these are what
  `generateKey()` produces is `KeysFromPool`, checked and proved of
  `Lab2aList`, whose key loop is the same.
* Left out: `sched_yield()` (interleaving is unrestricted anyway), option
  parsing, clocks other than the lock measurement, printing, and the store
  buffers of x86, which a synchronised program cannot notice.

* In `RemoteShell` `cl` and `sv` are the two programs: where they are in the
  loop body, what is left of `buf`, and what `poll()` said that has not been
  handled yet, which may be stale by then. `processInput()` is a step per byte,
  and a full pipe or connection blocks it there. `"restore"` is `exit()`
  waiting for the shell. `hist` is auxiliary. The kernel is modelled as it is
  used: POLLHUP of a pipe comes with the end of the shell, a socket of which
  the peer is gone can be read at 0 bytes, a peer that closes with unread
  bytes causes ECONNRESET, and a write after an ordinary close sets EPIPE, so
  that the next one raises SIGPIPE. The client may be killed at any moment.
  The echo of keystrokes and `--log` are left out, and so is the time before
  the shell is forked.

  The connection carries units: without `--compress` one byte each, with it any
  number. zlib is modelled by what the loops around it depend on: the bytes of
  one `read()` become at best one unit, at worst more units than bytes
  (`Overhead`), of which `compressOutput()` writes as many as it has room for.
  The rest is held back (`c_held`, `s_held`) until the next `read()`, as the
  loop asks only whether input is left. If what is held back fills the room by
  itself the loop does not end (`"deflating"`), nor does that of
  `decompressInput()` when the units stand for more than its 1024 bytes
  (`"inflating"`): `Stuck`. The sizes are scaled, so these cases take three
  bytes and not hundreds. A compressed buffer is one `write()`, which waits for
  room for all of it, and the server does not look for ^C and ^D in it.

* In `Terminal` `prog` is the program, as `cl` and `sv` above, from
  `setupTerminal()` on: options may be wrong and `fork()` may fail. The display
  and the shell are two writes, so that the echo can be ahead by the byte that
  waits for room in the pipe. `EndEvents` is what the program tests for:
  `POLL_HUP` and `POLL_ERR` are codes of signals, which as bits mean POLLOUT and
  POLLPRI. `handleSignal()` exits, and every exit runs `restoreTerminal()`.

* `Ext2Summary` has an image as a record: the free numbers, the inode table, and
  each block read as block numbers (`words`) and as directory entries (`dir`).
  `scan` is the function that runs, `frames` the calls of
  `ind_blocks_summary`, and one step reads one word. `Signed` is `%d` of an
  unsigned number, `BlockAt` a byte address that wraps, and a read outside the
  image leaves what was in the variable, at first any of `Leftover`. A
  directory block with an entry of length 0 is printed for ever
  (`"endless"`). The rows have the columns that lab3b looks at.
* `Ext2Checker` reads one row a step and then runs one pass a step; `report`
  is the set of lines, `flaws` the exit status. An object in a list is the
  number of the row it was made from. An inode without blocks whose pointers
  are wanted raises IndexError (`"crashed"`).
* `Ext2Tools` says what is wrong with the image itself (`AllWrong`), by places:
  paths from an inode to a word. It knows the layout of ext2 and of the image
  (`firstData` is the block behind the inode table, `OffsetAt` the place of a
  block in its file), not the constants of the programs. `Looked` is what lab3b
  can see of it.

* In `Sensor` a command line is two to four pieces and `read()` may end
  between any two, so that lines get split, and what is left of one may be a
  command itself (`LOG OFF`). `PERIOD=` is parsed where the code looks for the
  digits: for the first line of a read the last digit counts, for a later one
  any value may be found. A TLS record is read from the socket as a whole, and
  what does not fit into `buf` waits in `ssl`, which `poll()` does not know.
  `unread` counts the lines the peer has not read, the ID line included; a
  write waits while they fill the connection (`MaxUnread`), and a peer that
  closes with lines unread resets it. `print_shutdown()` of lab4c_tls writes 19
  bytes to an array of 15, after which the process exits or aborts.
  `process_commands()` is one step; the button, of another thread, only stores
  a 0 that nobody overwrites, so it commutes with the parser.

The refinements:

* `AddCounter!AddIsAtomic`: the abstract `made[t]` is the calls that have
  returned, plus one while the thread is about to unlock. The addition takes
  effect at the store, or at the successful swap. Unsynchronised the abstract
  counter is unconstrained, but each call still counts once.
* `Lab2bList!ListsAreAtomic`: the abstract contents of a sublist are the nodes
  reached along the `prev` pointers. An insertion takes effect with
  `curr->prev = element`, a deletion with `next->prev = prev`, for which
  single steps the set of nodes on that chain changes.

## 3. Runs

| run | instance | question |
|---|---|---|
| `add_counter` | 2 threads, 2 iterations, every `--sync`, `int` of 6 values | is `add()` atomic, and the counter 0 in the end; what survives without a lock; does it end |
| `list_sync` | 2 threads, 2 elements each, 0 to 3 sublists, every hash | do the self-checks ever fail, is the content what the threads' progress says, are the sums bounded, does it end |
| `lock_time` | 3 threads, 2 acquisitions, 1 and 2 sublists, waits 0 and 1 | is the sum never too large; is it exact with one sublist |
| `lock_time_lost` | 2 threads, 2 sublists | expected violation: the sum reported is not the time waited |
| `list2a` | 2 threads, 2 elements each behind the lock, 0 or 1 unlocked, every order of keys | are the keys distinct; does a thread under the lock see only its own ring, without a fault; who unlinks what in a race |
| `lookup_unsync` | 2 threads, 1 element each, no lock | expected violation: lookup returns the list head, not NULL |
| `list2b_sync` | 2 threads, 2 elements each, 1 sublist, every order of keys | does the pointer program implement the atomic one, and is every free list a ring |
| `list2b_lists` | 2 threads, 1 element each, 2 sublists, every hash, every `--sync` | do the sublists stay apart even in a race; termination when locked |
| `remote_shell` | 3 keystrokes and 2 pieces of output of several kinds (together 3 with `--compress`), buffers of 2, pipes of 1, a connection of 1 (2 with `--compress`) | do both streams stay intact; who ends when, and is the last output shown |
| `terminal` | 3 keystrokes and 2 pieces of output of every kind, with and without `--shell`, buffer of 2, pipes of 1 | is the echo what the shell gets; is the terminal restored on every exit; what ends the program |
| `sensor` | 2 lines of 7 kinds, all three transports, a buffer of 6 pieces, a connection that holds 2 reports | are commands obeyed, logged, read and answered in order; do button, OFF and a lost peer end the program, and what if the peer does not read |
| `ext2` | 1932 images of 9 blocks and 5 inodes | are index blocks walked completely, the tables exact, which lines are false alarms, and are the flaws reported |

**Bounds.** Two threads suffice for every pairwise race, which is what locks,
swaps and the stores of a list are about; the sum of waits uses three because
a stale write can undo two others. Two elements per thread are the least with
which an insertion meets both an own and a foreign neighbour, and with which a
loop has a middle. Two sublists are the least that can be confused; three
leave one untouched. `IntHalf = 3` lets the four increments exceed an `int`,
so the wrap that takes 2^31 of them in the build does occur. `CountCap` stops
a count that would go round a corrupted ring for ever; no synchronised run
reaches it (5 is above the 4 elements). `MaxIterations` is the largest
`--iterations` among the options of a run.

In `remote_shell` the shell fills its output pipe and blocks, a chunk of two
holds a ^D before or after another key, and keys follow the end. A user who
types three keys is further ahead than the connection and the pipe hold: both
fill up, and client and server wait for each other (`BothWrite`), with and
without `--compress`. Of the sizes only their order matters to that; 1 and 2
stand for kilobytes. With one byte of room on the connection the buffer of the
server has one byte at a time, and more only with `--compress`; the proofs are
about all sizes. With `--compress` the instance is smaller (`PackedKeys`,
`PackedKinds`, `MaxPacked`), yet both deflate loops and the inflate loop of the
server are reached; for that of the client it would take a third piece of output
and a larger pipe. In `terminal` a pipe of one byte makes every second key
wait for the shell, and three keys follow a ^D or the end of the shell.
Deadlock is checked in every run but these two and `sensor`: a session that is
over or jammed, and a sensor that has ended, have no step left.

In `ext2` two direct pointers and two words to a block are the least with which
a loop has a middle and an offset goes wrong. The images are five sound ones
(subdirectory, links, trees of one, two and three levels, a sparse file, both
kinds of symbolic links, a device, a deleted file), each of them with one field
damaged, every field in turn and with numbers of every sort (0, metadata, in
use, free, `NumBlocks`, beyond, so large that they are printed as negative), and
those with two damaged pointers of one file, as it takes two for a duplicate.
In two of the sound images the metadata ends before or behind the constant of
lab3b, and one has a directory like `lost+found` and a deleted entry.

In `sensor` two short lines just fit into the buffer, and two longer ones do
not: one `read()` returns both, or ends inside one and leaves the rest in
`chan` or `ssl`. The connection holds the ID line and a report, so that every
program can be made to wait by a peer that does not read. It stops only when
the program has ended.

**Fairness.** Weak fairness of every thread and of `main()`: the kernel
schedules a thread that can run. Nothing is assumed about who wins a lock or a
swap. Termination holds nevertheless because every thread has finitely many
turns, so a lock that is contended is free for good in the end.
Unsynchronised list programs may go round a ring for ever, so `Termination`
of `Lab2bList` is claimed of synchronised runs.

Of the shell it is assumed, in `remote_shell` and `terminal`, that it reads what
it is sent, sees the end of its input and finishes what it has begun to write,
never that it writes; of the user nothing. `EofEnds` names the deadlocks of
lab1b (`Jam`): the server waits for a shell whose output it no longer reads,
server and shell both write to full pipes, or client and server both write to
a full connection (`BothWrite`), which `SessionEnds` excepts as well: the
client blocks on keys the server does not read, the server on output the client
does not read. With `--compress` the properties except the loops that do
not end (`Stuck`), and what deflate still holds back. `TailShown` is claimed
only of output that one `read()` returns: what exceeds `BUF_SIZE` at the end of
the shell is lost. `SessionEnds` begins with
the end of the shell, because a server whose client was killed goes on for
ever: it does not take a read of 0 bytes for the end.

lab1a does not see the end of the shell at all. `TypedEndEnds` says what ends it
nevertheless: a ^D, or a key that cannot be passed on; `EndsForAReason` that
nothing else does, so that no output is lost. Its `Jam` is that of one process.

Of the button and of the peer of the sensors nothing is assumed: it need not
send, read or close. A peer that stays and does not read makes a networked
sensor wait in the write of a report for ever (`Blocked`), deaf to OFF and to
all other commands, so `ShutdownLogged` and `InputRead` are claimed of runs in
which the sensor is again and again not `Blocked`. `InputRead` also
excepts the rest of a TLS record, which waits until another one arrives, and
`PeerGoneEnds` a stopped sensor, which writes nothing and so polls for ever.

**The blind spots of lab3b.** `OnlyKnownFalseAlarms` and `FlawsReported` are
claimed of `Reliable` images: index blocks lie inside the image, an inline
target is too short to reach the index pointers, no target has just the length
at which lab3b draws the line, and a directory has its entries in one block.
In these, what is printed is true of the layout of the image but for four kinds
of false alarms: a number printed as negative is also called RESERVED; where
the metadata does not end at block 8, which lab3b takes for the first data
block, metadata behind it is called UNREFERENCED and data below it RESERVED;
and an entry of inode 0, which ext2 leaves behind when a file is deleted, is
called INVALID. A line about a duplicate gives the offset 0 for every direct
pointer, whatever its place (`AsPrinted`); the other offsets are right. What
is wrong is printed, except for what `Looked` leaves out of `AllWrong`: a block
number equal to `num_blocks`; the blocks about which the constant 8 errs; the
last inode; invalid, reserved and duplicate numbers in index blocks (for which
the code makes an object and drops it); the
`..` of any directory but the root; and a duplicate whose large number is
negative in an INODE row and not in an INDIRECT row. Of an image whose index
pointer leads outside, only the exit status is claimed. The exit status is
that of the lines printed, of which duplicates, wrong direct pointers and the
`..` of the root do not count: `print_duplicate()` assigns a variable of its
own.

**What the expected violations show.** They quote the repository:
`lab2b_list.gp` calls the eighth column the wait-for-lock time, but
`lock_time +=` is not protected when there are several sublists;
`lab2a/SortedList.h` promises NULL from a failed lookup.

## 4. Proofs

For every number of threads, iterations, sublists and elements, every set of
waits, every size of a buffer or pipe, and every width of `int`. The assumptions
are those of the modules: the numbers are naturals, and buffers and pipes hold
at least one byte. `RemoteShell` also assumes that with `--compress` the
connection and the output buffer of `inflate()` hold what one `read()` returns
(`PackedSize` and `OutSize` are at least `BufSize`): `BUF_SIZE` is 256, the
buffer has 1024 bytes, and a connection more. Bounds
of a model, such as `MaxTyped`, are any numbers in the theorems.

* `AddCounterProofs` (types, exclusion, final zero, race bound, refinement). The
  properties are not inductive: that the counter is 0 after the join says
  nothing of the steps before. `AddCounterInv!IInv` adds who may be where
  (`ControlInv`, `MainInv`), that the lock is held by the critical thread and
  the sum in its register is one addend ahead of the counter (`LockInv`), that
  the swap loop keeps the counter an `int` (`CasInv`), and a ledger: partial
  sums, over the threads, of what their committed calls add up to, the last of
  which is the counter up to whole wraps. A sum over a set of threads would
  need induction; the partial sums are a function whose defining equations are
  part of the invariant, and a step shifts those above its thread by one. The
  final counter is then a multiple of 2^32 within the range of an `int`.
  Without a lock there is no ledger; `RaceInv` bounds the counter by the
  cardinalities of the sets of calls that have returned, and a stale sum in a
  register by one more, in the direction of its addend.
* `PartitionedListProofs` (types, no false alarm, exclusion, size bounds,
  contents).
  `ContentsInv` says that each sublist holds exactly the elements whose
  threads' progress says so, and `SizeInv` bounds a half-finished sum of
  lengths from below by the thread's own elements in the sublists passed and
  from above by all elements that hash to them. That each thread's check
  accepts the sum follows when all sublists are passed.
* `SortedListProofs` (one operation of a process that has the list to itself,
  any number of elements). `SortedListInv!Inside` is the invariant between two
  accesses. That a list is a ring is said of each link by itself (`Adjacent`:
  the neighbours are in order, and no element belongs between them), so that a
  store changes one link and leaves the others alone. Each label says which
  links are not right yet, what the registers hold, and that the walk has not
  gone too far (`PassedBy`). Keys are distinct (`KeysApart`), so that lookup ends
  at the element itself. `OperateAdvances`: every access keeps this, with the
  elements `After` it, which change at one store. `RingIsRing` gets back from
  links to `IsRing`, once around by `next` and by `prev`: by induction over the
  finite set of elements not yet met, from a least one (the induction theorems of
  the library take an operator and cannot be used).
* `Lab2bListProofs`. Sublists apart, with any `--sync` or none: that pointers in
  memory do not cross is kept only if the variables of the threads do not cross
  either, and those of a thread must be reset between operations, as the next
  one may be on another sublist. `ControlInv` adds that a thread about to lock
  has a turn left, so that its element is one and hashes to a sublist. The
  straight-line code is in tables, so one lemma is about all loads and one about
  all stores.
  With a lock, `Lab2bListInv!SyncInv` says of any number of threads and
  sublists: the lock of a sublist is held by just the thread inside an operation
  on it, which is `Inside` the elements its threads' progress puts there; a
  free sublist is a `Ring` of them; elements still to be inserted are linked to
  nothing; main() counts empty rings. A step of a thread changes nodes of its
  own sublist alone, so that the invariants of all others keep. It follows that
  free lists are rings, that each step is a step of `PartitionedList` or none
  (the set changes at the store that `After` names), and, with the theorem of
  `PartitionedListProofs` that the abstract program reports nothing, that no
  check on pointers reports corruption.
* `Lab2aListProofs`. The pool: its rest holds distinct keys none of which has
  been drawn, and no key is lost; the keys are stored by number, the element of
  a number found by division (`Distinct` and `Exhausted` of the pool by
  itself, `KeysFromPool` of the program). `Lab2aListInv!RaceInv` holds of any
  `--sync` or none: however far a race has corrupted the ring, registers and
  memory hold nodes or NULL, and a lookup that comes back has found the
  thread's own element, because no other has its key, or the head. With it a
  thread never unlinks what another has inserted. `SyncInv` says that the lock
  is held from the first turn to the last, that a thread is `Inside` a ring of
  exactly its own elements, and that the ring is empty whenever the lock is
  free, main()'s count at the end included.
* `TerminalProofs` (types, echo intact, ends for a reason, terminal and shell
  left clean), for every user, shell, buffer and pipe. The first part is about
  `NumbersOf`, the selection `EchoIntact` is stated with: it is a recursive
  function, which exists and is unique by an induction over the set of numbers
  up to which it does, and it takes concatenation to concatenation. Of either
  direction the invariant says, with one operator, `InOrder`: all that came is
  what is displayed, then what is in `buf` and not handled, then what is not
  read. A byte that comes, a `read()` and a byte that is handled keep this
  (`OrderGrows`, `OrderRead`, `OrderHandled`). After the loop only the prefix
  is left of it. `PassedOn` relates echo and shell: equal between bytes, the
  echo one ahead at `pass`, or for good if SIGPIPE ended the program there
  (`Refused`). `Reason` needs `Origins`, that a ^D on its way was typed or
  written, and that no step of the loop has "end" among what poll() said, as
  the two constants the code tests for are events of no pipe. `exit()` restores
  the terminal before it waits, and nothing changes it afterwards (`Leaves`).
  TLC has checked the invariant on the instance of the run `terminal`.
* `RemoteShellProofs` (types, input intact, output intact, terminal restored),
  for every user, shell, buffer, pipe and connection, with and without
  `--compress`. What was typed is to arrive although it is at any time spread
  over the keyboard, both programs, the connection and the pipe, in pieces that
  `--compress` makes of several keys. `InputSplit` splits it into three: what
  the server has handled, of which the shell has got just the plain bytes;
  what is on the connection and in the server (`sKeys`); and what the client
  still has (`cKeys`). `OutputSplit` does the same the other way. A program
  that has gone takes its part with it, so that the two equations with the
  places hold while it runs, and the split for ever: `IsPrefix` follows from
  the latter alone. That a split exists is all the invariant says. A step is
  a flow (`InputFlow`, `OutputFlow`): some bytes come, some pass from the
  client to the server or are lost with it, some are handled; `InputStep` and
  `OutputStep` prove once that a flow keeps the split, and each action is shown
  to be a flow. Where a process keeps its bytes depends on its step; `Pending`
  and `Incoming` say it in one expression, and lemmas for each step
  (`PendingHere`, `PendingWrite`) give its value. The deflater may gather keys
  into units and hold units back: `DeflatedBytes` says that joining what it
  writes and what it keeps gives what it was given. That the shell has all that
  was typed before a ^D when `shell_in` is closed for one (`EofTyped`) needs no
  ^D among what was handled before, and one as the first byte of what was not.
  `ModeInv` says what only one setting of `--compress` does. An invariant on control
  (`ControlInv`) is needed for the errors: ECONNRESET or EPIPE is pending only
  when the other program is gone, and the server runs only with `shell_in` open.
  `TerminalRestored` rests on `CountInv`: EPIPE becomes pending by a write
  that the shell will never get, and SIGPIPE by a second one, so that two keys
  at least are missing; the count needs `InputInv`, as the bytes in the client
  are bytes typed and not consumed. `Plain` is a recursive function, and its
  behaviour on `Append` and concatenation is proved by an induction over a set
  of sequences, as in `TerminalProofs`. TLC has checked the invariant on the
  instance of the run `remote_shell`, trying all splits.
* `ReportProofs`, on `Sensor` (types, one late report, log in order, commands obeyed), for
  any number of lines, any buffer and every way to cut the stream. The
  properties speak of what was sent and what was logged, and nothing of what is
  between the two, so none is inductive. `Stream` adds that what is unread
  (`ssl`, then `chan`) is exactly the end of what was sent: `Marks` names, for
  each unread piece, the line it is of and its place in it, so that the pieces
  of a line follow one another and after a newline the next line begins; as
  many lines are logged as newlines have been read. The marks are functions
  that the invariant says exist: sending a line extends them (`MarksSent`), a
  read drops the first of them (`MarksRead`). `Parse` is a recursive function
  over the buffer; `ParseInv` is its loop invariant: after `i` pieces the log
  has a line for each newline among them, the line that begins at `start_index`
  is where the marks say, and if no read has ended inside a line the flags are
  those of the lines so far (`Flags`, by the last line of a kind, `LastOf`). A
  line that is read from its beginning is told from the others by its first
  pieces (`LineRead`), the only place where the kinds of lines matter. For
  streams the module also proves what `FlattenSeq` does with a sequence more, a
  sequence less, and the last one extended. `LateInv` says where `main` is when
  a report is late. TLC has checked the invariant on the instance of the run
  `sensor`.
* `ReportProofs`, on `LockTime` (time never overstated, exact for one sublist). A
  register read by `+=` is never above what has been waited; with one sublist
  only the owner of its lock has a register in use.
* `ReportProofs`, on `Ext2Checker` (tables, exit status, report), for every
  summary: any number of rows, in any order, sound or not. `TablesExact` is inductive once
  the rows have their types and the number of the next one is positive: it says
  what each table holds in terms of the rows before that number, and the step of
  a row adds one to them. For the repeated blocks this takes a case split: a
  block becomes repeated when the new row names it a second time itself, or
  once more than an earlier row did. That the exit status is that of the lines
  (`ExitStatus`) is inductive, as every pass prints lines of kinds that either
  count or do not. `BlocksReported` follows with the tables: each data block that
  is nowhere or both free and in use, and every pointer to a block that is named
  at another place, gets its line.

The type invariants of these modules, but for `Terminal`, `RemoteShell` and `Sensor`, and the
exclusions (`MutualExclusion`, `SublistExclusion`) are proved and no longer run.

The proofs about lists assume of `CountCap`, the bound that stops a count in a
corrupted ring, that it is at least the number of elements, so that it stops no
other.

Only model-checked:

* termination and the other liveness properties;
* the two ext2 tools together: `Ext2Tools` has a RECURSIVE operator, which the
  prover does not take.

## 5. Not modelled, and the plan

Of lab1b: `--log` and the set-up of the connection, which are straight-line
code that exits on failure. Failures of system calls other than the ones named
above, in all programs.

Of lab4c: connecting and the TLS handshake.

Of lab3a: images with blocks of other than 1K, inodes of other than 128 bytes,
several groups, or 64 blocks or inodes and more. For those the bitmap read
overruns a variable, which has no defined outcome to model. The SUPERBLOCK and
GROUP rows, modes, owners and times are copied to the output, and lab3b uses
the numbers in the former only: they are the constants of `Ext2Rows`.

The copy of lab0 is sequential: one loop over one buffer, and a signal handler
that exits.

Left out for good: printing and option parsing, drafts that are not built,
plots and scripts.
