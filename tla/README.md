# A TLA+ model of libnsp

libnsp is a C library (`com/`, headers in `icom/`) of handles, threads, waiting,
logging, containers and files, with a C++ layer on top of it (task threads,
sessions over an external network library). There is no document beside the
code; what the code is meant to do stands in its comments, and those are what
the properties below are held against. The model is of the POSIX build: the
`_WIN32` branches are left out throughout.

Every module names the file it models. `PROJECT.json` maps each definition to
lines of the source and lists the runs, the mutants, the hazards, the findings
and the theorems.

## 1. The system

### Components that carry the logic

| component | state | operations | what is hard |
|---|---|---|---|
| object manager, `com/object.c` | a table of AVL trees from handles to blocks, a counter of handles, one mutex; per object a status and a reference count | `objinit`, `objallo`, `objrefr`, `objreff`, `objdefr`, `objclos` | closing races references and the last dereference; callbacks run outside the mutex; freed blocks are used again |
| waitable handles, `com/posix_wait.c` | `pass_`, a mutex, a condition variable, the kind of handle | `posix__waitfor_waitable_handle`, `sig`, `block`, `reset` | timeouts that race signals, wakeups for no reason, who resets the flag |
| logger, `com/logger.c` | the slots of a pool, a queue, counters; a list of open files | `log__save`, `log__write`, `log__flush`, the asynchronous thread | atomics without a lock, slots that come round again, files switched by date and size under the feet of other writers |
| task pools, `task_scheduler.hpp` | a queue of tasks, `join_`, threads | `allocate`, `post`, `join`, the destructor, `pool_handler` | lost wakeups, join against waiting, order |
| AVL tree, `com/avltree.c` | nodes with heights | insert, remove, search, minimum, maximum | double rotations, heights on the way up |
| ring buffer, `com/cfifo.c` | bytes, two 32-bit counters | `ckfifo_put`, `ckfifo_get`, `ckfifo_len` | counters that wrap, copies in two parts |
| network objects, `network_handler.cpp`, `swnet.cpp` | per object `lnk_`; the table from links to objects | `create`, `connect`, `close`, callbacks | callbacks before the table is filled, references held in three places |
| application framework, `application_network_framework.hpp` | `client_set_` of weak pointers, the sessions | `on_accepted`, `on_closed`, `notify_one`, `notify_all`, `search_client_by_link` | a session that ends while it is being set up, or while others use it |
| singleton, `singleton.hpp` | a pointer, a flag, a lock | `instance`, `associate`, `release` | loads without the lock |
| thread handles, `com/posix_thread.c` | a `pthread_t`, an attribute object, `detached_` | the three creates, `detach`, `join`, `joinable` | creates that fail, identifiers used again, what a detach detaches |
| once-only starts, `crc32` of `com/hash.c` and `posix__random` of `com/posix_ifos.c` | a counter that goes up and down | the first call of many threads | decrements that race the first increment |
| files and directories, `com/posix_ifos.c` | descriptors with an offset, the tree of the file system | open, read, write, seek, random bytes; `posix__mkdir`, `posix__pmkdir`, `posix__rm` | transfers that are cut short or interrupted; several calls on one path |
| linked lists, `icom/clist.h` | a graph of `next` and `prev` | add, delete, move, splice, cut, rotate, the safe loops | stores whose order matters, heads that are used again, loops that remove what they visit |
| digests, `com/hash.c` | a context: count, buffer, state | `MD5__Update` in pieces, `MD5__Final`, `sha256`, DES | the carry of the count, the extra block of the padding |
| codings, `com/hash.c`, `encrypt.cpp`, `toolkit.cpp` | none | base64, the cipher with an alphabet of its own | padding, ends of blocks, keys of any length |
| serialization, `serialize.hpp` | blobs that own an array | numbers, strings, vectors, assemble; copies and moves of blobs | counts at their limit, data that ends early; who frees an array |
| packet headers, `old.hpp` | none | parser and builder of three protocols | byte order, the largest length |
| endpoints, `endpoint.cpp`, `com/posix_naos.c` | an address, its text and a port | constructors, copies, setters, `build`, parsing | two forms of one address, in two byte orders |
| strings, `com/posix_string.c`, `toolkit.cpp` | none | bounded copies and appends, comparisons, trimming, slicing | the last place of a buffer, empty strings |

How they interact: the logger waits on a waitable handle, keeps its queue and its
files in `clist.h` lists and formats through `posix_string.c`; the object table's
buckets are AVL trees; the C++ task threads and the sessions stand on the C++
library's mutexes and shared pointers; the sessions reach their table through a
singleton and are called back by an external library (`icom/nis.h` only declares
it); the C++ logger calls `log__save`.

### Components without a model

Time (`com/posix_time.c`), the operating system wrappers (`os_util`), the C++ log
front end (`log.cpp`), the atomics, the exceptions, `icom/compiler.h`, and the
declarations of the network library (`icom/nis.h`, `icom/nisdef.h`): one call of
another library each, or macros and declarations. `PROJECT.json` has a reason for
each of them, and says of each component that is modelled in part what is
missing.

### What makes each component correct

- Object manager: the count of an object is the number of references out; an
  object that somebody holds is in the table and its memory stays; a closed
  object gives out no reference and is unloaded once, when the last is back.
- Waitable handles: one signal lets at most one wait on a synchronous handle
  through and is not lost beside a sleeper; a wait reports an event only after a
  signal; a notification handle lets everybody through.
- Logger: nothing queued is lost or printed twice, the counter bounds the
  backlog, each producer's lines keep their order; one file per module, with the
  lines of its module and day, and no descriptor leaked or shared.
- Task pools: no wakeup is lost, tasks are popped in order and start once, join is final and
  ends.
- AVL tree: ordered, balanced, exact heights, and a set of keys.
- Ring buffer: a bounded queue of bytes.
- Network objects and sessions: a link that is up leads to a live object, the
  object lives until its link is closed, and it hears of that once.
- Singleton: one instance, deleted only by release and only if instance made it.
- Thread handles: a handle names a thread of its own that is not reaped; a detached
  thread is freed when it returns.
- Once-only starts: one call initialises, and who comes later sees all of it.
- Files: the count that a call returns is what was moved, each byte once and in
  order; making a path succeeds beside others that make it; `posix__rm` removes what
  is below its target and nothing else.
- Lists: every head is a ring through its entries, in both directions, and a safe
  loop visits each entry once whatever its body removes.
- Digests: a digest is that of the padded message, in whatever pieces it came.
- Codings, serialization, packet headers: decoding gives back what was encoded, and
  data that ends too early is refused.
- Blobs: an array has one owner, who frees it once.
- Endpoints: the text denotes the address.
- Strings: a bounded copy is whole or refused; comparisons, trimming, reversal and
  slicing obey the laws their names promise.

## 2. Plan

Order of work, the most important first. (Done) is in this directory.

1. (Done) `ObjectManager` with the abstract `HandleLifecycle`, and proofs.
2. (Done) `WaitableHandle` with the abstract `AutoResetEvent`, and proofs.
3. (Done) `AsyncLogger` and `LogFile`.
4. (Done) `TaskPool` with proofs.
5. (Done) `AvlTree`; `CkFifo` with the abstract `BoundedQueue`, and proofs.
6. (Done) `NetworkObject` and `TcpService`, `Singleton`, with proofs.
7. (Done) Shared by threads: `ThreadHandle` and `OnceFlag` with proofs; files:
   `FileTransfer`, `FileTree`.
8. (Done) One thread: `LinkedList`, `Digest`, `Des`, `TextCodec`, `Serialize`,
   `Framing`, `Endpoint`, `Strings`.
9. (Done) Proofs for `AsyncLogger`, `NetworkObject`, `TcpService`, `LogFile`,
   `FileTransfer` and `FileTree`, for the lists of `LinkedList` and for the blobs
   of `Serialize`, for `Digest`, `AvlTree`, `Endpoint`, `Des`, `TextCodec` and
   `Framing`.

Left for later, the most useful first:

- compositions: `AsyncLogger` with a `WaitableHandle` in place of its flag, and with
  `LogFile` as its printer; `NetworkObject` with `TcpService`;
- `ObjectTable`, the hash buckets of `object.c` refining the function that
  `ObjectManager` uses;
- in `NetworkObject` the sockets that listen and the constructor for an accepted
  link; sending.

## 3. Modules and how they correspond to the code

Common to all: what a piece of code does under a mutex is one step, because
everything else that touches the same state takes the same mutex; an access to
an atomic or to unprotected shared memory is a step of its own; calls out of the
library (the user's callbacks) are steps too. A definition whose name begins with
`Slip` is a deliberate mistake in the definition that follows it. No specification
uses one: they are there to show that a property notices (the mutants of
`PROJECT.json`).

**ObjectManager** (`com/object.c`). A caller is one sequence of calls on an
object. `ObjAllo`, `ObjRefr`, `ObjReff`, `ObjDefr` and `ObjClos` are the critical
sections of the functions of the same names, `ObjTabInst` is `__objtabinst` with
the rest of `objallo`; the initializer (`InitializerFails` when it refuses), the
unloader (`CallUnloader`) and `free` (`FreeObject`) are steps outside the mutex.
`objinit` writes the table without it, in two steps (`ObjInitEnter`,
`ObjInitReset`); it belongs to start-up, as long as nothing has been allocated,
and nothing else runs beside it. Blocks are used again, and a freed block keeps
its contents. Handles are 64 bits wide and never come round. The table is a
function here; its hash buckets are left to `ObjectTable`. `objregs` is an empty
function although `icom/object.h:30` declares it. **HandleLifecycle** is what a
user sees: open, closing, retired, destroyed, and who holds a reference.

**WaitableHandle** (`com/posix_wait.c`). The variable `sync` is the kind of handle,
chosen once. `Wait` enters the mutex and passes or joins the condition variable's
queue; `Sig` wakes one thread or all; `TimedOut` and `WokenForNothing` wake a
thread otherwise; `Resume` is what the thread does once it has the mutex again;
`Block` is `posix__block_waitable_handle`. Time is not measured: a finite wait may
expire whenever it waits. **AutoResetEvent** is what the comment at
`posix_wait.c:293` refers to.

**AsyncLogger** (the asynchronous half of `com/logger.c`). Each atomic operation
of `log__save` is a step, the filling of a slot another, so a slot can be written
while it is queued or read. The queue is kept as its pointers (`link`), which
`list_add_tail` and `list_del_init` store one after the other whatever they find
there; `items` is the history of what was added and popped. The field `inuse` is
never set to 1, so its test is no branch: a producer may claim a slot that is still
in use, and the history variable `covered` says that one has. From then on two
threads may fill, read and link one slot, its text may be a mixture, and the list need
not lead anywhere sensible. The behaviours go on, but the properties are about what
comes before. **LogFile** (the other half): a descriptor of the list is attached under
the lock, and written to after it; descriptors and freed objects are issued again
by kernel and allocator; the clock may stand still or go on to the next day. The
history variable `alone` says that no two threads have printed at once so far.

**FileTransfer** (`com/posix_ifos.c`): the loops of `posix__file_read`,
`posix__file_write` and `posix__random_block` by threads that may share
descriptors. Each system call is a step in which the kernel moves a part of what
was asked for, is interrupted, fails or has nothing more. `moved` is a history of
what it moved. **FileTree** (same file): `posix__mkdir`, `posix__pmkdir` and
`posix__rm`, by several makers and removers, on a tree of paths. Each system call is
a step: the `stat` of `posix__isdir`, `opendir`, `readdir` and `remove` come one after
the other, and anybody else may come in between. `posix__rm` and `__posix__rmdir` call
each other; the calls inside one another are a stack. There may be sockets and block
devices ("special"), which `posix__isdir` takes for directories, and a symbolic link.
An open directory is known by its path.

**TaskPool** (`task_scheduler.hpp`): `Test` reads `join_` without the mutex, `Lock`
takes a task off the queue or waits, `Resume` is the code after the wait, and
`OnTask` starts the task that was taken, after the mutex was released; the owner
allocates, joins and destroys. `task_thread` is the instance with one thread.

**AvlTree** (`com/avltree.c`): the functions are recursive functions on trees as
values, recursing like the code, and the state machine inserts and removes keys.
Their domain is the set of trees of a bounded depth, `MaxDepth`, with any keys in
any order and any heights stored in the nodes: that the trees the code makes are
ordered and their heights exact is the property, not the domain.

**CkFifo** (`com/cfifo.c`): the counters have a width and wrap; the two `memcpy`s
of each call are `CopyIn` and `CopyOut`. **BoundedQueue** is the queue they are for.

**NetworkObject** (`network_handler.cpp`, `swnet.cpp`): users share, drop, create,
connect and close objects; EVT_CLOSED runs through `tcp_search`, the exchange of
`lnk_`, `tcp_detach` and the virtual `on_closed`, one step each; an object is
destroyed in the step that drops its last reference, wherever that is, and its
destructor closes its link. A link may die, and its EVT_CLOSED be dropped, before
its object is in the table. `obudp` does the same under other names.

**TcpService** (`application_network_framework.hpp`): for every accepted link the
steps of `on_accepted` and of EVT_CLOSED, in any interleaving, and users in
`notify_one`, `notify_all` and `search_client_by_link` who may close what they were
handed. The history variable `late` has the sessions that `on_accepted` entered in
`client_set_` when the removal by their EVT_CLOSED was over.

**Singleton** (`singleton.hpp`): `instance` and `associate` store once under the
lock; `release` deletes and stores in two steps.

**ThreadHandle** (`com/posix_thread.c`): every handle has one owner, and threads
return when they like. A `pthread_t` is free, running or a zombie, and is given to
another thread once it is reaped; a create that failed leaves in `pid_` what
happens to be there.

**OnceFlag** (`crc32`, `posix__random`): the increment, the rows of the table one by
one, and the decrement of everybody but the first are steps of their own.

**LinkedList** (`icom/clist.h`): an operator for each function takes the `next` and
`prev` of all nodes and returns them after its stores. `list` is what a caller
believes of each head; a head that was spliced without `_init` is not usable until
it is initialised. The safe loops keep the two pointers the macros keep, and their
body deletes or moves the entry it is at, or does neither.

**Digest** (`com/hash.c`): `MD5__Update` with its count in two words and its buffer,
`MD5__Final` and `sha256` with their padding. What the rounds compute is left out:
a hash is the sequence of blocks that went through them, so hashes are equal
exactly when the same blocks were digested. Sizes are parameters. The code's lengths
are an unsigned and a signed integer of 32 bits, to which it adds up to 63 and 72: the
model and its theorem say nothing of lengths so near the limit that this overflows. **Des**, in the
same file, is whole: tables, key schedule, rounds and blocks; only the contents of
the substitution boxes are a constant.

**TextCodec** (`com/hash.c`, `encrypt.cpp`, `toolkit.cpp`): base64 in both forms and
the cipher that mixes message and key bit by bit. **Serialize** (`serialize.hpp`):
values to bytes and back with the bytes left counted as the code counts them, and
the arrays of blobs. **Framing** (`old.hpp`): builder and parser of the sw, ieee104
and nspdef headers. **Endpoint** (`endpoint.cpp`, `com/posix_naos.c`): characters are
abstracted to digits, the dot, the colon and one letter, and what a name resolves to
is any address or none. **Strings** (`com/posix_string.c`, `toolkit.cpp`): a call that
runs into an assertion returns `Aborted`.

`MCFiles`, `MCThreads`, `MCNetwork` and `MCLibrary` each hold the instances of several
modules that do not interact. Their variable `used` is chosen in the initial state:
a behaviour runs one of the modules and leaves the variables of the others alone, so
that each module is checked over all of its own states, and none over products of
states that mean nothing. The other `MC...` modules give TLC small sets for one
module. The `...Proofs` modules hold the theorems. `MCContainers`,
`MCDigest` and `MCFunctions` are the parts of `MCLibrary` that have theorems;
`MCFunctions` calls the functions whose result depends on their input alone, one
after another, each with any input of a constant set.

## 4. What the runs check

### Runs that pass

| run | bounds | shows |
|---|---|---|
| object_manager | 3 callers, 3 handles, 3 blocks | counts are exact (`RefcntExact`), what a holder points to is an object of the table (`HolderMemorySafe`), an object is unloaded once and by one thread (`UnloadExclusive`), every behaviour is one of `HandleLifecycle` (`ImplementsLifecycle`), and a closed object is unloaded and its block freed, whichever call closed it (`ClosedIsReclaimed`) |
| waitable_handle | 3 threads, 3 signals, both kinds of handle, timeouts, spurious wakeups | a synchronous handle lets at most one wait through per signal (`OneSignalOneEvent`) and strands no signal beside sleepers (`NoStuckSignal`); a wait returns 0 only after a signal, but for a notification wait woken for nothing (`EventMeansSignal`); a notification handle releases all who wait when the signal comes, even if it is blocked at once (`BroadcastReleases`) |
| logger | 2 producers with 2 saves, the thread, 1 flusher, 3 slots, so that the index comes round; until a slot is covered | the list is whole and the counter is what is queued and under way (`PendingExact`); nothing queued is lost or printed twice (`NoLossNoDuplicate`); one printer prints one producer's lines in order (`PrintedInOrder`); everything queued is printed, although the wait may reset an alert given meanwhile (`AcceptedIsPrinted`) |
| files | log: 2 printers, 2 modules, 2 objects, 2 descriptors, 1 row, 2 seconds a day, 2 lines; transfers: 2 threads, 2 descriptors, calls of 2 bytes, a disk of 2; tree: 2 makers and 2 removers, 3 calls (`MaxCalls`), 4 paths of up to 3 names, each a file, a directory or a socket | one object per module whoever prints (`OneFilePerModule`); while one thread prints at a time, no descriptor leaked or shared and each line in the file of its module and day, with failing opens and writes (`LinesInTheirFile`); counts are what was moved (`CountIsMoved`); `posix__rm` removes what is at or below its target and nothing else, whoever else makes and removes, and its target is gone when it returns 0, if nothing was made or refused, no socket is there and no other remover took part of it (`SameAsRm`); two `posix__pmkdir`s of overlapping paths succeed (`MakersMeet`) |
| threads | pool: 3 workers, 3 posts; singleton: 3 threads, 2 places in the heap, 1 object of the application; flag: 3 threads, 2 rows; handles: 2, with 3 identifiers | no wakeup is lost (`WorkConserving`), tasks are popped in order and start once, those of one worker in that order, while workers may overtake each other (`StartedInTurn`), nothing starts after a join has returned (`JoinIsFinal`), every task starts unless the pool is joined (`EveryTaskStarts`); one instance (`OneInstance`), and release deletes its own, once (`DeletesItsOwn`); one initialiser, and nobody who calls after it reads an unmade row (`InitialisedOnce`); a handle names a thread of its own that is not reaped (`OwnsItsThread`) |
| network | objects: 2 users, 2 objects, 2 links; service: 2 sessions, 2 users | table, `lnk_` and references agree (`TableAgrees`), no link is lost (`NoLostLink`), `on_closed` comes once (`ClosedOnce`); but for entries made too late the set of clients leads to live sessions (`SetIsLive`), each session is told of its end once and before it goes (`ToldBeforeFreed`); a link that closes gives the table's reference back, and a closed session is destroyed (`ClosedIsFreed`) |
| library | 12 keys; a buffer of 4 places, 4-bit counters, strings up to 3 and of 5 bytes; 2 heads and 3 entries; a message of 41 bytes with blocks of 8, counts of two bytes of four bits; 3 blobs; 2 endpoints; inputs at the boundaries of padding, blocks, counts and lengths | every tree that insertions and removals reach is balanced, ordered and the right set (`BalancedSet`); the ring buffer implements `BoundedQueue` (`ImplementsQueue`); lists are rings and loops visit all (`ListsAreRings`); a digest is that of the message (`DigestOfTheMessage`); arrays of blobs have one owner (`ArraysOwnedOnce`); text and address agree (`TextAndAddressAgree`); decoding inverts encoding for DES, base64, the cipher and packet headers (`DecodingInverts`), and for serialized vectors, and the string functions keep their promises (`VectorsAndStrings`) |

Why the bounds are enough: each is the smallest at which every disjunct of the
next-state relation and every branch of the code happens, and every property has
a mutant of the code that violates it within the same bounds. Threads beyond
those of an instance only repeat roles that are there already: two that race and
a third that comes in between them. Two file objects, two modules and two seconds
a day let a file be switched by rows and by date while the other is written. Calls of
two bytes can be cut into parts. Two heads and three entries let several entries be
spliced into the middle of others. Five blocks carry into the high word of the count.
Twelve keys are the fewest with which one
removal rotates twice on its way up; balanced trees of them have at most five
levels, so that `MaxDepth = 5` forbids no insertion. Counts of two digits in
base eight go beyond an `int` of the instance, and come out negative. Three paths
below one another and one beside them make a directory with two entries, one of which
has an entry itself; three directory calls are two that make or remove the same
and one that does the other.
Three slots and four saves let the index of the logger come round; the
properties of the logger say nothing once a slot is covered, and a covered slot
stays covered, so `MCAsyncLogger` stops there. Four places and four bits let the counters
of the ring buffer wrap at different times. Two links are two lives of one object,
or one each of two. The properties proved (section 6) do not depend on bounds.

Symmetry is used in `Files.cfg`, for the threads of `FileTransfer` and the makers and
removers of `FileTree`, and in `Library.cfg`, for the entries of lists: no operator
tells them apart, and the runs have no liveness property.

`CHECK_DEADLOCK FALSE` stands in the configurations of systems that may stop: all
calls a bound allows have been made, or the pool is gone.

Three runs assume something of the callers that the code does not enforce. network:
no two threads are in `create` of one object at the same time (`OneCreate`); two
that are both pass the test of `lnk_` at `network_handler.cpp:52`, and one link is
lost. object_manager: `objinit` comes before anything else; one that comes after
the first `objallo` empties the table and restarts the handles (`object.c:231`).
threads: an owner creates nothing through a handle that still names a thread it could
join, which would be lost, and joins only after a create that succeeded, because a
create that failed leaves `pid_` set to anything.

### Runs that disagree with the code's own word

| run | what happens | the statement |
|---|---|---|
| wait_swallow | a wait that times out resets a signal that came meanwhile | `posix_wait.c:293` |
| logger_cover | a save covers a slot that is being printed, because two producers queued their slots in the other order than they claimed them | `logger.c:387` |
| pool_join | a worker between its test and its wait misses join, and the destructor never ends | `task_scheduler.hpp:244` |
| files_rm | `posix__rm` follows a symbolic link and empties the directory it leads to | `icom/posix_ifos.h:46` ("the same as rm -fr") |
| thread_detach | a thread that was detached returns and is never freed, because only the attribute object was changed | `icom/posix_thread.h:71` |

### Known disagreements that no run shows

Met while modelling. The properties above are stated so that they hold beside
these, and say so where they do:

- a spurious wakeup of a notification handle is reported as the event
  (`posix_wait.c:301`, no test of the flag after the wait), and an interval of 0
  waits for ever where `os_util.hpp:130` takes it for a test;
- `log__flush` before any other call fails its assertion (`logger.c:426`): it is
  the one entry that does not initialise;
- with two printers the rows of a file exceed the 5000 of `logger.c:18` (the count
  of line 89 is outside the lock), and a failed switch frees the object another
  printer writes with (`logger.c:162`, against the comment at 142);
- a switch within the second the file was opened in truncates it (the name is the
  same; `icom/logger.h:9` says the lines go to the same file), and on the same
  date a year later the old file goes on (`logger.c:135` and `137` compare the day
  twice);
- `priority_task_thread` waits while there are tasks and takes one when there is
  none (`task_scheduler.hpp:146`);
- EVT_CLOSED between `setlnk` and the entry in the table leaves the object in the
  table for ever (`swnet.cpp:98-99`), and one before the entry in `client_set_`
  leaves that entry (`application_network_framework.hpp:74`);
- a load between delete and store returns a deleted singleton
  (`singleton.hpp:64-65`);
- `posix__isdir` tests a bit that sockets and block devices have too
  (`posix_ifos.c:1146`): `posix__rm` cannot open one and passes it over, the removal of
  the directory it is in fails, and 0 is returned with both still there; the same
  happens when another `posix__rm` removes an entry between the `stat` at line 787 and
  the `remove` at 977, because the loop then ends (line 791), against
  `icom/posix_ifos.h:46`;
- a `crc32` that overlaps the first one may use rows that are not made yet: only the
  first caller makes them, and nobody waits for it (`hash.c:111`);
- a key given to `DES__encrypt` or `DES__decrypt` is never used: `keyBlock` is filled
  only when there is none (`hash.c:883`), and on a processor with pointers of fewer
  than eight bytes only in part;
- a copy of a blob is empty: its own count, 0, is tested in place of the source's
  (`serialize.hpp:252` and `277`);
- the move assignment of a blob (`serialize.hpp:286-292`) would overwrite its array
  without freeing it; as it is written it cannot be instantiated, so that the
  model has no action for it;
- the bytes of a string are counted in an `int` (`serialize.hpp:204`): a count large
  enough to make that negative passes the test of the length left, and
  data that ends early is not refused;
- in a last page with the pad at its third place and a character at its fourth,
  `des[2]` is used without a value (`encrypt.cpp:165-169`);
- a text of 16 characters or more ends in the assertion of `posix_strcpy`
  (`endpoint.cpp:238`) where the caller would be told of a bad address;
- after a slot is covered (logger_cover), `list_add_tail` of a slot that is still
  linked (`logger.c:410`) cuts the list or bends it into a loop, so that slots are
  lost or printed for ever;
- `posix__strcat` reads its source from the offset where the target ends
  (`posix_string.c:245`), so it appends the wrong part, or reads past the end; the
  wide variant is right;
- the test for an empty part of an address compares an array with 0 and never holds
  (`posix_naos.c:131`);
- the copy assignment from an endpoint without a text keeps the target's address
  (`endpoint.cpp:179`), and `boardcast(0)` throws, because the port it passes on is
  refused (`endpoint.cpp:313`);
- `posix__random_block` keeps its descriptor when a read fails
  (`posix_ifos.c:1375`);
- `posix__localtime_clock` leaves `tm_isdst` unset (`posix_time.c:142`).

## 5. Fairness

Weak fairness of what a thread has begun: code that runs goes on, a callback of the
user returns, a mutex that is free is given to somebody. Nobody has to make a call.
- ObjectManager: holders give their references back, callbacks return.
- WaitableHandle: a woken thread gets the mutex, and a finite wait expires.
- AsyncLogger: a save and a print go on, and the thread's wait ends, at the latest
  after its ten seconds (`logger.c:216`).
- TaskPool: workers run and tasks return; what the owner began goes on.
- NetworkObject, TcpService: calls and callbacks go on, and the library reports
  the end of a link. Liveness is not claimed of users who keep a pointer for ever:
  `ClosedIsReleased` is about the table's reference, and in TcpService a user's
  function returns.

`MCThreads` and `MCNetwork` state the fairness of the modules they hold; where a
behaviour runs another module, none of those actions is enabled. The modules about
files, the singleton, the flag, the thread handles and those of `MCLibrary` have no
liveness property: a thread there may stop anywhere.

## 6. What is proved

TLAPS checks every step; the proofs hold for all values of the constants that
satisfy the named assumptions of the modules.

- `ObjectManagerProofs`: type correctness, the safety properties of the run and
  four more (a closing object is pinned by whoever will remove it, blocks have one
  owner, an object leaves the table only to be unloaded, a closed object gains no
  holder), by one inductive invariant. `RefcntExact` is not inductive: a
  dereference must know that the block it works on is the one in the table, a
  close that the handle it found is the block's, and an unloader that nobody else
  got the same block. The invariant therefore says, for every place of a caller,
  what its pointer points to (in the table, out of it and alone, or nothing), that
  table and handles are inverse to each other, and that counts equal the
  cardinality of the sets of holders. The two action properties and the
  refinement of `HandleLifecycle` (every step is a step or a stutter, with
  retired and destroyed read off the table and the unloads) follow from it.
- `WaitableHandleProofs`: type correctness, `OneSignalOneEvent` (each event is
  paid for by a signal; a signal waiting in `pass_` is the one spare),
  `NoStuckSignal`, `EventMeansSignal`, and that a synchronous handle implements
  `AutoResetEvent` when no timeout expires (wait_swallow shows why it does not
  otherwise).
- `LibraryProofs`, the ring buffer: the counters stay in their width, their wrapped difference is
  at most the size, and put and get implement `BoundedQueue`: the invariant
  relates the bytes between the counters, taken modulo the size, to the queue.
- `ThreadsProofs`, the task pool: `WorkConserving` (strengthened by the fact that each post wakes
  a worker who cannot sleep again before the queue is empty), `OneLateStart` (a
  worker starts at most one task after `join_` is set), `JoinIsFinal`, and
  `StartedInTurn`: who holds a popped task has started no later one, which is what
  keeps the tasks of one worker in order.
- `ThreadsProofs`, the rest: `OneInstance` and `DeletesItsOwn` of the singleton, from the facts
  that the lock is held exactly by a thread in the middle of `release`, and that
  outside it an instance from the heap is alive. `InitialisedOnce`: the counter equals
  the number of callers that have still to take theirs back, plus one from the first
  increment on, because the initialiser never takes its own back; so no later
  increment finds 0. `OwnsItsThread`, with the fact that an owner who joins has
  emptied the handle before it waits and only after a create that succeeded: so each
  thread is named in one place, and is reaped from there.
- `AsyncLoggerProofs`: `PendingExact`, `NoLossNoDuplicate` and `PrintedInOrder`, for
  any number of threads, saves and slots, and however often the index comes round,
  until a slot is covered (logger_cover shows how that happens, in spite of the
  counter). Until then the slots being filled, queued and printed are different
  slots, so that `list_add_tail` meets one that is not linked: the list is a ring
  through the queued slots in their order, `list_del_init` takes the first off, and
  the counter is the length of the queue and the producers between count and add
  or between count and uncount. Before the one initialisation succeeds nobody is
  past it, so its reset of the counter forgets nothing. Each slot in use holds
  a save of its own, and whatever has left the queue was saved before what its
  producer has in it. Type correctness is for all behaviours, those after a slot
  was covered included: however the list is bent, no pointer that is followed is
  NULL, because those that are set lead to nodes whose pointers are set.
- `NetworkProofs`, the network objects: type correctness, `TableAgrees`, `NoLostLink` and
  `ClosedOnce`, when no two threads are in `create` of one object (`OneCreate`). The
  invariant says where a link is at every step of its life: with its creator before
  it is in `lnk_`, in `lnk_` and on its way to the table, in the table, or with the
  callback that has taken it out; and that whatever a shared pointer leads to has
  not been destroyed.
- `NetworkProofs`, the service: `SetIsLive` and `ToldBeforeFreed`. The invariant relates the
  place of `on_accepted` and that of EVT_CLOSED of each link: what is entered in time
  is erased before the session is told, a session that was told is in no table, and
  a session is freed only when neither call nor user nor table holds it.

- `LibraryProofs`, the lists: `ListsAreRings`, for any heads and entries. The
  property reads a list by following pointers as many times as there are nodes; the
  invariant says the same without counting: each usable head followed by its
  entries is a cycle, each node's `next` the one after it and its `prev` the one
  before, no entry stands twice in a list, and no two lists share one. What the
  stores of each operation make of one or two cycles is a lemma of its own (a cycle
  gains, loses or replaces a node, is cut, is spliced into another); the order of
  the stores matters in all of them, because some read a pointer that others have
  just written. A safe loop needs more: the entry it has read ahead, and all those
  beyond it, are still of its list and lead to each other, since the body may take
  out only the entry the loop is at.
- `LibraryProofs`, the blobs: `ArraysOwnedOnce`, for any finite set of blobs. The
  heap is the union of what the blobs would free, and no two would free the same;
  so there are no more arrays than blobs, and a new one is found.
- `LibraryProofs`, the tree: `BalancedSet`, for any keys and any bound on the depth.
  Two things come before the algorithm. A recursive function on trees is known to
  exist only when that is shown: for each depth there is a function that obeys the
  recursion on the trees of that depth (`TreesUpTo`), and the smallest depth
  without one would have one after all. And what holds of the empty tree and of a
  tree whenever it holds of its children holds of all trees, which is stated about
  sets of trees. The algorithm is then proved with a statement that is stronger
  than the property: an insertion returns a balanced tree in order with the members
  it should have *and* a height that is the old one or one more, and in the latter
  case, unless the tree was empty, one child is the higher; a removal returns one
  that is as high or one lower. Only with these is the difference of the children at
  most 2 wherever the code compares it with 2, and one of the four rotations
  right for what it finds; each rotation is a lemma. The successor that a removal hangs
  above the rest is the least key of the right child, by a lemma about
  `AvlGetMin`.
- `LibraryProofs`, the endpoints: `TextAndAddressAgree`, for any objects, texts,
  addresses and ports. The invariant is that of each object: its text is empty and
  its address 0, or its text *denotes* the address, which means that three dots, no
  more, part it into digits whose numbers are the four bytes. What `ipv4tos` writes
  denotes what it was given, because a number of at most 16 bits is the sum of the
  digits it is written with; what `is_effective_ipv4` lets through denotes some
  address; and what denotes an address is read as that address by `ipv4tou`, in
  either order. So every constructor, setter and assignment keeps the invariant,
  whether it changes both forms or neither. That a text is parsed back to the
  endpoint it was made from needs two more facts: no character of a text that
  denotes is a colon, and no number is written with a zero before it, which
  `is_effective_port` would refuse.
- `FunctionProofs`, the digests: `DigestOfTheMessage`, for any message, any pieces and any sizes of
  block, word and byte. The invariant says what a context holds: the whole blocks of
  what it was given went through the rounds, the buffer begins with the rest, and the
  two words of the count are the low and the high part of the length in bits.
  `MD5__Update` keeps it, whether or not the input completes the buffer; the padding
  `MD5__Final` chooses ends at a block and is the only one shorter than a block that
  does; and what `sha256` stores with the bytes of each word reversed, and reads
  reversed again, is the same message in its padding. The theorems about division
  and about powers that this needs come first.
- `FunctionProofs`, what is decoded. The loops of the code that append the pieces of
  a result are folds in the model; that there is a function with their recursion is
  shown as for the trees, and what is read of the whole at a place is what stood in
  its piece (`InPlace`). With it, for every input,
  the four parts of `DecodingInverts`.
  `PacketsInvert`, for all lengths an `int` holds, because the four bytes of one are
  its digits, and the bytes of each field are turned round twice.
  `DesInverts`, for any substitution boxes, default key and blocks of bytes: the two
  permutations undo each other, a round that is taken again with the same key and
  with the halves exchanged is undone, so that after the sixteen rounds of
  `DES_DecryptBlock`, which takes the keys from the last to the first, each half is
  what it was before the round of `DES_EncryptBlock` that has the same key
  (`RoundsInvert`).
  `Base64Inverts`: a group that is not whole is the last, and only the last has the
  pad at its third or fourth place, so that the decoder's loop ends where the
  encoder's did, and the lengths that callers allocate are exact.
  `CipherInverts`, for any keys: the code's alphabet has no tilde and each of its
  codes is decoded to its place (`AlphabetInverts`); the tildes are as many as the
  zeros that filled the last page, and leave the bytes before them as they were
  (`PageReads`); and a byte and a key byte that were mixed bit by bit, each into the
  other, come back when they are mixed again (`MixedTwice`), so that the key used is
  what the decoder compares with its own.
- `FilesProofs`, the logger: `OneFilePerModule`, because only `log__attach` makes
  or frees an object and takes the live one of its module where there is one.
  `LinesInTheirFile`: while one thread prints at a time, a descriptor that is open
  belongs to one live object and is open on the file of that object's module and
  day, but for the object whose descriptor was closed and is not forgotten yet;
  and what a printer has attached to is still the object of its line when it
  writes. It needs a clock that stays within a year (`OneYear`): `log__attach`
  compares the month and the day, and on the same date a year later the old file
  goes on, which section 4 lists as a disagreement.
- `FilesProofs`, reads and writes: `CountIsMoved`, for calls, files and disks of any
  size and any number of descriptors and threads: what was moved is the buffer up
  to its offset, the offset never passes the size, and a returned count is the
  offset.
- `FilesProofs`, the tree: `MakersMeet` and `SameAsRm`, for any tree and any number
  of makers and removers. What is there has a directory above it, hence every
  prefix of it is there; a maker on its way up stands below something that is
  there, as long as nobody removes; the calls on a remover's stack are in directories
  each of which is a child of the one before, all at or below its target. As long as
  nothing is made or refused, there is no socket or device, and no other remover has
  removed anything at or below the target, what the remover has visited in each
  directory is gone, but for what the next call on the stack is at, and no call
  fails. That an entry is examined and removed in two steps does not matter then,
  since whoever comes in between is at work elsewhere; section 4 says what the code
  does where the conditions fail. Both theorems are for trees without links (`NoLinks`): with one, files_rm shows `SameAsRm` violated.

Assumptions on the constants are only what the code gives: finite sets of
threads, NULL not an address or a session, no `pthread_t` equal to 0, objects of the
application and of the heap different, a table of at least one row, the size of a
ring buffer a divisor of the width of its counters (both are powers of two),
descriptors and sizes that are numbers, paths closed under prefixes, a finite set of
blobs, keys that are natural numbers and trees of at least one level, a block that is
whole words, longer than the length of a message and a divisor of the bytes a count
can tell apart (64 bytes, 8 and 2^29 in the code), a `list_head` that is a head or in
an entry but not both, bytes below 256, digests of keys of sixteen bytes, substitution
boxes of numbers, lengths of packets that an `int` holds, addresses of four bytes, ports of 16 bits, and texts of the
characters of `Endpoint`, none of which is the mark of a failure. Three
hypotheses say more: `OneCreate`, which is the callers' part, `OneYear` and `NoLinks`;
each theorem that needs one names it.

## 7. What is model-checked only

- Liveness of every module, and whatever needs fairness.
- What functions compute in two modules: the numbers, strings and vectors of
  `Serialize`, and `Strings` (`VectorsAndStrings`). Their properties are
  statements about recursive functions on data, and would need induction over it.
- `BroadcastReleases` of the waitable handle; the logger once a slot is covered, of which
  nothing but `TypeOK` is claimed.
- The violations, which are behaviours and not theorems.

## 8. What is left out, and why

Wording and formatting of text; errors of the
pthread calls other than a timeout and a failing create, and of malloc where the
caller only returns; `posix__delay_execution`, which has no shared state; the
targets of the logger other than the file; `priority_task_thread_pool`, which
cannot be instantiated; `priority_task_thread`, whose first step on an empty heap
is undefined; the `tcp_init` count of `network_handler.cpp:20`, whose
effect is in the external library; sending, which passes a packet on; what the
rounds of MD5 and sha256 and the table of crc32 compute, which nothing in the
library depends on; the vfn hashes, the Fourier transform and the other
computations of `toolkit.cpp`, which keep no state and have no inverse to be held
against; system calls that are passed through without a decision.
