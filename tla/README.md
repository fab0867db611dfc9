# SharkCollector: a TLA+ verification project

SharkCollector is an iOS app "to keep track of money owed to you" (`src/README.md`).
A user signs in with Firebase Auth, sees a list of borrowers kept in the Firebase
Realtime Database, opens one, and records payments. The app's own code is about
900 lines of Swift under `src/sharkCollector/sharkCollector/`. The repository also
holds the libraries the app is linked with, under `Pods/`; of these leveldb
(`Pods/leveldb-library`) and nanopb (`Pods/nanopb`) are there as source, and they
store and encode what Firebase keeps on the device. The project models the app and
these two libraries. The app has no tests; leveldb comes with its own
(`Pods/leveldb-library/*/*_test.cc`), which run one thread or one fault at a time. The
statements the project checks the code against are its comments, headers, assertions and
these tests.

Paths of the app are relative to `src/sharkCollector/sharkCollector/`, those of the
libraries to their directories. View controllers
are called by the names the code's comments use: SignInVC, SignUpVC, BorrowersTVC
("the list"), AddBorrowerVC, BorrowerVC ("the form"), PaymentsTVC.

## Inventory: the app

| Component | State | Operations | Interacts with |
|---|---|---|---|
| SignInVC (`Controller/ViewControllers/SignInViewController.swift`) | password field, error label | sign in, go to sign up | Auth (asynchronous), navigation |
| SignUpVC (`.../SignUpViewController.swift`) | none of its own | create account | Auth (asynchronous), navigation |
| BorrowersTVC (`Controller/TableViewControllers/BorrowersTableViewController.swift`) | `borrowers`, `filteredBorrowers`, `shouldShowSearchResults`, `indexOfRowUserClicked` | observe, search, select, add, log out | database events, Auth, navigation, UITableView |
| AddBorrowerVC | text fields | write a borrower and pop | Auth (`currentUser!`), database |
| BorrowerVC | amount, picker, `dateDisplayed` | pick a date, add a payment, open the folder | Auth (`currentUser!`), database, navigation |
| PaymentsTVC | `payments` | observe | Auth (`currentUser!`), database events |
| `Model/` | `Borrower`, `Payment`: immutable values in practice | | |
| AppDelegate, `Main.storyboard` | the navigation stack's root and segues | launch | |
| Firebase Auth (external) | `currentUser`, saved in the keychain | answer requests, sign out | completion blocks on the main queue |
| Firebase Database (external) | pending writes, stored data, observers | store, acknowledge, refuse, raise `.childAdded` | closures on the main queue |

All of the app's code runs on the main thread, so a handler is atomic. What makes
the app hard is what happens *between* handlers:

- Auth answers while the user goes on tapping, in any order, and changes
  `currentUser` before the completion block gets its turn on the main queue;
- database events arrive while the list is filtered, covered, or already left;
- writes are sent without waiting, and are lost, refused or stored without the
  acknowledgement ever arriving;
- observers are never removed, so a screen that was left still runs its closure;
- a row number, an account, a date or a name is read in one handler and used in
  another, when it may mean something else.

`PROJECT.json` lists these hazards at their lines with the properties that cover
them.

What makes each component correct:

- *list*: the table never reads an array out of range; a row stays what it is
  until the user edits the search; a tap opens the borrower of its row;
- *session and navigation*: the stack keeps its shape; whoever is inside is signed
  in; the list, and what is written from it, belong to the current account; every
  request is settled;
- *form*: payments correspond to taps, with the amount on screen and a date that follows
  the day on screen;
- *database*: a write is shown once, on every device, and every
  row can be accounted for; nothing the user may type as a name traps.

## Inventory: the libraries

| Part | State | Operations | Interacts with |
|---|---|---|---|
| leveldb database (`db/db_impl.cc`) | memtables, logs, versions, `writers_`, snapshots, `bg_error_` | Open, Write, Get, iterators, CompactRange, background work, DestroyDB | everything below, under `mutex_` |
| versions (`db/version_set.cc`) | levels of files, compaction pointers, reference counts | Get, LogAndApply, Recover, picking and running compactions | tables, MANIFEST |
| log format (`db/log_writer.cc`, `log_reader.cc`) | blocks of fragments | AddRecord, ReadRecord | logs and MANIFESTs |
| tables (`table/*.cc`, `util/bloom.cc`, `util/comparator.cc`) | blocks, index, filters | Add, Finish, Get, iterate | files, cache |
| iterators (`db/db_iter.cc`, `table/merger.cc`, `table/two_level_iterator.cc`) | positions, direction | Seek, Next, Prev | memtable, tables |
| caches (`util/cache.cc`, `db/table_cache.cc`) | list, hash table, reference counts | Lookup, Insert, Release, Erase | all threads |
| memtable (`db/memtable.cc`, `db/skiplist.h`, `db/write_batch.cc`) | skip list | Insert, Get, iterate | one writer, many readers without a lock |
| arena (`util/arena.cc`) | blocks | Allocate, AllocateAligned | memtable |
| environment (`util/env_posix.cc`, `util/env.cc`, `db/filename.cc`, `util/posix_logger.h`) | files, directory, locks, job queue | write, sync, rename, lock, Schedule, Logv | the operating system |
| repair (`db/repair.cc`) | directory, tables found | RepairDB | damaged databases |
| encodings (`util/coding.cc`, `util/crc32c.cc`, `db/version_edit.cc`, `db/filename.cc`) | none | encode, decode | logs, tables, MANIFEST |
| C binding (`db/c.cc`) | error strings, handles | `leveldb_*` | callers in C |
| nanopb (`pb_encode.c`, `pb_decode.c`, `pb_common.c`) | streams | encode, decode, delimited messages, extensions | callbacks |

What is hard here: the database releases its mutex in the middle of writes, flushes
and compactions; a crash of the process or of the machine can fall between any two
steps, and leaves more or less of every file that was not synced; calls of the system
fail one at a time; readers take no lock and go on for long; files are damaged or cut;
lengths, offsets and numbers meet the ends of blocks, buffers and integers.

What makes each part correct: acknowledged writes survive, readers see their snapshot,
the database can be opened after any crash and answers every call (database); the
newest entry a snapshot may see is the one found (versions, iterators, tables,
memtable); a file or a version that is in use is there (database, references, cache);
what is read is what was written, or an error (log, tables, edits, checksums, messages);
nothing is lost by a repair.

## Modules

| Module | Models | Proofs |
|---|---|---|
| `BorrowersTable` | the list, its search and its selection | `Screens_proofs` |
| `Session` | requests, completion blocks, `currentUser`, the navigation stack | `Session_proofs` |
| `PaymentForm` | the BorrowerVC's amount, picker and buttons | `Screens_proofs` |
| `Ledger` | writes, the Firebase client and server, the rows of both tables, on several devices | `Ledger_proofs` |
| `AtomicStore` | what `include/leveldb/db.h` promises: writes appear at once and stay | |
| `DBImpl` | the database; implements `AtomicStore` | `DBImpl_proofs`, `DBDurable_proofs`, `DBSerial_proofs` |
| `Version`, `Compaction` | levels of files; picking, running and installing compactions | `Compaction_proofs` |
| `LogFormat`, `InternalKeys`, `Table`, `Iterators`, `LRUCache`, `MemTable`, `Arena` | the parts of leveldb of those names | `Platform_proofs` (`Arena`, `MemTable`) |
| `PosixFiles`, `PosixEnv`, `PosixLogger` | files under crashes; mmap slots, locks and the job queue; the info log | `Platform_proofs` (all three) |
| `Repair`, `VersionRefs`, `CApi` | RepairDB; reference counts of versions; the C binding | `Platform_proofs` (`VersionRefs`, `CApi`) |
| `Coding`, `Crc32c`, `VersionEdit`, `FileNames` | encodings | |
| `Pb`, `PbEncode`, `PbDecode`, `PbMessages` | nanopb: fields and streams, encoder, decoder, and messages sent through both | |

`MC*` modules give the constants their values; `MCLibraries` puts the parts of leveldb
and nanopb side by side, one of them running and the others at rest, so that one run
checks each. Operators called a mutant or a mistake in their comment are variants of a
definition with a plausible bug; no specification uses them. For each property of the
runs one of them was checked to violate it.

Several properties of a run are conjunctions of named parts, each with its own comment:
`ListInvariant`, `SessionInvariant`, `SequentialInvariant`, `FormInvariant`,
`RowsAccounted`, `WritesAreSerial`, and one per part of the libraries (`LogReadsBack`,
`TableIsRight`, ...). The type invariant of a module is a conjunct of one of them.

### BorrowersTable

Variables have the names of the controller's. A borrower is its index in
`borrowers`, which only grows; `filteredBorrowers` keeps the order of `borrowers`,
so it is a set of indices. `tableRows` is the number of rows UIKit got at the last
`reloadData`. `Within` and `Lowercased` give the meaning of `range(of:)` and
`lowercased()`; an empty text is never found, which is why an emptied search bar
empties the results. `ChildAdded`, `TextDidChange`, `SearchBarSearchButtonClicked`
and `DidSelectRowAt` are the handlers, the last one with `prepare(for:)`, which
`performSegue` calls. `tappedBorrower` and `tappedIn` record what the user saw.

### Session

`SignInButtonTapped` and `CreateAccountButtonTapped` put a request into `requests`.
`AuthSignsIn`, `AuthCreatesUser` and `AuthFails` answer any of them: they change
`currentUser` and append the block to `mainQueue`. `SignInFailed`,
`SignInSucceeded`, `SignUpFailed`, `SignUpSucceeded` and `OrphanedBlock` are the
blocks. `ShowBorrowers` is the segue to the list with its `viewDidLoad`, which
unwraps `currentUser` and sets `crashed` if there is none. The other actions are
the buttons of the screens, the back button and `Restart`. The e-mail field is
chosen anew at each tap; of passwords only right, wrong and empty matter; a sign-up
whose passwords differ only prints. Assumptions about the platform:

- a list shows Logout in place of the back button, which also disables the edge
  swipe, so a list is left by Logout only;
- `performSegue` of a controller that has been popped finds no navigation
  controller and pushes nothing;
- Auth sets `currentUser` before it enqueues the block, and does both off the main
  thread (`FIRAuth.h` promises the block on the main thread, asynchronously);
- the keychain keeps the user over a restart, and the app shows SignInVC anyway;
- `signOut` may fail, and then leaves the user signed in.

`overlapped` records whether a request was made while another was pending since the
launch, `lastWrite` the account of the last write and of the list under it.

### PaymentForm

Days are numbers, times minutes. The picker shows a day and keeps the time of day at which
it was loaded (`pickerTime`, which differs from one borrower opened to the next);
`dateDisplayed` holds the day of `"\(date)"`, which is in UTC (`UTCDay`).
`sent` are the payments given to `setValue`, each with the number of its tap;
`taps` records the taps with a nonempty amount and what was on screen.

### Ledger

A write has a key (`childByAutoId`), which is its index in `writes`. `pending[d]`
are the writes device `d`'s client has not had acknowledged; `log` is what the
server stored, in order. A table observes a node, has been told of the first `upto`
entries of the log, and shows `rows`; `view` are the children that, as far as the client
knows, its node has. The app's closures append a row for each event (`Shown`) and never look
whether there is one. When there is an event is the client's affair (`Raise`, external):
`.childAdded` for a child that is not in `view`, so for its own write
at once, before the server has it, and not again when the server has it.
`Refuse` is a security rule's answer: the child leaves `view` and the client raises
`.childRemoved`, which the app does not observe, so that the row stays. `EndProcess` loses pending writes, because the app does not
set `persistenceEnabled`. A payment's node is the borrower's name as a path:
`Components` splits it at slashes and is empty for a name `child()` does not accept.
`left` holds the nodes whose screen was left, because their observers stay;
`ChildTraps` is the cast `as!` failing in any of them. For a write of its own that
nests below an observed node the client may raise the event at once or only once it
has the child from the server; the model allows both. The list's own abandoned
observers after Logout do nothing visible and are not kept. The order of rows is
abstracted: the client reports children in key order, the model in log order.

A row of `Ledger` may be for either borrower the user meant: which one a tap opens
is `BorrowersTable`'s subject, whether a tap sends a payment is `PaymentForm`'s,
and which account is written is `Session`'s.

### Database (DBImpl, AtomicStore)

One action is what a thread does between two releases of `mutex_`: `Write` enqueues;
the leader goes through `MakeRoomForWrite` (`RoomError`, `RoomDelay`, `RoomFound`,
`RoomWait`, `RoomSwitch`), appends its group to the log, inserts it into the memtable
and answers; the background thread builds a table from the immutable memtable, or
compacts, writes its MANIFEST record and installs the version; a memtable can be
flushed in the middle of a compaction. `NewIterator` pins memtables and a version.
`OpenStep` is DB::Open with its recovery of MANIFEST and logs. Writes, syncs, flushes,
compactions, the records of the MANIFEST and, in Open, opening and reading a log and
writing a table and the MANIFEST may fail. Left out are the failures of Open that only send
it back to the closed database: NewDB, GetChildren, the new log, and reading CURRENT and
the MANIFEST; a process crash at that point does the same. `ProcessCrash` keeps what was given to the system; `MachineCrash` keeps any
part of the unsynced ends of logs and MANIFEST. `must` are the acknowledged writes that
no crash so far could take.

Recover goes on after a log whose recovery failed and keeps the status of the last one
(`db_impl.cc:343-350`). Without `paranoid_checks`, which is the default, a log that cannot
be opened (`:383-387`) or read (`log_reader.cc:189-193`) is taken for what was read of it and
Open returns OK. In both cases the log is deleted afterwards (`RecoverLogFile`,
`ReadInPart`). `SilentFaults` says whether recovery may meet such an error that
Open does not report; with it `AcknowledgedSurvives` and `RefinesAtomicStore` fail, for
either value of `paranoid_checks` (the run `leveldb_recover` has the first of the two
causes). Without it the behaviours for `paranoid_checks = FALSE` are among those for `TRUE`,
so that `leveldb_db` covers both.

The background thread decides at `db_impl.cc:664` whether its compaction is a manual one
and dereferences `manual_compaction_` at its end (`:725-737`). A TEST_CompactRange that
meanwhile gave up because of a failed sync in Write (`:1208`) has set it to NULL (`:584-587`):
`BackgroundDone` then goes to `"null"` and `NullDereference` ends the process. `CallsReturn`
therefore says that calls return or the process dies, and this is the only death of its own.

`RefinesAtomicStore` maps the database to `AtomicStore`: the store is what the open
database contains (closed: what has to be found again), `done` are the calls that
returned OK. A group commits when the leader publishes the sequence number; everything
else but Open, Stop and Destroy is a stutter. So groups appear at once, and nothing
that was acknowledged goes but by a machine crash without sync.

Abstractions: a group, a memtable and a record of a log are sets of writes; a batch has one entry; a compaction has one output; tables are written
and synced in one step; changes of the directory are durable in the order in which they
are made (`PosixFiles` looks at that); records of the MANIFEST are whole or missing; an
Insert into the memtable does not fail. Writes acknowledged after a failed append into
the same log are exempt (`unsure`): `log_writer.cc` does not know how much of the record
is in the file, and what follows it may not be readable. GetProperty, GetApproximateSizes
and the statistics are left out.

### Versions and compactions (Version, Compaction)

Keys, sequence numbers and files are small; a file is its set of entries with its
smallest and largest key. `Version` has the pure parts: FindFile, overlaps, the search
order of Get, scores, PickLevelForMemTableOutput. `Compaction` has writes, flushes,
PickCompaction with size and seek triggers, manual ranges, SetupOtherInputs with its
attempt to grow, trivial moves, the loop of DoCompactionWork entry by entry with its
two rules for dropping and its rule for stopping before grandparents, LogAndApply and
the manifest's records, and Recover. `history` holds all writes, for the reference.
`undercut` and `split` exempt two known situations, both described below.

### Parts of leveldb

- `LogFormat`: bytes of a log by what they are for; a file that is cut, damaged in a
  length, a checksum or a type, or read from an offset. Errors of Read and Skip
  (`log_reader.cc:49-53`, `:189-193`) are left out here (`DBImpl` has what they do to a recovery),
  and the properties are about what is read, not about the bytes reported as lost.
- `Table`, `InternalKeys`: TableBuilder and Table with real blocks of entries with shared
  prefixes, restart points, FindShortestSeparator and FindShortSuccessor over a small
  alphabet, bloom filters per range of offsets, and Block::Iter. Snappy is not compiled
  in. ChangeOptions may come between two entries. A block may be damaged in its structure,
  in a byte of a key, of a value, a handle or a filter, in its type or in its checksum. Reads of index,
  metaindex and filter verify checksums with `paranoid_checks`, reads of data with
  `verify_checksums`; both are off by default. Unverified, a wrong byte gives a wrong answer
  with OK, as the code does (`format.cc:91`); `DamageIsNotAnAnswer` says how far
  the harm goes. Damage of the footer is left out, and so is the block cache, which may hand a
  block that was read unverified to a read that verifies.
- `Iterators`: DBIter over MergingIterator over a memtable that is written to meanwhile
  and TwoLevelIterators with blocks that cannot be read. A key that does not parse is
  not modelled.
- `LRUCache`: one shard, its chains and Resize, the two steps of a lookup that misses
  (FindTable: nobody holds a lock between miss and insert).
- `MemTable`: Insert link by link while readers search and move; loads and stores of
  links are sequentially consistent in the model; `max_height_` is read racily, as the
  code says. Values and deletions are alike.
- `PosixFiles`: names and inodes apart, so that a machine crash keeps a prefix of the
  directory's changes since its last sync. A process crash therefore leaves alone the
  files that have no name now: a machine crash may return to a state of the directory
  that names them. The proof needed this; an earlier version of the model emptied such
  files, which only a third crash shows, and the run has two. That the directory entry of a new log is
  durable is assumed: `db_impl.cc:1327` creates it without syncing the directory.
- `PosixEnv`: the limiter of mmaps with its unlocked first look, locks between and
  within processes, Schedule and BGThread. A LockFile that is refused closes a
  descriptor of the file and with it drops the kernel's lock of the process
  (`env_posix.cc:423`), and UnlockFile closes after it has freed the name (`:444`); the
  property therefore is about holders of both the lock and the name.
- `Repair`: RepairDB phase by phase over logs, tables and descriptors that are good,
  damaged or mangled, with failing calls and crashes, after which it is run again. `lost/`
  is kept by name and starts with what an earlier repair archived: ArchiveFile renames over a
  file of the same name (`repair.cc:446-449`), and numbers in `lost/` do not raise
  `next_file_number_` (`:133`). `NothingIsDestroyed` is therefore about the entries of the
  directory, which are never overwritten, and not about earlier archives, which may be. An
  abandoned copy has no footer (`Unfinished`), so a later run cannot open it. That
  the newest value wins is not promised: all tables go to level 0 by number
  (`repair.cc:395`). MANIFEST-000001 may take the number of an existing descriptor. The
  comment at `repair.cc:189` says "We intentionally make log::Reader do checksumming" and
  the code passes `false/*do not checksum*/`; the model follows the code (`"mangled"`).
- `VersionRefs`: Ref and Unref of versions and files by readers, compactions and
  LogAndApply, also when it fails, and the list of live versions.
- `CApi`: strings and handles a caller owns; `malloc(0)` is taken not to be NULL. A Get
  that found its key returns a string and no error, one that did not neither, one that
  failed an error only (`AnswersAreDistinct`).
- `VersionEdit`, `Coding`, `FileNames`, `Crc32c`: over real bytes and digits with small
  words. `VersionEdit::Clear` leaves `compact_pointers_` alone, which the model keeps.

### nanopb

Field descriptors are records (type, rule, tag, sizes, submessage); messages are
functions from fields to values; streams are sequences of bytes with `bytes_left`, so
every length and every cut is real. Modelled are varints, fixed-width integers, bytes,
strings, fixed-length bytes, submessages, packed and unpacked arrays, oneofs,
extensions, callbacks, delimited messages, and skipping unknown fields. `DecodeTwice` reads two
delimited messages one after the other into one struct, so that the second meets what the first
left there: by `FramesStaySeparate` nothing of it is left but what callbacks were given (`Behind`). Not modelled:
pointer fields (`PB_ENABLE_MALLOC` is off) and default values other than zero. Seen
while modelling and not covered by a property: a number of required fields that is a
multiple of 32 shifts by the width of the word (`pb_decode.c:947`), the proto3 default
check looks at the first entry only (`pb_encode.c:205`), a callback that reads nothing
is called for ever (`pb_decode.c:629`), and a stream that ends inside a tag counts as
ended (`:251`), which `CutsAreNoticed` allows for.

## Runs

| Run | Bounds | States | Shows |
|---|---|---|---|
| `borrowers_list` | 3 names, 3 texts, 4 borrowers | 5,669 | rows backed, stable; selection in range; unfiltered taps right |
| `borrowers_tap` | 2 borrowers | violation | a tap on a search result opens another borrower |
| `session` | 2 accounts, 3 requests per launch | 553,898 | stack shape and signed-in user under every interleaving; the Sequential properties; every request settles |
| `payment_form` | 2 days, 2 amounts, 3 taps, 03:20 and 21:40 at UTC-5 | 314,568 | payments and taps correspond; dates keep the order of days |
| `payment_dropped` | as above, 12:00 | violation | a payment with the picker untouched is not sent |
| `ledger` | 2 devices, 3 names, 3 writes | 2,052,836 | no row twice, none missed, each accounted for; only names that are paths make the app trap |
| `ledger_live` | 2 devices, 1 name, 2 writes | 34,393 | what is stored is shown on both |
| `leveldb_db` | plans of 2 or 3 writes with up to 2 stops, 1 I/O error, 1 reader | 1,128,574 | safety of the database, every call returns, `AtomicStore` is implemented |
| `leveldb_recover` | 2 writes, 1 stop, 1 I/O error | violation | Open passes over a log it could not recover and deletes it |
| `leveldb_versions` | 3 keys, 3 sequence numbers, 3 levels, 5 files, 1 snapshot | 541,443 | levels stay sorted, reads are right, the manifest is current |
| `leveldb_deleted` | as above, 6 files | violation | a deleted value comes back |
| `libraries` | see `MCLibraries.cfg` | 1,209,309 | each part of the libraries by itself |

Why the bounds are enough to be interesting. *List*: four borrowers and names with
and without a common substring give results that are all, some and none of the
list, and stale ones. *Session*: two requests are needed for a late answer under a
list, the third for two lists above each other and one more block. *Form*: three
taps cover a payment before, after a turn of the picker, and with another borrower.
*Ledger*: two devices and three writes are a borrower and two payments, each of them
lost, refused or unacknowledged; names that are paths of each other, or no paths, are
explored with one device showing something (`InScene`). *Database*: `WriteBuffer = 0` makes
every write after the first switch memtables, so two writes reach a flush and three a
flush during a compaction; two stops are a crash and one during the recovery from it.
Each plan bounds all four kinds of events. *Versions*: five files and three levels reach
compactions with one and two levels of inputs, grandparents, trivial moves and two
files of a level that share a user key. *Libraries*: blocks, buffers, words and
alphabets are cut down so that ends, boundaries and wrap-around are reached by two or
three calls; the memtable and the references of versions, which are also proved, have the
smallest instances. Every bound is a constant with a name.

Deadlock is checked for the app: in every state the user can still do something, if
only restart. It is not for leveldb and nanopb, whose bounded clients stop when their
calls are used up; that no call hangs is `CallsReturn`.

Fairness. `Session!FairSpec`: Auth answers each request, if only with a timeout
(weak fairness for each request), and the run loop serves the main queue. Nothing is
assumed of the user. `Ledger!FairSpec`: the network comes back, so a client sends
what it has, gets its acknowledgements and its events. `StoredIsShown` needs no
assumption on the user either, because it ends when the screen is closed. `DBSpec`:
a writer, the background thread and a thread in CompactRange that can take a step take
one at last (the operating system schedules threads and hands on the mutex); nothing is
assumed of clients, crashes or I/O.

## What the violations show

Each is a finding in `PROJECT.json` with the quoted line.

1. `prepare(for:)` indexes `borrowers` with a row of `filteredBorrowers`.
2. `dateDisplayed` is nil until the picker is turned, and the payment is dropped.
3. `DBImpl::Recover` keeps only the status of the last log. If the table of an earlier log
   cannot be written, Open succeeds and the log is deleted, with acknowledged writes.
4. Two files of a level may share a user key (a compaction's output is cut between
   entries of one key that a snapshot keeps). `SetupOtherInputs` can then compact the one
   with the deletion and not the one with the older value, which is read again.

Four more behaviours are in the models and bounded by passing properties. With two
sign-ins under way, Logout between an answer and its block makes `currentUser!` trap in
the list's `viewDidLoad`; without Logout a borrower is written to the account of the
second answer while the list shows that of the first: `SequentialInvariant` shows that
both need overlapping requests. The stored date is in UTC, where the comment at
`BorrowerViewController.swift:57` speaks of the "date currently displayed": it may be the day before or
after the one on screen, and one day on screen may be stored as two dates if two forms were
opened at different hours. `DatesKeepOrder` shows that this is all: a date is at most one day off,
in a time zone always to the same side, and payments of an earlier and a later day on screen are never
stored in the other order. A borrower's name is a database path, so that a payment
to "Al/Jr" is a child of the node observed for "Al" and the cast traps:
`TrapsOnlyOnPathNames` shows that names are the only reason. And a memtable flushed
during a manual compaction over a range with a gap may be put between its inputs, so
that files of a level overlap and the assertion at `version_set.cc:757` fails: `LevelsDisjoint` holds but for
that (`undercut`). Get and iterators are exempt with it: binary search in such a level misses
files, so that a later compaction may leave an older value out of its inputs and drop the marker
that hides it. For iterators the run's instance is too small to get there (it takes
`MaxSeq = 5` and a level 1 that keeps five entries); the proof of `IteratorSeesNewest` needs the exemption.

## What is proved

`TLAPS` checks the following for every value of the constants.

- **List** (`Screens_proofs`): from `TextAssumption` and `BoundAssumption`. The
  inductive invariant `ListInvariant` is the conjunction of the checked invariants and
  `shouldShowSearchResults = (searchText # "")`, without which the Search button could
  show results of no text. Results are within `1..Len(borrowers)` and a subset has at
  most as many elements, so a row number of the results is an index of the list.
  `RowsAreStable` needs that the n-th smallest element of the results exists and is
  unique, which is proved by counting (`NthInResults`), and that the arrays only grow.
- **Session** (`Session_proofs`): from `NoUserAssumption` and `RequestsAssumption`.
  `SessionInvariant` = types, stack shape, signed-in user inside; it is inductive because only
  Logout clears `currentUser`, and Logout empties the stack. `SequentialInvariant` rests on it and
  says what holds while requests have not overlapped: at most one request or block,
  none while a screen of the inside is shown (`OneAtATime`), a waiting successful
  block is for the current user, and a SignUpVC that still may push is second on the
  stack (`SignUpSecond`, which holds also with overlaps). Pushes, pops and the return
  to the root are lemmas about the stack; each action then needs only its own part.
- **Form** (`Screens_proofs`): from the three assumptions on days, times and
  amounts. `FormInvariant` (`FormTypeOK /\ DateFollowsPicker /\ OnePaymentPerTap`) is
  inductive as it stands; with the times at which forms are opened and the offset of a
  time zone within their bounds, `DatesKeepOrder` follows (`DatesAlwaysKeepOrder`) because
  division by a day is monotone (`UTCDayOrder`).
- **Ledger** (`Ledger_proofs`): from `NameAssumption` and `WritesAssumption`, for any
  devices. The inductive invariant `IInv` says that a key is stored once and waits on one
  device in one place, never refused (`LogOK`, `PendingOK`), that every row of a table is
  a key of its node that its device knows, and is a child the client still has or was
  refused (`TablesOK`), so that an event is never about a key that has a row; and that
  every stored key up to where the table was told is among its rows. From it follow
  `NoDuplicateRows` (`LedgerNoDuplicateRows`), `RowsAccounted`, `NoRowMissed` and `TrapsOnlyOnPathNames`. Without `PendingOK` a resent write could be
  stored a second time.
- **Environment, arena and C binding** (`Platform_proofs`): from `EnvAssumption`,
  `ArenaAssumption` and `CApiAssumption`. Free slots of the limiter and slots in use add
  up to its limit, for any finite set of readers (counted with `FiniteSetTheorems`); one process
  holds the lock; jobs run in the order they were scheduled and none is left behind by a
  sleeping thread. The objects of an arena lie inside their blocks below the
  arena's pointer, so no two overlap, for any sizes. A string of the C binding is owned
  by `*errptr` or by the client, never by both or by none.
- **Info log** (`Platform_proofs`): `LinesAreWhole`, from `LoggerAssumption`. A call starts
  with fresh buffers, so there is nothing to strengthen: the proof is about what two
  `snprintf` calls, the truncation and the newline leave at each byte.
- **References of versions** (`Platform_proofs`): `ReferencesAreRight`, from `RefAssumption`,
  for any finite set of readers. `RefInv` says that the versions form one circular doubly
  linked list (every version can be ranked by its distance from the dummy, `Ranked`),
  beside which at most the version that LogAndApply is building stands alone; that a
  version is counted once per pin, for the inputs of a compaction and for being current
  (`HoldsOK`), and a file once per version that has it (`FilesOK`); and that a closed set
  is held by nobody. The ranks are needed because reading `prev` and `next` of a node says
  nothing of whether a walk from the dummy (`AddLiveFiles`) comes by.
- **Memtable** (`Platform_proofs`): `MemTableIsRight`, from `MemTableAssumption`. `MemInv`
  says that each link of a level leads to the next node linked on it (`Follows`), also that of the
  node about to be published; that links are unset exactly from the inserter's level up
  (`NodesOK`), so that levels are nested; that records are numbered from `published` (`InserterOK`); and
  that the reader is on a node of its level before its target (`WalkOK`). Nodes are never
  unlinked, so each store of the writer keeps the reader's place; the search ends
  between two neighbours of the bottom list, which hold nothing that was there when the
  search started. Entries of the batch in progress have higher numbers than the
  snapshot and sort before the target of their key.
- **Files under crashes** (`Platform_proofs`): `FilesSurvive`, without an assumption on the
  constants, for any number of crashes of the process and the machine. A machine crash may
  return to any state of the directory since its last sync, so the property of the present
  state is not enough: `FileInv` asks of all of them (`StoreOK`, `DirOK`) that CURRENT is a whole
  synced line, that the synced records of the MANIFEST it names lead to whole synced
  tables and include all that was acknowledged, and that the log has what was synced; of
  the present state, also that the log has what was flushed (`LastOK`). Two names share a file
  only when CURRENT is the renamed temporary file (`NamesApart`). Of the file being written
  (`JobOK`): the number of a new one is above the recorded ones (`Fresh`), so that nothing CURRENT
  leads to is written over; the table a record is about is whole and synced before the
  record is written (`RecordJob`), and its name is durable before the record is, as
  `SyncDirIfManifest` syncs the directory first; and a new MANIFEST has all its data on disk
  before CURRENT is renamed to name it (`CurrentJob`).
- **Database** (`DBImpl_proofs`): from `DBAssumption`, for any number of writes, crashes,
  I/O errors and readers. `Inv` ties the threads to the state of the database, says which
  file numbers are taken, and which tables the current version, a reader, a compaction, a
  recovery and every record of the MANIFEST that a restart may find last refer to; it is
  needed because DeleteObsoleteFiles looks only at the first four. `NeededFilesExist` and
  `AlwaysRecoverable` follow.
- **Durability** (`DBDurable_proofs`): `AcknowledgedSurvives`, from `DBAssumption` and
  `~SilentFaults`: that Open reports every error RecoverLogFile meets. The run
  `leveldb_recover` shows that the theorem is false without it, also with
  `paranoid_checks`. `AckInv` rests on `Inv` and says
  where a write is at any time. What is in a memtable is in its log, and synced if
  that was asked for (`MemsKept`); each record of the MANIFEST a restart may find last, with
  the logs from its log number on, has every write that is due (`LatestOK`); what a flush
  or a compaction is about to install stores what it replaces, under numbers not in use
  (`JobOK`); a leader that goes on to answer OK has its group in log and memtable
  (`LeaderOK`); a recovery has in tables, or still to read, all that is due (`RecoveryOK`). A
  log is deleted only when its memtable is in a version whose record is synced, which is
  why a crash of the machine between the two finds one or the other. Each step is a lemma
  of its own; steps that only add share the lemmas `StoreKept...` and `LatestKept`.
- **Order, readers and refinement** (`DBSerial_proofs`): `WritesAreSerial`,
  `ReaderSeesItsSnapshot` and `RefinesAtomicStore`, from the same two assumptions.
  `SerialInv` rests on `Inv` and `AckInv`. The queue is in the order of arrival and the group
  is its first part (`QueueOrder`, `GroupOK`); the group is nowhere but in the log and,
  as far as inserted, the memtable (`GroupPlaced`). Writes that are anywhere, in a log, a table or
  a memtable, are numbered in the order of arrival (`Monotone`); those of the group have
  numbers above `last_sequence`, all others up to it (`Counted`). That survives a restart because
  no record of the MANIFEST a restart may find has a `last_sequence` below a write in its
  tables, and the logs raise it (`RecordsSeq`): failed groups therefore use up their
  numbers (`AdvanceSequence`). What is promised is what the database holds without the group
  (`ContentsOK`), so a reader's snapshot is exactly what was promised, and stays so because
  a flush or compaction makes new files only of what is there (`JobContents`) and
  never under a number a reader holds (`PinnedOK`). The refinement follows step by step: the store is
  what was promised and is not unsure (`StoreIs`); `FinishWrite` with OK is `Commit`,
  `OpenInstall` is `Start`, `Close` and the crashes are `Stop`, `DestroyDB` is
  `Destroy`, a call that arrives is `Issue`, and every other step changes nothing.
- **Levels and compactions** (`Compaction_proofs`): `ManifestIsCurrent`, `InputsStayLive`,
  `LevelsDisjoint`, `IteratorSeesNewest` and `GetSeesNewest`, from `VersionAssumption` and `FileAssumption`, for any number of keys,
  levels, files, snapshots and restarts. `CompactionInv` says that the entries of files were
  written, each under its own number (`HistoryOK`); that the manifest's deletions and
  additions amount to the current version, in which a number is used once and a live file
  is on a level below all it was deleted from (`FilesOK`); and that the inputs of a
  job, and the file a read has charged, are files of the current version (`JobOK`,
  `SeekFileOK`). The second part is why replaying the records in groups, or from a snapshot
  record, gives the same version: a trivial move deletes and adds one number, and a deletion never
  reaches a file added later. For it the outputs of the loop of DoCompactionWork must be
  nonempty sets of the inputs' entries (`CompactionOutputs`), the binary search and the
  restarting search must end and give files of their level (`FindFileIndex`,
  `OverlappingInputs`), and picking must give inputs (`PickedInputsOK`, `RangeInputsOK`).
  Disjointness needs a second invariant, `DisjointInv`: the files of the output level that the
  compaction under way does not read are before or after everything it reads (`JobApart`), so
  its outputs, which follow one another (`InSteps`), fit between them; and the inputs of an
  automatic compaction leave no gap of user keys (`JobConnected`), so a memtable that becomes a table
  below level 0 during it, overlapping no file on the way down (`PickedLevel`, `NoOverlap`), lands
  beside the inputs and not among them. The files of a manual
  compaction's range may have gaps; this is where `undercut` is needed.
  That reads see the newest entry needs a third pair. `OrderInv` and `NewestInv` say that of a user key
  (not in `split`) the newer entries are in the memtable, then on the upper levels, in level 0 in
  the files with the larger numbers (`MemNewer`, `LevelOrder`, `Level0Order`); that every read
  point finds its newest entry stored, unless that is a deletion marker with nothing older left
  (`NewestSeen`); and that no file beside the inputs of the compaction under way holds what is
  older than they are (`Job0`, `JobNext`), nor a table put below them since it started one of
  their user keys (`JobDeeper`), which is why looking for base levels in the version the
  compaction started from is right although the current version is another. Level 0 needs the
  restarting search: its inputs are closed under common user keys (`RangeIsClosed`). What the loop
  drops is hidden from the smallest snapshot or a marker at its base level (`Compacted`). A Get
  stops at the first file with an entry; binary search in a sorted level finds the only file that
  holds the user key (`FileFound`), and the files are read in the order of the invariant
  (`SearchFiles`, `VersionGetNewest`).

The provers cannot use induction over an operator. What needs it here (a minimum, a last
position) is taken from the well-foundedness of the naturals (`LeastNat`).

Only model-checked: liveness (`RequestsSettle`, `StoredIsShown`, `CallsReturn`), which is
beyond the prover; the cache and repair, whose operators are recursive functions and folds over sequences, about which the
prover finds nothing without induction; log format, iterators, encodings, tables
and nanopb, whose modules use recursive operators, which the prover does not take.

## Not modelled

- the two files under `Controller/ViewControllers/TableViewControllers/`: unedited
  Xcode templates, not part of the target;
- layout, keyboard handling (`touchesBegan`, `endEditing`), labels and printed texts;
- a borrower's debt: it is stored and shown, never computed with;
- `db_bench.cc`, `dumpfile.cc`, `leveldb_main.cc`, histograms: tools; `port/`: wrappers of
  pthreads and atomics, whose meaning the models use;
- GTMSessionFetcher and GoogleToolboxForMac: used by Firebase's binaries only;
- the Firebase frameworks: closed binaries with headers; what the app uses of Auth and
  Database is modelled as external, from how the app uses it.

## Plan

Done: the app's four components with their runs and proofs; leveldb and nanopb as
above; for the database with its refinement of `AtomicStore`, versions and compactions,
the memtable, the references of versions, the environment, the info log, the arena and the C binding
also proofs.

1. `AccountBook`: what the database promises the app, a set of stored entries and,
   for each open screen, a growing subset of the entries of its node; `Ledger`
   implements it.
2. `SharkApp`: `Session` composed with the tables of `Ledger` for two accounts, for what
   neither shows alone: which account's rows a list shows when `currentUser` changes
   under it, and what its writes then do to the rows.
