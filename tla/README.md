# s2k (sync2kindle) in TLA+

s2k synchronises a directory of books with a Kindle: over USB mass storage, over
MTP, or by e-mail. Each run compares three sets of files, the local ones (L), those
recorded in a history database (H) and those on the device (D), plans a list of
actions, carries them out one by one and then records the local books as the new
history. The user edits both sides in between, and nothing stops him from doing it
during a run. A cable can be pulled, a mail can fail, the process can die. The
history is all that tells "never sent" from "removed from the device", and a wrong
guess deletes books from the user's own directory. This is what the modules here
are mostly about.

## The system

| part | code | state it keeps | operations | who calls it |
|---|---|---|---|---|
| sync run | `sync/run.go` | none beyond one run | connect, plan, execute, save | command line |
| sync planner | `sync/prepare.go` | the sets L, H, D while it plans | PrepareActions: cases 7, 6, 3 of its table | sync run |
| object sets | `objects/` | maps from paths to shared `*ObjectInfo` | Find, Add, Delete, Subset, Diff, Subtract, Intersect, Union | planner, drivers |
| local files, USBMS | `files/`, `usbms/` | a file system, a mount point | MkDir, Remove, Copy, GetObjectInfos | planner, action loop |
| MTP | `mtp/` | device handle, object ids | the same four, pickDevice | planner, action loop |
| e-mail | `mail/` | none | Copy: one mail | action loop |
| history | `history/` | SQLite file: identifiers, steps, objects | Create, Connect, GetObjectInfos, SaveObjectInfos | sync run |
| thumbnails | `thumbs/` | the book in a buffer, a temporary directory | ExtractThumbnail for MOBI and KFX | local files |
| history listing | `history/run.go` | none | RunList | command line |
| configuration, logging | `config/` | read once | LoadConfiguration | command line |
| debug report | `config/reporter.go` | references to files, an archive | Store, StoreCopy, Close | all |
| command line | `cmd/s2k`, `state/` | environment of the run | sync, history, dumpconfig, teardown | user |

The program is sequential: no goroutine of its own works on the sync. What is
concurrent with it is the user, on both file systems, and a second s2k started by
hand or by a timer, which shares the database file. The drivers are called
synchronously, in the order of the plan; an error of any action ends the run before
the history is saved.

What makes each part correct:

- planner and run: a book goes from the source only when the user has removed it
  from the device; the history never claims a book that was not delivered; files the
  tool knows nothing of stay; a second run has nothing to do; in the end both sides
  agree;
- paths: every action of a plan can be carried out when its turn comes, and the side
  files and the directories of a book come and go with it;
- history: a run sees one whole snapshot, the newest when it connected, and adds one
  whole snapshot or none, whoever else runs and whatever breaks off;
- several configurations: each one's runs are as correct as if it were alone;
- thumbnails: the name given to a book leads to its own cover, whatever shape its file has,
  whatever else is in the source;
- one invocation: what it has opened is closed and what it has made is removed, in the
  right order and wherever it breaks off;
- e-mail: what is recorded was mailed, what is local gets mailed, and nothing is
  mailed twice without a failure to blame.

The table of hazards, each at its line with the properties that cover it, is in
`PROJECT.json`.

## Modules

| module | models | proofs |
|---|---|---|
| `SyncPlan` | cases 7, 6 and 3 of PrepareActions on books, as set expressions over L, H, D | |
| `BookSync` | the life of the books over many runs: scan, plan, each action, save; user edits at any step; crashes, I/O errors, copies cut short | `BookSyncProofs` |
| `BookSyncObserved` | BookSync with history variables, and all its properties | `BookSyncProofs` |
| `ObjectSets` | the sets of `objects/infoset.go` with paths as sequences of names | |
| `PathPlan` | one run with directories, page indexes, .sdr directories, thumbnails, shared object pointers | `PathPlanProofs` |
| `HistoryLog` | the abstract specification: a log of snapshots | |
| `HistoryDB` | the SQLite file: creation, migrations, identifiers, transactions, overlapping runs; implements `HistoryLog` | `HistoryDBProofs` |
| `MailSync` | runs by e-mail | `MailSyncProofs` |
| `Configurations` | several sources, devices and target directories, each pair with the database its name leads to | `ConfigurationsProofs` |
| `MtpDevice` | the MTP drivers under the plans of PathPlan: objects by ids, listed as paths; implements `PathPlan` | `MtpDeviceProofs` |
| `PickDevice` | pickDevice, Connect and Disconnect of `usbms/` and `mtp/`, on Linux and Windows | `SessionProofs` |
| `Session` | one invocation of any command from its start to its exit: what is opened, stored for the report, closed, archived, removed | `SessionProofs` |
| `KfxReader` | `thumbs/kfx`: the way through a KFX container to its cover, in a buffer that the decoder writes into | |
| `MobiReader` | `thumbs/mobi`: the cover of a Mobi or AZW3 book, as operators | |
| `Thumbnails` | the walk over the source with both readers, and the pictures it writes | `ThumbnailsProofs` |

Each `MC...` module gives the constants of one of them, each `MC..._x.cfg` an instance.
`SyncPlan` is shared by `BookSync` and `Configurations`, so that both plan with the
same operators; `HistoryDB` relates to `BookSync` through `HistoryLog`: what BookSync
does in one step with the variable `history` is what the log promises. `MtpDevice`
relates to `PathPlan` by a refinement that forgets the ids, so what PathPlan shows for
paths holds for a device without paths; `Session` extends `PickDevice`, with Pick and
Disconnect as its steps. Definitions
named `Wrong...` are variants with a mistake; nothing uses them, and each shows that a
property notices that mistake.

### BookSync and the code

| variable | in the code |
|---|---|
| `local`, `device` | the two directories; a book is a path relative to them, a version stands for a hash |
| `history`, `synced` | the objects of the last step; `StepID() # 0` |
| `snap` | `srcOIS`, later `localBooks` |
| `case7`, `case6`, `case3`, `replace`, `current` | what is left of the list of actions |
| `anyAction` | `len(actions) != 0` |
| the argument `ignore` of `PlanWith` | `--ignore-device-removals`: each run chooses |
| `edits`, `faults` | bounds only |

`StartSync`, `ScanLocal`, `PrepareActions`, `RemoveLocalBook`, `RemoveDeviceBook`,
`RemoveOldCopy`, `CopyBook` and `Finish` are the steps of `Sync`; between any two of
them the user may act. `NoLocalBooks`, `ActionFails`, `CopyOfOtherSize`,
`CopyCutShort` and `Interrupt` end it early, each where the code does. What a copy
leaves on the device (`Written`) follows the missing `O_TRUNC`: a shorter version
written over a longer one is `Garbled`. `ScanSkips` and `DeviceScanSkips` are scans that
pass over what they cannot read, log it and return no error; they happen once and the next
scan sees all again, they count as faults, and like a broken run they end what `unbroken`
vouches for. A MkDir that runs into a directory passed over is an `Interrupt`, and costs
another fault. The history and the device are read in one
step with the planning: between these reads the code does nothing that anyone sees.

`BookSyncObserved` adds what the properties need to remember: who removed a book from
the device (`userRemoved`), who put it there (`foreign`, `everForeign`), what was ever
on either side, whether runs were broken off (`unbroken`), whether an edit fell into a
run (`apart`).

### PathPlan and the code

The variable `plan` holds the list of actions with the sets as they are while it is
made; `PlanCase7/6/3(b)` plan for one book, in any order, as Go ranges over a map.
Objects have identities, because an action keeps the pointer and `files/device.go`
joins the mount point to the path of the object in place: an object is `Used` when an
earlier action of the plan had it. `RunAction`
carries the plan out on file systems that refuse what a file system
refuses: a file without its directory, a second object of a name, the removal of a
directory that is not empty, of a file that is not there. Nobody interferes.

### HistoryDB and the code

`Stat` decides between `CreateFile`, `Migrate`, `Identify` and `Connect`; `BeginSave`,
`InsertObject` and `Commit` are `SaveObjectInfos`. The step id in memory is the one of
the connection (`stepID`), so a run beside a saving one keeps planning with the old
step. The refinement maps the committed steps to the log; the open transaction, the
migrations and the identifiers are hidden.

### MailSync, Configurations

`MailSync` merges scan and planning, because the device is the history there; each mail
is a step. A mail whose sending fails may or may not have been delivered. In
`Configurations` a run is one step: the question is only what the runs of
different configurations do to each other through the places and the databases they
share. `HistoryOf` is the file name (`history/name.go`), `Place` the device directory.
A history holds the objects of the source that recorded it, with their paths in that
source; `recorder` is that source. Case 7 takes its objects from the history, so a run
removes them from the source of `recorder`, which need not be its own (`RemoveBooks`),
and then saves the books of its own source. When a book is no longer where it was
recorded, the removal fails, after others perhaps, and nothing is saved (`RunFails`);
nothing else fails here.

### MtpDevice and the code

`store` is what the device holds: objects with an id, the id of a parent and a name.
`oids` stands for the fields `Oid` of the objects the planner works with; the other
variables are those of PathPlan, whose planning steps are used as they are. `Listed` is
`enumerateObjects`, `MkDir`, `Copy` and `Remove` are the functions of the driver. The
first two look the parent up in the set the plan has left (`obj.OIS`), where a
directory that the same run makes has no id before its MkDir. The device may give a
new object any id that is free, one that was in use before included. A listing may lose
what lies below some directories (`Unread`, both systems) or the names of some objects
(`Nameless`, Windows only, where each property is asked for by itself): `path.Join` then
leaves the name out, and the object gets the path of its parent. In all else Linux and
Windows agree. A directory that is not empty is not deleted; on Linux that is up
to the device, but no plan of PathPlan comes to it (`NothingFails`).

### PickDevice and the code

`attached` is the list of devices as libmtp, sysfs, the setup API or the portable device
manager gives it, with what each of them may be like (`health`). `looked` is the index of
the loop, `picked` and `serial` are `usbIDs`, `root` stands for `mount` or `dev`: the
device whose files will be used. `LookUsbmsLinux`, `LookUsbmsWindows`, `LookMtpLinux` and
`LookMtpWindows` are one round of the loop of each driver; `DetectFails`, `EndOfList`,
`Connect` and `Disconnect` are the rest of it. `ReadToBase16` is what `FromSysfsNumber`
makes of a decimal number.

### Session and the code

`pc` follows `main`, `beforeAppRun`, the command and the deferred calls:
`LoadConfiguration`, `PrepareReport` and `PrepareLogs` are `beforeAppRun`; then comes one of
`RunList` (history), `OutputConfiguration` (dumpconfig) and `RunSync`, the last of which goes
on with `ConnectSource`, `ConnectMail` or `ConnectDevice` (a step of Pick each), `OpenHistory`,
`Work` (all of BookSync and PathPlan, to the end or to the first error), then on the way
out `CloseHistory`, `Leave`, `CloseReport`, `CleanUp`. Each of the first ones may
fail and then goes to the way out at the place that corresponds to the deferred calls
already registered. `stored` holds the names given to the report, `archive` what Close
finds of them, `temp` the temporary directories on the disk. `panicLog` is the file that is opened
for the trace of a crash: beside the log file configured, where the end of main looks for it
and removes it when it is empty, or `"elsewhere"`, where nobody does. With a report the file
is opened for overwriting even if the log is appended to, so that the trace of an earlier
crash is lost (`PanicLogsToOpen`).

### Thumbnails and the code

`Thumbnails` walks over the files in order; `OpenKfx`, `ReadKfx` and `CloseKfx` are
`NewReader`, the steps of `extractThumbnail` and the way back, `ReadMobi` does a Mobi book in
one step, because its reader changes nothing it reads. `pictures` is the directory of
thumbnails by name; two books with one ASIN write the same file.

A KFX book is one buffer, and a position counts its cells: headers, entries of the index,
version markers, pieces of fragments. The document symbols are a slice of the buffer, and
`decodeIon` appends to that slice what it decodes: `Appended` is what this writes over, in
the book itself while there is room behind the symbols, in a new buffer otherwise. A
cell in `overwritten` no longer says what the file says, and what is read of one is
`"garbled"`: it may be refused, panic or be taken for anything. The steps
are those of the code: the entries in the order of the index, the metadata, the resource,
the picture. A Mobi book is a list of sections with the offsets of its
EXTH records, stored as unsigned numbers whose highest bit is `SignBit` and read as signed ones.

## Runs

All runs are exhaustive for their bounds.

| run | shows |
|---|---|
| `booksync_runs` | two books, two versions of different length, three edits, one fault or partial scan, each run with its own switches: everything said about removals, records and repeated runs, and that both sides come to agree |
| `paths_nested` | two books at two depths, with indexes and thumbnails, from every mix of both sides, history and thumbnail folder |
| `history_runs` | two overlapping runs, two objects, two steps, one crash: refinement, visibility, creation, progress |
| `mail_runs` | two books, two versions, three edits, two faults |
| `conf_runs` | four configurations of two sources, each with a directory of its own on one device, and both with a common one on another; three edits: a source loses only what was delivered and removed there, runs of configurations with their own place mirror, and those come to agree |
| `mtp_ids` | two books, one in a directory with an index, one with a thumbnail: ids are right when they are used, and the driver does to paths what PathPlan says |
| `session` | every command, four drivers and mail, up to two devices in any condition, all switches: the right device, the order of the way out, nothing left behind, everything comes to an end |
| `thumbs` | any of some 2,000 KFX and Mobi books beside a plain one, one failed write: covers, names and pictures belong together |
| `booksync_loss` | **violated**: a run broken off inside an update makes the next one delete the updated local book |
| `paths_formats` | **violated**: the plan for two formats of one book with a common page index fails on a mounted device |
| `mtp_listing` | **violated**: a directory that could not be listed costs the local books that lie in it on the device |
| `pick_handle` | **violated**: MTP on Linux uses the files of a device other than the one whose serial number was asked for |

The violated ones are disagreements between the code and what its own comments or
README say, and `PROJECT.json` quotes both. Further configurations are kept beside
them and can be run by hand. These pass:

- `MCBookSync_samesize`: both sides come to agree also when the versions have equal
  length;
- `MCMtpDevice_types`: the types of `MtpDevice`.

These end with a counterexample:

- `MCConfigurations_shared`: two sources with one target remove each other's books from
  the device;
- `MCMtpDevice_names`: on Windows, a book whose name could not be read loses its local
  copy;
- `MCSession_trace`: an empty file for a trace stays when it was opened elsewhere than
  beside the log;
- `MCBookSync_userbooks`: without any fault, a file the user has put on the device is
  replaced or removed;
- `MCHistoryDB_dry`: a dry run creates the database;
- `MCBookSync_row4`: a book on both sides stays out of the history if there is nothing
  else to do (row 4 of the table says it is recorded);
- `MCBookSync_stale`: an older copy, left by a broken run, is recorded under the hash of
  the newer local version and never replaced;
- `MCPathPlan_thumb`: a thumbnail shared by two files is removed twice, because
  `deviceThumbs.Delete` is called with an empty name;
- `MCPathPlan_sibling`: a directory stays empty when the name of another one begins with
  its name;
- `MCMailSync_stale`: a book edited during the run and put back afterwards is recorded
  in a version that was never mailed.

### Bounds

Two books are what an order of actions needs (the books do not otherwise meet: the
plan treats each by its row); two versions are what "changed" needs, and versions of
growing and of equal length are both used, because the code compares lengths. Three
edits allow add, remove and put back, or an edit before, one during and one after a
run; one fault allows a broken run with whole runs before and after it. Runs of the
tool are not bounded. `MaxSteps` bounds the length of the history to two, the number
where "newest" and "the one I opened" differ. Where TLC's instance is small, the
theorems below are not.

Of the MTP driver, `mtp_ids` has one book whose directory must be made, with an index in
a directory of its own, and one that lies in the target with a thumbnail: MkDir
chains, parents that were listed and parents that were not. Ten fresh ids are more than
a plan creates. `session` has two devices, enough for "another one before" and "another
one after", with the bus numbers 1 (read rightly), 10 (read as 16) and 16 (read
as 22, and looked for where 10 is found). With two devices it takes one setting of the
switches, as nothing after Connect depends on how many there are; with one device or none, all
settings of the run. What the log does, no driver has to do with: a log file without a
report is tried only without a device, and so are mail and the two commands that only read.

`thumbs` has KFX books with their five parts in every order, with a gap behind the symbols
or none, with pictures whose info is short or long, with three orders of the index and with
spare room at the end of the buffer, and each kind of damage in a book whose parts lie well.
`RoomyBooksAreReadAsStored` is about the books in which what is still to be read
keeps clear of the end of the symbols (`Roomy`; `MCThumbnails` has many that are and many that are
not): the others may be read garbled, and nothing is said of them except where their picture
goes. A `SignBit` of 8 is enough for offsets of both signs, for "unset" and for ones beyond the end.
`MobiThumbnailIsDeclared` excepts books with pictures in front of their resources
(`PicturesInPlace`; the run has such books): an offset of -1, "unset", leads the code to the
section before the first one, and a picture there would be taken for the cover.
`DeclaredCoversAreUsed` excepts a book whose thumbnail offset is present but unset: the
code then adds -1 to the first image and gives no thumbnail if that is not a picture, though
the cover is there.

`paths_...`, `mtp_...`, `session`, `pick_handle` and `thumbs` do not check for deadlock: one
run ends, and then nothing happens any more. In the other modules the next run can always
start.

### Fairness

The code is sequential and has no waiting loop, so a run that has started goes on to
its end or is broken off: weak fairness of the steps of a run, never of edits, faults
or crashes. Agreement needs somebody to run the tool: README's user "runs the tool
again", without `--dry-run`. Since dry runs may always come in between, starting a real
one is strongly fair in `BookSync` and `MailSync`; in `HistoryDB` it is weakly fair for
each run, and in `Configurations` weakly fair for each configuration that has its place for
itself (one that sources share is left out: no agreement is promised there). In `Session` Next as
a whole is weakly fair: a sequential program goes on while it can. Faults are
bounded, that is, they stop at some time; so are edits. `EventuallyAgreed` excepts a
source without any book, where the tool refuses to work, and `HistoryIsReached` excepts
a database that a crash has left half created, which the tool never repairs. The real run of `BookSync` may
have `--ignore-device-removals` set or not: either way the sides come to agree.

## Proofs

Proved for all sets of books, versions and runs, and all bounds. The only assumptions
are the named ones in the modules: the sentinels (`Absent`, `Garbled`, `None`,
`Closed`, `Nobody`, `NoBook`, `NoName`) are none of the values they stand beside, lengths and
bounds are numbers, what says whether a scan may skip is a Boolean, books and shelves are
well formed (of a Mobi book: its numbers fit into their width, and it has no more sections
than positive numbers), the books that are mailed are finitely many.

The types of `BookSync`, `PathPlan`, `HistoryDB`, `MailSync`, `Configurations`, `Session` and
`MtpDevice` are proved and not part of the runs.

- `BookSyncProofs!TypeCorrect`: types. It says more than types where it matters: what
  lies garbled on the device never gets into the source or the history.
- `PlanIsTheTable`: the set operations compute the rows of the table in the package
  comment, with either setting of the switch. It needs types only, and no run
  repeats it.
- `OnlyDeliveredIsRecorded`, `OnlyDeliveredIsDeleted`, `NeverLocalIsUntouched`: by the
  invariant `Provenance`. HistoryWasOnDevice alone is not inductive: in the middle of a
  run `snap` will be recorded, and its books must be on the device already or be among
  those still to copy.
- `SecondRunHasNothingToDo`: by `QuietRun`, which follows a run without edits: what is
  local is `snap` but for the removals left, what is on the device is `snap` but for
  the copies left.
- `SmoothRunsDoMirror`, `SmoothLossIsRequested`: by `SmoothRun`. While no run has been
  broken off and no edit has fallen into one, between runs the history vouches for the
  device: what it records and is not there was removed by the user. The update, two
  actions, breaks this in the middle of a run and restores it at the end, which is
  exactly where `booksync_loss` puts its crash.
- `HistoryDBProofs`: the invariant has four parts (the steps a connection refers to
  exist; rows only in existing tables; one writer; what a run has read is its step),
  each with its own lemma. `DatabaseImplementsLog` then maps every step of the database to
  a step of the log or to none. `CreationDoesComplete` adds who is at the migrations while
  nobody has been killed (`InCreation`) and what a run that reads can rely on
  (`ReadersHaveSteps`).
- `SessionProofs`, of `PickDevice`, for any list of devices, from `PickAssumption` (bus numbers are 1 to
  127): `PicksAsAsked`, `StorageIsRight`, `UsableIsFound`, `HandlesDoNotLeak`, by
  `PickInv`. Its part `PassedOver` says what kind of devices lie behind the loop, since
  what holds at the end of the list must hold of each part of it; `RootIsKnown` ties the
  handle to the identity, but for MTP on Linux. That the device picked has the serial number
  asked for, and that it is found, except a bus or device number from 10 on there
  (`MayBeMisread`); `SerialOfOneDigit` says that the others are read right.
- `SessionProofs`, of `Session`: `SessionPicks`, an invocation implements the choice of the device, so
  that the theorems above hold of it (`SessionStorageIsRight`). `ReportsAreComplete`,
  `NoLeftoversStay` and `UnmountComesLast` follow from `SessionInv`, which says for each
  place of `pc` what is stored, open and on the disk there. It has three parts with a lemma
  each: the order of opening and closing (`OrderInv`), what has been stored is there
  (`StoredInv`), the file for a trace (`TraceInv`).
- `ThumbnailsProofs`, for any books: `RoomyBooksAreReadRight`, by an invariant that says
  how far the decoder has written behind the symbols by now, so that what is still to be read
  is untouched; `ScanReads`, the walk implements the reading of one book after the other, which
  carries this over; `NamesAreGood`, by following which file of the walk was the last to
  write each name. `SavedIsDeclared` and `DeclaredIsUsed` rest on two lemmas about the reader of
  Mobi books, `ThumbnailIsDeclared` and `DeclaredCover`, which come down to this: an index that
  is in the book is not read as a negative number, and one made of a negative offset lies in
  front of the resources. `MobiInv` ties each picture and outcome to the book of its file.
- `MailSyncProofs`: `OnlyMailedIsRecorded`, by `MailedOrPending`: a real run has mailed
  what it will record, or has it in the outbox. `RepeatsHaveReasons`, by counting: the
  repetitions so far and the books that are `Owed`, mailed in a version that is not going to be
  recorded, are together no more than broken runs times books (`OwedIsPaid`). A repeated mail
  settles a debt, and only a broken run makes new ones.
- `ConfigurationsProofs`: `LocalLossRequested` holds for any configurations, also such as
  share a source or a place, and for runs that fail: a history belongs to a place, what lies
  there is recorded (`Recorded`), what is recorded and missing was taken by the user
  (`MissingIsTaken`). `RunsDoMirror` and `DeviceLossRequested`, the promise that
  `MCConfigurations_shared` breaks, are about the configurations whose place no other source
  uses (`OwnPlace`). There the history was recorded by the source of the run (`RecorderIsOwn`),
  and what it has and the source has not went from there (`MissingIsGone`).

- `PathPlanProofs`, for any books, indexes and other files at any depth: `SidesAgree`,
  `CopiesAreComplete`, `OthersStayUntouched`. At the bottom are lemmas about paths and about
  each function that PrepareActions calls: what it adds to the actions, what to the two object sets
  (`Shrinks`, `Extends`, `Changes`). The core of the invariant `Inv` is that a plan foretells:
  a file is in the set srcOIS (dstOIS) of the plan exactly when it will be on the disk after
  the actions that are left (`LocalForetold`, `DeviceForetold`). The rest says what has been
  planned for which book (`BooksArePlanned`, `CopiesAreKnown`, `SideFilesPlanned`) and that
  nothing else is touched (`OnlyKnownGo`). The three theorems hold also of a run that fails and
  of books that share side files. They need `PathsAssumption` (roots and files are paths that
  are not empty, names are strings) and `NamesAssumption`: no file has another one's name as that
  of a directory, a page index is never a book, since file extensions tell them apart; the
  folder of the thumbnails and the one of the books are not one inside the other.

- The second half of `PathPlanProofs` is about names and devices that are as they should be.
  `NoDirectoryStaysEmpty` needs `PlainNames`: no name in the source begins with another one
  (`MCPathPlan_sibling` breaks it).
  Then what strings.HasPrefix finds below a directory is below it (`PrefixIsAbove`), and each
  removal leaves every other directory with something in it (`Occupied`). `SideFilesGo` needs
  `OwnSideFiles`: no two books have the same thumbnail or page index (`MCPathPlan_formats` and
  `MCPathPlan_thumb` break it). While books are removed every thumbnail of the device can still be
  looked up (`Listed`), which copies put an end to; but what they put there belongs to
  another book (`PutIsOwn`).
- `PlansRunToTheirEnd` needs `OwnSideFiles` and `StandardFolders`. The latter says
  of the directories that every device has that each lies in another one of them or at the top, and
  that the target does too: `makeCreateDirActions` starts with its root, it makes the
  target but nothing above it, and over MTP a new object has to have a parent. The configured
  `documents/...` on a Kindle is such a target. NothingFails says nothing about what has not been
  tried yet, so it is far from inductive. `Ready` carries the whole future instead: there are disks
  for each point of the plan, the first pair being the present one and the last pair what the sets
  of the plan say, such that every action is possible on the disks before it and leads to those
  after it (`Runs`). Each function of PrepareActions keeps this
  by adding to the end of the plan (`...Fits`), for which it is enough that the sets are a tree
  and agree with the last pair (`Fit`), and each action carried out takes the first pair
  away (`RunActionIsReady`). That no object is used twice is `Orderly`: what is removed was found by the scan
  (`Fresh` says so of the thumbnails), since the files that the plan itself has made are those of other
  books (`Made`); this is where books with a common index or thumbnail come to grief.
- `PathPlanProofs!TypeCorrect`: the two disks stay trees, whatever fails (`Standing`).

- `MtpDeviceProofs`, for any ids that a device gives, reused ones included: `NoTwins`,
  `NoStaleIds`, `DriversFollowThePlan`, `ObjectsAreATree`, `OnlyAbsentBooksGo`. The premises are
  those of `PlansRunToTheirEnd`, and that listing does not fail: `mtp_listing` and
  `MCMtpDevice_names` show what becomes of `OnlyAbsentBooksAreDropped` when it does.
  `StockAssumption` adds that the directories found on a device before are those that
  listing looks into.

  The tree that the device shows (`DeviceTree`) is the `device` of PathPlan, and the theorems
  about PathPlan are used for it (`PP`). The inductive invariant `MtpInv` has four
  parts: PathPlan's own `Inv` and `Ready`; `StoreFits`, by which every object has a way
  from the root that says its path (`Rooted`), and no two objects one path; `IdsFit`, by which
  the ids of the plan are those of the objects under the planned paths. The last one needs the plan
  to be known far ahead. A directory gets its id when it is made, and MkDir and Copy look
  their parent up by its path: `Ready` says that it is an object that was listed, or
  that of an earlier action (`Tracked`). An id is given again when its object has been
  removed, and what the plan has removed it does not meet again: whatever it removes was
  found by the listing (`Found`) and is removed once (`Orderly`, `Accounted`).
  That a step keeps all this has a lemma for what makes an object (`MakeStep`), for
  Remove (`RemoveStep`), for what happens in the source (`LocalStep`) and for planning
  (`PrepareStep`); each shows in passing that the step is one of PathPlan, which is
  the refinement. The way to the root is a recursive function; `WaysAre` shows that the
  ways of `Rooted` are all there are, by the object nearest to the root at which another one
  would differ.

  A book goes from the source only when it is not on the device, because nothing that is to be
  dropped is there when it is planned, and whatever the plan copies to the device is of another
  book (`DropsAreAbsent`).

Only model-checked: all liveness (TLAPS has no rule for fairness here). Every other
property of a passing run is stated by a theorem. Neither checked nor proved: what the MTP
drivers do by ids where the premises of `MtpDeviceProofs` fail, other than in a listing.

## Not modelled

- MIME, hashing, JSON, the text of logs, the fields of the configuration that are only
  cleaned or validated, the parsing of the command line: conversions without state; a
  version stands for its hash.
- Of the thumbnails, the decoding and scaling of pictures and the bytes of JFIF; what the
  cells of a container say, beyond being whole.
- What `history/run.go` prints.
- `pd*.go`: calls of Windows COM interfaces. An object there whose content type cannot be
  read ends the program with a nil pointer while it lists, before anything is planned.
- An MTP device that fails in the middle of an action: the run ends, as PathPlan and
  BookSync have it.
- Errors while the archive of the report is written; the directory of StoreCopy, which
  stays, is in `temp` but no property is about it.
- File names that a FAT file system takes for equal, symbolic links in the source.
- Vendored libraries. Of SQLite, HistoryDB assumes transactions, one writer, and that a
  second writer waits.

## Plan

All modules and theorems of the plan are done. What could come next: an abstract three-way
table on (L, H, D) for one book, implemented by BookSync.
