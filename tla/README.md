# A TLA+ model of the redpesk application framework manager

This directory holds a TLA+ development for `afb-app-manager`: modules that
model its core components, TLC configurations that check them on small
instances, and theorems checked by TLAPS. Paths below are relative to the
root of the repository; `PROJECT.json` maps every definition to the lines it
models.

## 1. The system

`afb-app-manager` installs, removes, lists and runs the applications of a
redpesk device. Its parts, their state and their interactions:

| part | source | state | operations | talks to |
|---|---|---|---|---|
| rpm plugin | `src/rpm-plugin/redpesk.c` | the packages of the running rpm transaction | `tsm_pre` (removals), `tsm_post` (additions) | installer daemon, through the client library |
| client library | `src/afmpkg/afmpkg-client.c` | a buffer that grows | build a request, dial, read the answer | installer daemon |
| installer daemon | `src/main/main-afmpkg-installerd.c`, `src/afmpkg/afmpkg-server.c` | count of living threads, options | poll/accept loop, one detached thread per client, stop when unused | systemd (socket activation), request protocol |
| request protocol | `src/afmpkg/afmpkg-request.c` | a request per connection; the table of transactions, shared, with expiration | `add_line`, `process`, `make_reply_line`, `can_stop` | package processing |
| package processing | `src/afmpkg/afmpkg.c`, `src/afmpkg/afmpkg-std.c`, `src/utils/unit-oper.c` | tree of files, unit files and wants links on the disk, session with the security manager | install, uninstall | identifier allocator, unit generation, security manager, systemd |
| identifier allocator | `src/utils/manage-afid.c` | bit array of used identifiers, filled from the unit files | `get_new_afid` | unit files |
| unit generation | `src/units/*`, `src/utils/unit-generator.c` | the static template | load, pack, instantiate, split in units | the database reads the units back |
| files, types, permissions | `src/utils/path-entry.c`, `path-type.c`, `permset.c`, `manifest.c`, part of `afmpkg.c` | tree of paths, set of permissions, manifest | add, walk, type, tag, select, permit | security manager |
| user services | `src/binding/afm-binding.c`, `afm-urun.c` | the requests in progress | list, start, once, state, pause, terminate | database, systemd, authorizations |
| application database | `src/binding/afm-udb.c`, `src/units/unit-fs.c` | the applications of the last scan | scan, swap on SIGHUP, queries | unit files, the signal of the installer |
| authorizations | `src/binding/auth.c` | a stack of 8 cells | evaluate and/or/not over asynchronous permissions | the binder |
| systemd access | `src/utils/utils-systemd.c` | cached D-Bus paths | find, start, stop, query units | systemd |
| signatures | `src/cert/*`, `src/utils/domain-spec.c` | hashes kept in the tree, rights of certificates | digest, sign, check, climb chains | |
| legacy widgets | `src/wgtpkg/legacy/*`, `src/rpm-plugin/legacy-rpm-redpesk.c` | global working directory, list of files, permissions | sign, pack, check, install, remove | security manager, unit generation, rpm |
| other | `src/afmpkg/afmpkg-legacy.c`, `src/wgtpkg/wgt-json.c`, `src/main/*`, `src/setup/*` | | conversions, mains, directories of users | |

What is hard in it:

* *interleaving*: every client of the installer has its own thread. The count
  of threads and the table of transactions are each under a mutex, and the stop
  test takes the two one after the other; the allocator, the unit files and the
  template are shared without a lock;
* *lost and cut messages*: the protocol is lines on a stream socket, which
  splits them anywhere, and clients may vanish;
* *partial failure*: processing a package is a dozen steps that can fail, on the
  disk and in the security manager; a request holds several packages, one in
  the other, and a transaction several requests;
* *time*: transactions expire, the daemon stops by itself, systemd starts it
  again for a client that connected meanwhile;
* *boundaries*: fixed buffers, the last identifier, unsigned counters, a stack of
  fixed depth, the root of a tree;
* *stale state*: the database and the cached paths while unit files change; the
  globals of the legacy installer from one widget to the next; hashes kept while
  files change;
* *asynchronous answers*: permissions, rpm hooks and systemd jobs come back in
  any order with the requests of other users.

`PROJECT.json` lists these hazards with their lines and the properties that
would catch them.

## 2. The modules

### AfmpkgRequest: the grammar of a request

`req` is the `afmpkg_request_t`; `LineError` gives the code that
`afmpkg_request_add_line` returns for a line, `StoreLine` what it stores when
the code is 0. A line is its keyword, its operation or its number: names are
abstracted to "is set". The actions are those of `afmpkg_serve` up to the end
of `receive`: a line, the end of input, an error. The history `lines` allows
the automaton to be compared with the grammar of `docs/installer-protocol.md`,
stated once on whole requests.

Checked by the run `reception` (at most 5 lines, numbers around 0, 1 and the greatest
unsigned):

* `ReadyIffGrammar`: the request is ready exactly when its lines are a request;
* `RefusedIffHopeless`: a line is refused exactly when nothing that follows
  could make a request, lack of memory aside;
* `HandedOver`: what the processing may rely on. It is the interface with
  `InstallerDaemon`, whose `ReceivedRequests` is assumed to be that.

Not ensured: `receive` ends with 0 at the end of input and nothing tests that the
request is `Request_Ready`, so that a request cut before its `END` line is
processed with the files received so far (`afmpkg-server.c:60`).

### ReceiveFraming: from bytes to lines

`receive` of `afmpkg-server.c`, at the level of its offsets: `length`, `it`, the
buffer of 32768 bytes (here 4 or 8), the bytes nobody wrote being marked
`uninitialised`. `recv` returns any non-empty part of what was sent and fits.

Checked by the run `reception`: offsets stay in the buffer and no unwritten byte
is read (`ReadsOnlyReceived`), the lines are the right ones when one `recv` got
everything (`OneRecvDelivers`), and the loop ends (`Terminates`, the thread being
scheduled). A buffer of 4 with streams of up to 6 bytes makes lines longer than
the buffer, buffers exactly full and empty lines happen.

Run `framing_split` (violation): a line that was received whole and delivered is
delivered again. `length` is not cleared when all the lines of the buffer were
delivered: the next `recv` stores behind them, `length` becomes the size of that
`recv` alone, and the scan restarts at 0 with the former line.

### InstallerDaemon: threads, transactions, stop

One variable per piece of state of the code: `main` (where `run` is), `living`,
`trans`, and for each client the place of its thread (`pc`) with its request,
results and answer. A section under a mutex is one action, so `can_stop` is the
two actions `CanStopLiving` and `CanStopTrans`. `ProcessEnd` kills the threads
that run and empties the table; `Activate` is systemd. Counters are unsigned
(`% UIntMod`) and printed as signed, as in the code. The installation is a step
with a result. The history `lost` holds the transactions of which a result was
dropped because they expired, the process ended or memory lacked.

Run `daemon_safety` (four clients, one of which is not root, strict mode, any
call may fail): `LivingExact`, `StopsIdle`, `AnswerTruthful`, `SuccessToldOnce`.
Three clients that may process are enough for two requests of a transaction and
its status to meet in any order; the fourth one is refused by the strict check.

`AnswerTruthful` says that an OK answer follows a processing that succeeded, and that an
error after such a processing comes from a transaction that could not be recorded. It
excepts exactly one case, what the code does when `afmpkg_request_init` fails: nothing is
received nor processed, and the answer, made of a result that is still 0, is OK
(`afmpkg-server.c:132`).

Run `daemon_live` (two clients, all kinds of requests, no failing system call):
`NoClientKilled`, `EventuallyStops`, `EveryClientServed`.

Fairness (`Fairness`): each thread is scheduled, time passes, `poll` returns at
the latest after its timeout, systemd starts the service for a waiting client.
A connected client sends its request and shuts down: `receive` has no timeout, so
the code itself relies on it; without it a silent client keeps its thread, and
the daemon, for ever.

Not ensured: in strict mode a client that is not root can end the daemon with the
threads of others, because `run` tests an `errno` that `check_strict` did not set
(`NoClientKilled` fails with `Strict = TRUE`, `main-afmpkg-installerd.c:206`); the
count of failures is decremented (`fail--`, `afmpkg-request.c:336`) and a status
answer tells it as a negative number.

### AfidManager: identifiers

The bit array is the set of the identifiers whose bit is set. `FirstFree` keeps
the search by words, `SetLoad` and `SetStore` the read and the write of a word.
The installations of the daemon's threads overlap freely, a scan may fail, a package
has one or several targets. The code is not safe against three events, and the
history `harm` tells which of them have happened:

* `overlap`: a thread calls `get_new_afid` while another one is in it; the array has no
  lock (`manage-afid.c:129`), so that two installations may get the same identifier;
* `forgotten`: the array is cleared while an identifier it records is in no unit file
  yet, of another target of the package or of another package in progress
  (`manage-afid.c:150`);
* `unread`: a scan failed, and the files that were not read are forgotten
  (`manage-afid.c:133`: `init_done` is set before the scan).

Checked by the run `reception` (three packages of one or two targets, three identifiers
in words of two bits, so that the last word is partial, exhaustion and rescans happen, and
identifiers are lost by failed installations): `AfidsUnique`, two targets never have the
same identifier as long as none of the three has happened; `ExhaustedOnlyIfFull`, an
identifier is refused only when the rescan has found them all in unit files, also after
`forgotten`. `CONSTRAINT MCHarm` does not explore what follows an overlap or a failed
scan, where nothing is claimed.

Not ensured: `AfidsDistinct` without exception. One package alone, with three targets and
two identifiers, gets one of them twice: the rescan forgets those of its first targets.

Run `reception` checks `AfmpkgRequest`, `ReceiveFraming` and `AfidManager`, each in its
mode: they have no state in common.

### AfmpkgInstall: packages, unit files, security manager

`afmpkg_process` and the standard operations, for several threads. `files` maps
each unit path to the package its file was written for, `links` holds the wants
links, `lsm` and `label` what was committed to the security manager. Each thread
goes through the steps of `process_package`; checking, writing, linking and
removing a unit are steps of their own. Every call may fail (`Fallible`), and a
failed write leaves the file or not. `Prepare` stands for the checks and the
computation of file types, which touch nothing shared.

Run `install_apart` (two threads; the first one has a package embedding another
one, files held by no package, and a third package that shares a unit path with
the embedded one; three requests in all, so that a request follows the failed
or successful ones of both modes):

* `AnswerHolds`: an answer 0 is true of the whole request, on the disk, in the
  security manager and for the label of every file;
* `FailedInstallRestores`: the rollback restores exactly the units;
* `NoOverwrite`, `RemovalWasWhole`, `HandleReleased`.

Run `install_race` (violation): two threads whose packages have a common unit
path both pass the check.

Also seen with the model: `setdown_security` (`afmpkg.c:1009`) ignores errors of
the tagging, so that a removal may answer 0 with files that keep the label of the
installation; `AnswerHolds` therefore says nothing of labels after a removal. A
removal that failed after having removed its units can never succeed when tried
again (`RemovalWasWhole` states it: removing a missing unit is an error).

### PathTree and AfmpkgContents: the files and the manifest of a package

`PathTree` is `path-entry.c` on a heap of cells, during the life of a request:
`CreateRoot`, `AddFile` with a failing allocation at each name, the traversals of
`afmpkg_process`, the destruction of each processed package and of the request.
`PathSet` is the abstract specification: a set of paths closed by parent.
`ImplementsPathSet` is the refinement, under the mapping of each live cell to its
path; `TreeSound` (`WellLinked`, `FoundAlive`, `FreedOnce` and `NothingLeaks`) is
about what the set does not show. `FreedOnce` excepts a request one package of which is at
the root of the tree: `process_rootpkg` then destroys the root, that
`afmpkg_request_deinit` destroys again (`afmpkg.c:1605`).

`AfmpkgContents` takes a manifest and the entries of a package through
`manifest_normalize`, `check_permissions`, `check_contents`, the five passes of
`compute_files_properties`, the tags, the permissions and the plugs, and the
removal through `setdown_security`. Each pass is an action, its result a function
of the types before it; a failing call stops it in the middle. The permissions are
checked one by one (`CheckOnePermission`), and the record of one may lack memory: the
code goes on, and the history `lost` keeps the name. A walk of the tree stops at the
first path that does not fit in its buffer (`Reached`), which the code ignores; the root
is told with any number of trailing slashes, which `state.path` has lost. The manifests
of the run combine plugs, targets, explicit properties, provided bindings and
permissions that name the same files, and the siblings are visited in any order.
`ManifestHonoured` joins six parts: `PublicReachable`, `ExplicitHonoured`,
`PermitsAsked`, `InstallDirUnderRoot` and `TagsApplied` compare the result with what the
manifest asks, `SetdownBottomUp` says that a removal that stops leaves no accessible
file below an inaccessible directory. They hold but for a permission that was lost, a path
that is too long and a root with several trailing slashes. In these cases the installation
succeeds all the same: a permission that the manifest asks is not given when its record
cannot be allocated (`afmpkg.c:400`), files are left without label after one whose path
is too long (`afmpkg.c:965`), the directory told to the units has lost the beginning of
its name (`afmpkg.c:1150`).

### UnitProcess: the text of units

Texts are sequences of lines with leading blanks, a word and a continuation. A request
loads the template (`GetTemplate`, `PackTemplate`), instantiates it, splits it and
writes units whose fields the database reads (`Crop`, `AddFieldsOfContent`). The threads
of two requests interleave freely; the template is static, has no lock, and is set
before it is packed: the history `raced` tells that a request came in between.
`SplitExact` has two parts. Unless that happened, the template used is the packed file
(`TemplateWhole`), whatever failed before; `SplitIffWellFormed`: units are made exactly
of texts whose marks are well formed, raced or not. With the race, a request is
instantiated from a template that still has its comments and directives
(`unit-process.c:461`). `FieldsReadBack`: the fields read are the ones of the text that
the template gives; it is restricted to regular texts, in which no directive, comment or
empty line follows a continued line.

### AuthCheck, CertChain, SignedDigest

`AuthCheck`: `cka_push`, `cka_pop` and the answers of the permissions, against the
truth value of the expression (`AuthDecides`), or `E2BIG` when the expression is
deeper than the stack; expressions of depth 3 meet a stack of 3.

`CertChain`: `check_crt_chain` for chains of three certificates with any rights.
`RightsFaithful` has three parts. `ChainBounded`: a domain that the check gives is known
to a trusted certificate with at least that permission; `RightsDecrease`: between the
certificates that are given no `#` and no `@` passes down, unless a trusted `@` is above;
`PrintedSpec`: a printed specification fits in its buffer and is read back as itself.
`RightsDecrease` says nothing of a certificate that a trusted one has issued itself: the
specification of the trusted one is then returned and not compared (`common-cert.c:119`),
although `docs/giving-credentials.md:48` lets `#` deliver `+` only.

`SignedDigest`: author and distributor signatures over a tree of files that are
edited, added, removed or not readable, then checked while they change.
`ChecksExact` is `DigestExact` and `GrantsOfAccepted`.

Run `algorithms` checks these six modules together: a behaviour is one of one of
them (`which`), so that one run and one set of bounds holds all the parts that
work without partner.

### AfmUdb, Systemd, AfmBinding: user services

`AfmUdb` is the database: the installer changes unit files and signals, the daemon
scans them one by one and swaps the result; the handler of the signal exists only
after the first scan. The signal may not be sent (`SignalFails`: `sighup_afm_main` could
not read `/proc`) and an update may fail; an error at the creation restarts the daemon,
an error of an update keeps the former database and nothing tries again. The history
`stale` tells that the last news of a change were lost in one of these ways.
`DatabaseFresh`: once all is settled the database is what the files say, unless `stale`.
`ChangesSeen`: after a change the database settles and is fresh, unless a further failure
happens: a failed update is made good by the next signal only. Both are in the run
`packaging`, with three changes and one error. The handler of SIGHUP is supposed not to
overlap itself in another thread (section 6).

`Systemd` is what `utils-systemd.c` sees of systemd: paths, jobs that replace each
other, states and the pid of the last main process. `AfmBinding` adds the verbs:
a request reads its arguments, asks the permissions one after the other, then
looks in the database and calls systemd. Each question and each call on the bus is
a step. The pid of an ended process is given again by the kernel, to any unit that is
started, while `ExecMainPID` still tells it.

Run `services`: two requests of two users (eleven calls in all), a change of the unit
files with its signal, a bus that fails, memory that lacks; `ActsWithPermission`, and
`ActsOnTheAsked`: what start and once tell is the process of the application and of the
user asked (`RunidOfTheAsked`), and terminate stops the application asked, or one to
which the pid of the asked one was given again (`StopsTheAsked`).

That second case happens, since `afm_urun_search_runid` does not look at the state of the
unit (`afm-urun.c:484`).

Run `replies`, with the calls that wait for systemd: `EveryRequestReplied` (the handlers
are scheduled and the binder answers; nothing is asked of systemd, the polls being
counted).

### RpmPlugin and RpmAnnounce: the rpm plugin and its client

`RpmPlugin` is `redpesk.c` with `afmpkg-client.c`: records of the packages of a
transaction set, their numbering, one connection per request, the growth of the buffer,
the answer. Two sets interleave, with all the flags of rpm for one of them, and one call
fails or the daemon dies. `RpmAnnounce` is what the framework can rely on: increasing
indexes up to the count, removals before additions, nothing once the set is closed.
`Announced` is the refinement; `RequestsFaithful` and `HooksReturn` complete it (the
plugin and the daemon are scheduled, the daemon answers or dies, rpm ends the sets it
has begun). `RequestsFaithful` has three parts: `Completed`, a set that is done was
announced up to its last package and leaves no record; `MissedByFailure`, of the
packages whose request fits the first buffer, the daemon has missed the whole request of
no more than there were failures (connection, memory, cut send, dead daemon);
`AppliedFaithful`, what the daemon applies has the index, the count and the first files
of a package, and all of them when it has an end line.

Run `rpm_long` (violation): a request that outgrows the first buffer of the client
loses its beginning (`afmpkg-client.c:163`): packages with many files are refused
by the daemon.

Not ensured: `send` is called once and its count is not compared with the length
(`afmpkg-client.c:92`); a request cut by a signal is applied with the first of its files
only. `MissedByFailure` counts it among the missed ones.

### WidgetInstall, WidgetSign, LegacyRpm: legacy widgets

`WidgetInstall` is `install_widget`, `install_redpesk` and `uninstall_redpesk` as
sequences of steps on global variables (working directory, list of files, permissions).
Any step may fail or be the last one of the process, that is then started again; a
failing call of the security manager for an optional permission is skipped, and the
history `denied` keeps it. `Cleanup` is `remove_workdir`: it removes a temporary
directory, or leaves it when that fails; it never removes a directory that was moved,
because the descriptor that `move_workdir` opens has `O_PATH`, which `fdopendir`
refuses. `WidgetAnswers` joins `InstalledWhole` (files, icon, units, rules and
permissions after a success), `PublicWays` and `FailureContained`: an installation that
fails without being forced adds no unit and touches no widget that was installed; it
leaves at most a temporary directory, or, past the move, its own widget with what was
set up of its icon and its rules. `UnitsHaveFiles` holds at every step.

Run `widget_undone` (violation of `FailureUndone`): a failure past the move always leaves
the directory (`wgtpkg-workdir.c:51`).

`WidgetSign` is the signing, packing and checking of a directory that is edited in
between (`AcceptedIffUntouched`). `LegacyRpm` is the former plugin, driven by the
sequences of calls documented at the head of its file (`TransactionDone`).
`LegacyEnds`: every operation ends; with `HooksReturn` of the plugin it is
`PackagingEnds`. Fairness is that the process goes on with the
operation it has begun, and rpm with its transaction.

Run `packaging` checks `RpmPlugin`, `AfmUdb` and the three legacy modules, each in
its mode, as `algorithms` does.

## 3. What is proved

For any value of the constants (any number of clients, transactions, requests,
buffer size, stream), under the assumptions named in the modules:

* `AfmpkgRequest_proofs`: `TypeCorrect`, `GrammarCorrect`, `RefusalCorrect` and
  `HandedOverCorrect`. `ReadyIffGrammar` compares an automaton, that sees one line and a
  few fields, with a grammar over the whole sequence of lines; it is not inductive. The
  invariant gives the situations of a connection that nothing refused (`Received`:
  fresh, open, complete, status, stray END), and says in each what the fields tell of
  the lines received so far (`Recorded`). `ManifestCorrect` is `ManifestHonoured` of
  `AfmpkgContents`. Each pass is a fold: the lemmas named `...Folds` give its
  intermediate values, those named `...Is` what it computes, by induction on the items
  done. The permissions in canonical form are the last ones told for each name (`Kept`,
  `ObjectAddKeeps`), the set that `permset.c` makes of them has each valid name once,
  granted and requested unless its record lacked memory (`Collected`), and what is
  tagged so far is what the walk has passed, with its type (`TagsKept`). The types
  follow the tree: a walk that takes children first numbers the entries so that a parent
  comes after its children (`Places`), which gives the recursion of `DefaultOf`
  (`UpExists`) and the induction on the directories above an entry (`UpInduction`). In
  the last pass an entry that was visited has given its publicity to its directory
  (`Given`) and the entries not yet visited still may change; nothing but a directory
  above something public or a plug is opened (`Opened`). `ContentsInv` says at each
  stage what of this is known. `InputAssumption` says that lists are lists, that a
  package is below its root, and that a walk goes once through each entry, children
  first. The three exceptions are stated in the property itself.
* `ReceiveFraming_proofs`: `TypeCorrect`, `ReadsCorrect` and `OneRecvCorrect`. The
  invariant `IInv` adds to `TypeOK` and `ReadsOnlyReceived` that `it <= length` in the
  inner loop; without it a shift could read beyond what was received. It holds although
  `length` is not the number of bytes in the buffer: the bytes received before are still
  in front of those received last. For `OneRecvDelivers`, `LinesInv` says that the lines
  delivered are those of the stream up to a position that ends a line (`DeliveredTo`),
  and that the bytes still to look at are those of the stream after it, or hold no end
  of line any more (`FirstRecv`); lines are counted, not collected, so that no induction
  on the stream is needed.
* `InstallerDaemon_proofs`: `TypeCorrect`, `LivingCorrect`, `StopCorrect`,
  `ClientsSafe`. `StopsIdle` is not inductive: between its two sections `can_stop` holds
  no mutex. The invariant `IInv` says that while `run` is there no thread runs
  (`NoneLiving`) because only `run` itself creates threads, and that nothing is pending
  when it returns 0 (`NothingPending`) because only threads add transactions.
  `ClientsSafe` assumes neither strict mode nor failing system calls: both are needed
  (see `InstallerDaemon` above). `AnswerCorrect` is `AnswerTruthful`: the invariant
  `TruthInv` follows each thread, by its place, from the result of the processing to the
  code of the transaction and to the answer; a thread that has received no request has
  failed to make it, or holds the code of an error (`Settled`). `NoneAssumption` only
  says that "nothing" is no transaction and no number. `ToldOnceCorrect` is
  `SuccessToldOnce`, with fewer clients than half the range of an unsigned (`NoWrap`):
  beyond, a count wraps and is told as another number. The invariant `BalanceInv` says,
  transaction by transaction, that what was told and what is still counted make what
  succeeded and is recorded; the sum over the clients is the recursive function of the
  library, unfolded by an induction on the size of sets. `TreeCorrect` is `TreeSound` of
  `PathTree`. Addresses grow from a parent to its children (`Linked`), which gives the
  inductions that links, paths and subtrees need: a path is the only solution of its
  recursion (`PathsUnique`), leads back to its entry (`LookupPath`), and `MaxCells`
  steps down reach all that is below an entry (`SubTreeIs`). The packages that wait are
  in an order where none is below an earlier one (`Waiting`), so that the destruction of
  one leaves the others. `TreeImplements` is the refinement of `PathSet`: `Partway`
  says, name after name, which paths the addition of a file has made so far, and
  `BelowIsPrefix` that what is below an entry is what has its path as a prefix.
  `TreeAssumption` says that paths are sequences and that NULL is no address.
* `AfmpkgInstall_proofs`: `TypeCorrect` (a thread never indexes beyond the units of its
  package), `HandlesReleased`, `RestoreCorrect`, `RemovalCorrect` and
  `OverwriteCorrect`. The last three assume `Apart`: the packages of two threads have no
  unit in common. `install_race` shows that `NoOverwrite` needs it, and the same
  instance with failing writes violates `FailedInstallRestores`. The properties speak of
  the end of a package or of one write only; the invariant `IInv` follows the phases of
  the processing (`Phase`). While checking, the files are those found (`Same`) and the
  ones already checked do not exist; so after the last check none existed when the
  package was begun (`WasClear`), and what is written over is at most a file of the
  package itself (`Writable`); the rollback, which starts from the first unit, leaves
  behind it no file but the ones it could not remove (`Undone`). A removal creates no
  file (`Subset`) and, as long as its result is good, has found every unit it has passed
  (`WereThere`). `PhaseOther` shows that the steps of other threads disturb none of
  that, the other `Phase` lemmas that the thread itself maintains it. `AnswerCorrect` is
  `AnswerHolds`, under `Apart` and `EntriesApart` (no entry is asked of two threads): a
  label is the one of the last package that touched a file, so that a thread working
  below the same directory could change it after the answer. `AnswerInv` adds to `IInv`
  what is done of the list of packages (`Loop`) and of the package in progress
  (`Progress`). The argument is the order of the list (`Ordered`): embedded packages
  come first, and by `TreeAssumption` directories are nested or apart, so that the
  entries a package tags are those that it holds most closely and no later package
  touches the ones tagged before. Both hypotheses are those of the instance
  `install_apart`. `ChecksCorrect` is `ChecksExact` of `SignedDigest`: the records are
  compared one by one with hashes that are kept from one signature to the next, so the
  invariant says which of them were compared so far, with which hash, and that a hash
  that is kept is the one of the file unless it was edited since the check began.
  `NamesAssumption`: the names of files and of signatures are different and finitely
  many.
* `AfidManager_proofs`: `UniqueCorrect` and `ExhaustionCorrect`, for threads that
  overlap in any way, any number of targets and scans that may fail; the exceptions are
  the events of `harm`, part of the properties. The invariant has one layer for each set
  of them. Whatever happened, `Begun`. Unless two threads were in `get_new_afid`, only
  one is (`Serial`), and `Progress` says what it knows at each of its steps: an
  identifier that it finds free has its bit clear until it is stored, and it gives up
  only after a scan that left no bit clear. If nothing at all happened, the array has
  all the identifiers given, except before its first use and while it is filled again
  (`Recorded`), and when it is filled they are all in unit files (`Settled`).
* `AfmBinding_proofs`: `FreshCorrect` and `ServedFresh` (`DatabaseFresh` of the database
  alone and with its clients), `PermissionCorrect`, `RunidCorrect` and `AskedCorrect`. A
  scan that goes on while the files change may record anything; `ScanExact` says that it
  is exact for the files visited unless a signal is still to come or pending, which is
  why the pending signal is enough. The permissions follow the chain of checks
  (`Permitted`): a request whose status is still ok beyond a check has the permission or
  did not need it. `Started` and `Stopped` tie what is told or stopped to the
  application and the user asked, through the paths recorded in the data of the unit and
  the processes of systemd (`Owner`), and a stop to the unit that the pid led to
  (`Led`). Pids are given again in any order: the process that is told, and the one a
  stop is led to, have had the pid of the application asked. `AuthCorrect` is
  `AuthDecides`, for expressions of any depth (`AuthAssumption` gives each one a
  `Height` greater than those of its parts, thus no cycle). The invariant reads the
  stack from its top: the answer that is awaited, combined with the operators that wait
  in the cells, has the truth value of the whole expression, and the cells in use with
  the room that the current part needs are those that the whole needs.
  `UnitsSplitCorrect` is `SplitExact` of `UnitProcess`, for every template and every
  manifests that are sequences of lines (`TextsAssumption`), and requests processed in
  any interleaving. `TemplateInv` follows the static template through its loading: as
  long as no request came between the loading and the packing (`raced`), one thread at
  most works on the template and the others find it absent or packed (`Unraced`,
  `ThreadTemplate`). `SplitState` relates the turns of `corpus_split` to the marks of
  the text: its place is after an even number of marks, no error is recorded exactly
  when those marks alternate as they must, and there is then one unit for two marks. The
  second part (`SplitCorrect`) holds raced or not: a text, whole or not, is split
  exactly.
* `RpmPlugin_proofs`: `PluginTypeCorrect`, `CompletedCorrect`, `AnnouncedCorrect` and
  `RequestsCorrect`, for any sets that rpm interleaves. The invariant says that the
  records that remain of a set are those numbered after the last one announced
  (`Ahead`), of the type that its phase announces (`InOrder`). The refinement of
  `RpmAnnounce` follows step by step. For the messages, `Makes` relates the buffer to
  the lines of the package and `CutOf` the part that reaches the daemon; the lines lost
  when the first buffer is outgrown (`rpm_long`) are part of it: the daemon then refuses
  the message, and what it takes is still faithful. For `MissedByFailure` the invariant
  `ToldInv` follows the request of a package from its first line to the daemon: the
  message being made is the whole request so far (`MakingIt`), the connection holds one
  message or one answer (`Exchange`), and the packages performed whose request is
  neither on its way nor taken are no more than the failures (`Counted`).
  `NoneAssumption`: "nothing" is no call and no message.
* `WidgetInstall_proofs`: `UnitsCorrect`, `FailureCorrect` and `PresentCorrect`, for
  `wgtpkg-install`. None of them is inductive: they hold because of the order of the
  steps. `InPlace` says at each step where the widget is and that no unit of its
  identifier is left when its directory is about to change, unless the removal of the
  units failed (`Quiet`); `Unforced` that an installation that is not forced has changed
  no directory but its working directory, which did not exist (`OnlyWorkdir`), and
  leaves at most that one (`Contained`); the move keeps it true, since the target did
  not exist either and becomes the working directory. `KeptInv` says the same of the
  icons and of the rules, which only the widget now in place may have changed.
  `FailureCorrect` is `FailureContained`; `FailureUndone` is false of the code
  (`widget_undone`). The assumptions are that the directories of widgets and the
  temporary ones have different names (lower case, "TMPn") and that the widgets are
  records of the modelled type. With `install_redpesk` this does not hold: see section
  5. `AnswersCorrect` is the whole of `WidgetAnswers`: the permissions and the path
  types are folds over the parameters and the files of the widget, the permissions being
  those asked but the optional ones that were refused (`OnlyOptional`); what they
  compute is proved by induction on the first indexes (`EveryIndex`), from the existence
  of the function that folds (`FoldExists`). In the same way `SignaturesCorrect`
  (`WidgetSign`; the names of signature files are numbered without repetition,
  `SignAssumption`) and `RightsCorrect` (`RightsFaithful` of `CertChain`, thus between
  given certificates; certificates and extensions are sequences, `WorldsAssumption`).
  `TransactionCorrect` is `TransactionDone`, when rpm unpacks what it announces
  (`UnpackMayFail = FALSE`, see section 5). What is removed or replaced was set up
  before and lies in the directory of its identifier (`TransactionsAssumption`). The
  invariant `RpmInv` holds one row for each place of a package in its documented
  sequence (`InstallRows`, `RemoveRows`, `UpgradeRows`): the record of the plugin, what
  was called so far, and what the disk, the units and the rules hold as long as nothing
  failed. The steps of one package leave the rows of the others alone, since each
  operation works on its own identifier; `Removal` and `Setup` follow the operation in
  progress.

The type invariants of these modules are proved; where no run checks them again they
document the variables, as do those of the modules without proofs.

Only model-checked:

* liveness (`Terminates`, `EventuallyStops`, `EveryClientServed`,
  `EveryRequestReplied`, `ChangesSeen`, `PackagingEnds`), out of the reach of the prover;
* `FieldsReadBack` of `UnitProcess`: it compares the composition of five rewritings of a
  text (two packings, the instance, the split, the cropping) with a sixth one, each an
  induction over the lines with its own state.

## 4. Bounds

| bound | run | why it is enough |
|---|---|---|
| `MaxLines` = 5 | reception | BEGIN, three fields in any order, END; and any line repeated |
| `BufSize` = 4, `MaxStream` = 6 | reception | streams longer than the buffer, two lines, every cut |
| `Retention` = 1 | daemon | a transaction expires before or after any other step |
| `UIntMod` = 16 | daemon | above twice the number of requests, so that signs are told apart |
| `AfidMax` = 3, `WordBits` = 2, `MaxTargets` = 2 | reception | two words, the last one partial; more targets than identifiers, others lost by failed installations |
| `MaxJobs` = 3 | install | install, remove, and a third request that meets what the two others left |
| `MaxCells` = 9, `MaxFailures` = 1 | algorithms (tree) | five paths, a package embedded in another, one at the root, an allocation that fails anywhere |
| `StackDepth` = 3 | algorithms (auth) | expressions that fill the stack and that overflow it |
| `MaxEdits` = 5, `MaxReadFaults` = 1 | algorithms (digest) | two signatures, an edit before, between and during the check |
| `MaxUnitFaults` = 1 | algorithms (units) | two threads, one failure: of the loading, of the instance or of the split |
| `MaxFaults` = 1 | algorithms (contents), packaging (plugin) | a failure anywhere |
| `Buffer0` = 10 | packaging (plugin) | the requests of two files fit, those of four do not |
| `MaxChanges` = 3, `MaxFails` = 1 | packaging (database) | a change before, during and after a scan; an error of one of them, made good by the next |
| `Trials` = 2, `Pids` = 2, `MaxChanges` = 1 | services, replies | a poll that has to wait; two pids for three units, so that they are given again; a reload during a request |
| `MaxOps` = 3, `MaxTroubles` = 2 | packaging (tool) | install, forced upgrade that fails or dies, installation after it |
| `Temps` = 3 | packaging (tool) | one more than the deaths that may leave a working directory |
| `MaxWritings` = 5 | packaging (sign) | two signers and edits in any order |
| `UnpackMayFail` = FALSE | packaging (rpm) | rpm unpacks what it announces; see section 5 otherwise |

`CHECK_DEADLOCK FALSE` is used where the system may stop: all requests were
served, the bound on requests was reached, or the connection is closed.

## 5. What the code does not ensure

Four runs end with a violation, each with a finding in `PROJECT.json`: `framing_split`,
`install_race`, `rpm_long` and `widget_undone`. Beside them the models showed the
following. Where a property would not hold the bound or the exception that hides it is
named.

* *afmpkg.c*: a target whose source is only below `htdocs` passes `check_contents` and
  is refused by `compute_target_file_properties_cb`; with both a redpak identifier and
  the automatic search (`afmpkg-offline`) the length of the identifier is subtracted
  from the path of the package (1145, excepted by `InstallDirUnderRoot`); a package at
  the root of the tree is freed twice (1605, excepted by `FreedOnce`); errors are
  ignored and the trailing slashes of the root are cut twice (400, 965, 1150; excepted
  by `PermitsAsked`, `TagsApplied` and `InstallDirUnderRoot`).
* *afmpkg-server.c*: a client whose request structure could not be allocated is answered
  OK (132; excepted by `AnswerTruthful`).
* *manage-afid.c*: two threads in `get_new_afid`, a rescan between two targets and a
  failed scan give an identifier twice (129, 150, 133; excepted by `AfidsUnique`).
* *afm-urun.c*: terminate may stop the application that got the pid of the one asked
  (484; excepted by `StopsTheAsked`).
* *afmpkg-client.c*: a cut request is applied (92; `AppliedFaithful` accepts it).
* *unit-process.c*: the template is used while another thread packs it (461;
  `TemplateWhole` without the exception of `SplitExact`); `pack` removes lines that start with `%` also when they continue a
  line, and `dedup_slashes` removes the empty line that ends a continued one.
* *signed-digest.c*: the answer for several signatures is the one of the last that was
  checked (136); `GrantsOfAccepted` holds, that all are accepted does not.
* *domain-spec.c*: the string of an empty specification is written in a block of size 0
  (152). `sort_certs` has no caller.
* *common-cert.c*: a certificate issued by a trusted `#` is given `#` itself (119; out
  of `RightsDecrease`); certificates that issue each other make the recursion endless (96);
  the worlds of the model have no cycle.
* *legacy widgets*: `install_redpesk` of a directory that does not exist works on the
  working directory of the former operation, thus sets up another widget (it happens
  with `UnpackMayFail = TRUE`); when the rename of `move_workdir` fails, the assertion
  of `remove_workdir` ends the process and leaves its directory; an upgrade to a widget
  without icon by `install_redpesk` leaves the former one; a second icon is reported but
  accepted; `wgtpkg-sign` documents the number zero as automatic but refuses it.

## 6. Not modelled, and the plan

Not modelled: cryptography, the XML, zip, JSON and mustache libraries, the D-Bus
encoding, the parsing of PKCS7 files and revocation lists, `draft-signature.c`;
`afmpkg-legacy.c`, an earlier form of `afmpkg.c` that is not built by default, and
the legacy build with distinct versions; the conversions of one document into another
(`main-translate.c`, `main-migrate-config.c`, `wgt-json.c`, `wgt-config.c`), the
creation of the directories of a user (`src/setup`), the mains of the tools and
logging. In `InstallerDaemon` the effect of `sighup_all` on other processes, which
`AfmUdb` models on its side. In `AfmUdb` the handler of SIGHUP running in two threads at a
time (`afm-binding.c:684`: the mask of a handler is the one of its thread), where an older
scan could be kept last. In `LegacyRpm` the lack of memory of `psm_pre`
(`legacy-rpm-redpesk.c:189` and `215`), which returns `RPMRC_FAIL`: what rpm does of the
package then is not in this repository.

Plan, in order:

1. a proof of `FieldsReadBack`, one rewriting after the other, by the inductions on folds
   that `AfmpkgRequest_proofs` uses;
2. the composition of `RpmPlugin` with the transactions of `InstallerDaemon`: an
   abstract ledger of transactions (results counted once, told once) that both
   implement;
3. revocation lists in `CertChain`.
