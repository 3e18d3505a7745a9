# A TLA+ model of tnvme

tnvme is the user-space half of the NVMe compliance suite: a single-threaded
C++ program that drives a device under test (DUT) through the kernel module
dnvme and decides, test by test, whether the device conforms.  This directory
holds TLA+ modules that model its core and its tests, TLC configurations that
check them, and TLAPS proofs about all but the bodies of the tests: which tests
run and what is reported, what an exception leaves behind, meta data buffers,
the rings and the wait for a completion, the two hosts of a reservation.

There is one thread in tnvme, but it is not alone: the device completes
commands while the program is between two ioctl()s, dnvme keeps tables of
queues and buffers that must agree with the program's, exceptions tear down
half-built state, and other instances of tnvme may be started on the same
device.  That, and the bookkeeping over sets of dependent tests, is where the
program is hard to test.

## 1. Inventory

| Component | State | Operations | Interacts with |
|---|---|---|---|
| Test matrix (`group.h`, `testRef.h`) | `mTests`, three levels of deques per group | lookup, traversal | filled by the constructors of the `Grp*` groups |
| Execution (`tnvme.cpp`, `group.cpp`, `test.cpp`, `testResults.cpp`) | test set, `tstIdx`, counters, lists of failed and skipped tests, exit code | `ExecuteTests`, `GetTestSet`, `RunTest`, `AdvanceDependencies`, `Runnable`, `Run`, `SaveState`, `RestoreState` | command line, every test, `CtrlrConfig` |
| Meta data buffers (`metaRsrc.cpp`, `metaData.cpp`) | reserved and released lists, allocation size; the buffer each command holds | set size, reserve, release, free all | dnvme's table of buffers; told of disables by `RsrcMngr` |
| Controller state and object lifetimes (`ctrlrConfig.cpp`, `rsrcMngr.cpp`, `objRsrc.cpp`, `subject.h`) | CC/CSTS, `mObjGrpLife`, shared pointers in tests | `SetState` with its observers, `AllocObj`, `GetObj`, `FreeAllObj...` | dnvme's queues; queue destructors |
| Exceptions (`frmwkEx.cpp`) | `mPrelimProcessingInProgress` | constructing and destroying a `FrmwkEx` | disables the device before the stack unwinds |
| Queues (`Queues/`) | rings in memory shared with dnvme and the device | `Init`, `Send`, `Ring`, `ReapInquiry`, `Reap`, `PeekCE` | dnvme, device |
| `IO` (`Utils/io.cpp`) | none | `SendAndReapCmd`, `ReapCE` | queues, the clock |
| Test groups (`Grp*/`, 28 instantiated) | queues with group lifetime, what they leave in the device | `RunnableCoreTest`, `RunCoreTest` of some 190 tests | all of the above |
| Save and restore (`grpAdminSetGetFeatCombo.cpp`) | the features read before the first test | `SaveState`, `RestoreState` | `RunTest`, the device |
| Reservations (`GrpReservationsHostA`, `...B`) | registrations and reservation in the namespace | register, replace, acquire, access | another instance of tnvme on another controller |
| Start-up (`tnvme.cpp`) | device descriptor and lock, groups, singletons | `BuildTestFoundation`, `BuildSingletons`, their counterparts | operating system, other instances |
| Everything else | | parsing, registers, `Informative`, dumps, files, command dwords | |

What is hard, and what makes each part correct:

* *Execution*: skipping and failing tests must take exactly their dependents
  along; sets must be complete and ordered; results must add up over
  iterations; a failure must reach the exit code; what was saved must be
  restored.
* *Meta data*: tnvme's lists and dnvme's table must agree through reuse,
  exhaustion, disables and unwinding; no two commands may share a buffer.
* *Exceptions*: the device must be disabled before objects it writes to are
  freed, also when the handler itself fails; objects that outlive a disable
  must be backed by memory.
* *Queues and IO*: rings seen at different times by three parties; a completion
  must not be taken for that of another command; a wait must end.
* *Test groups*: a device that conforms must pass, whatever ran before and
  whatever optional features it has; passing must mean what the description of
  the test says; with `-p` the media must keep its contents; queues must be there
  when they are used.
* *Reservations*: what a run leaves in the namespace must not fail the next one,
  and the two hosts must not disturb each other.
* *Start-up*: instances must not use a device together.

`PROJECT.json` lists these hazards with the line where each one bites and the
properties that cover it.

## 2. Modules

`NvmeQueues` has no behaviours of its own: `SendReap` and `QueueTests` extend it.
`GroupRunner` extends `TestRefs`; `SendReap` instantiates `CmdCall`.  The theorems about
a component are in a module of their own that extends it: `GroupRunnerProofs`,
`FrmwkExProofs`, `FoundationProofs`, `ReservationsProofs`, `MetaRsrcProofs`, `SendReapProofs` and
`QueueTestsProofs`; the last two extend `NvmeQueuesProofs` too, which has what is true of any ring.
`TestOps` is the vocabulary of calls; `AdminQueueTests`,
`AdminTests`, `DeviceTests`, `NvmTests`, `ComboTests` and `QueueGroupTests` extend one another in
this order, each with the tests of some groups, and `TestSuite` executes them all.
`Reservations` stands alone.  The `MC*` modules only give constants their values.

Operators introduced by a comment `Variant:` are altered forms of the definition
that follows them, each with a mistake such code could have; substituting one
must violate a property, which shows that the property depends on that
definition.  Nothing in a specification refers to them.

### TestRefs and GroupRunner: which tests run

A group is a matrix of sizes `mTests[g][x][y]`; `TestExists`, `HasNextTest` and
`NextTest` are the lookup and the traversal of `IteraterToTestRef`.
`DependenciesOf` states what the numbering x.y.z means, independently of the
code: x.0.0 configures the device for x, and x.y.z continues x.y.0 to x.y.(z-1).

| Action | Code |
|---|---|
| `CheckTarget`, `SkipGroup`, `EndIteration` | the loops of `ExecuteTests` |
| `StartTarget`, `StartGroup`, `CollectTest`, `GroupAborts` | disable, then `GetTestSet` for one test or a whole group |
| `RunNotFound`, `SaveFails`, `TestPasses`, `TestFails`, `TestSkipped` | one call of `RunTest` each, to its end: `SaveState`, the verdict, `AdvanceDependencies`, `RestoreState`, and what `ExecuteTests` does with the result |

The body of a test is its verdict.  A failure may or may not have disabled the
device: a `FrmwkEx` does, an error bit in a status register or a test that says
`RUN_FAIL` does not.  `SaveState` and `RestoreState` return true, return false or
throw; what they save is one value, `dut`.  Status registers, tracing and the
replacement of a test object by its clone leave the modelled state alone.
`inForce`, `executed`, `offered` and `stateErr` are history.

### MetaRsrc: meta data buffers

`mMetaReserved` and `mMetaReleased` are sequences of IDs, `kernel` is what dnvme
holds, `mMetaData` the buffer of each command.  Commands are of two kinds, as in
the tests: those kept across every disable of a test (`NLBAMeta_r10b`), and those
that live in one turn of a loop (`LBAOutOfRangeMeta_r12`).  One action per outcome
of `ReserveMetaBuf` (reuse, new, denied, refused); a `FrmwkEx` disables, and then
the test's commands are destroyed one by one.

### FrmwkEx: exceptions and lifetimes

Queue objects by name, with two lifetimes (`mObjGrpLife` plus the shared pointers
a test holds, and the test's stack), dnvme's queues `kq`, the state of the device,
and the handler step by step (`WriteToLog`, `Reset`, and with `--postfail`
`DumpFiles` to `PostStop`), each of whose steps may throw in turn.  `raw` are
objects whose `Init` did not finish.  `DeleteQ` is a Delete IO SQ or CQ command, by which
dnvme frees a queue without any object being told (`deleteIOQContig_r10b.cpp:111`).  An
iterator used after it was erased (`FreeAllObjNotASQACQ`) is a
choice over what a build can do: any subset of the remaining elements is missed,
or the process ends.  `missed` and `deleted` are history: the objects such a walk
has passed over, and the queues a test has had deleted.

### NvmeQueues, SendReap, CmdCall: commands and completions

The rings, with dnvme's pointers under the names its metrics use, and a device
that reads what was rung, completes in any order and respects a full CQ.  The
device and dnvme are modelled from what `src/` relies on and marked external in
the map.  `SendReap` runs `IO::SendAndReapCmd` on them one ioctl() at a time, between
sends of asynchronous commands (as in `GrpAdminAsyncCmd`).  A timeout may strike at
any turn of the wait.  `CmdCall` is what a caller expects: a call begins, submits,
and returns its own completion or throws.

### QueueTests: tests as programs

Nine tests of `GrpQueues` (`AdminQFull`/`IOQFull`, the four `RollChk` tests,
`ManyCmdSubmit`, `SQCQSizeMismatch`, `ManySQtoCQAssoc`) as programs on the rings, with
the queue sizes each computes from the device's limits.  The device is prompt
here: a wait times out only if the device can do nothing more, so that a failure
verdict is the test's mistake.  Creating and deleting the queues are not steps.
The rollover tests on the admin queues check more than those on IO queues, the SQHD of
the last CE among it; the stricter checks are the ones modelled, for both.

### TestOps, the test modules, and TestSuite: every test as a program

`RunCoreTest()` of a test is a straight sequence of calls into the framework: its
loops and branches depend on what the device reported at start-up and on the
command line, both fixed before the test runs.  A test is therefore an operator of
the device description `d` whose value is `Test(runnable, calls, finds)`: the verdict
of `RunnableCoreTest()`, the sequence of calls, and the flaws of a device its
description claims to find.  The operator has the name of the test's class; a test that
exists for several revisions of the specification has one operator for each, and
the constructor of a group (`GrpNVMReadCmd(d)`) chooses among them as
`gCmdLine.rev` does.

| Module | Groups |
|---|---|
| `AdminQueueTests` | `GrpAdminCreateIOCQCmd`, `CreateIOSQCmd`, `CreateIOQCmd`, `DeleteIOCQCmd`, `DeleteIOSQCmd` |
| `AdminTests` | `GrpAdminIdentifyCmd`, `GetFeatCmd`, `SetFeatCmd`, `GetLogPgCmd`, `AsyncCmd`, `SetGetFeatCombo` with its save and restore, `NamespaceManagement` |
| `DeviceTests` | `GrpBasicInit`, `GrpPciRegisters`, `GrpCtrlRegisters`, `GrpResets`, `GrpInterrupts` |
| `NvmTests` | `GrpNVMDatasetMgmtCmd`, `FlushCmd`, `ReadCmd`, `WriteCmd` |
| `ComboTests` | `GrpNVMWriteReadCombo`, `GrpGeneralCmds` |
| `QueueGroupTests` | `GrpQueues` |

`TestSuite` has one action per kind of call.  The framework's side of it is
`mObjGrpLife` (`objs`), the pointers a test looked up in vain (`null`), the state of the
controller, the entry sizes in CC, the IRQ scheme, and the queues dnvme prepared
(`nodes`).  The device (`dev`) keeps its IO queues, the pattern in each block, the
features, asynchronous events, namespaces, IRQ counts, registers and command
IDs, and answers each command: `Answer` compares the fields of the command with what the
specification requires, as far as a test looks at it.  A device has at most one
*flaw*, named after the requirement it ignores (`CreateIOCQ.qid`, `Write.range`,
`Reset.ioqs`).  Device and dnvme are external in the map.

`Start`, `Skip`, `Complete` and `Throws` are `RunTest()` and `AdvanceDependencies()` for one
group; `GroupRunner` has them in full, with the rest of `ExecuteTests()`.  With `--restore`,
`SaveState()` of the group runs call by call before its first test, and `RestoreState()` after its
last one and after each that failed (`part`, `RestoreDue`); either may throw or fail, which
ends the group.  `SetStateDisable` walks `mObjGrpLife` with an erased iterator as in `FrmwkEx`.  A group
also ends when tnvme uses a null pointer ("crashed"), when the destructor of a queue without a buffer
throws ("terminated"), and by the erased iterator or what it left behind ("died").  A test may be
skipped at any point, so that tests run after any subset of those before them that
the dependencies allow.  A command is one step here; `SendReap` has its parts.

### Reservations: two hosts on a namespace

The two groups are run by two instances, each on its own controller, command by
command.  Registrations and the reservation belong to the namespace and outlive a
process and a reset; the host identifier does not.  `Killed` ends an instance
between any two commands, `Begin` starts the group again, `Skip` leaves out a test.

### Foundation: instances on a device

Several instances go through `BuildTestFoundation`, `BuildSingletons`, their work and
the tear-down; each may die anywhere.  The operating system's record lock is
modelled as fcntl(2) documents it.

## 3. Runs

| Run | Configuration | States | Shows |
|---|---|---|---|
| `group_runner` | `GroupRunner.cfg` | 182,005 | sets, dependencies, totals, restoring, exit code, termination |
| `meta_rsrc` | `MetaRsrc.cfg` | 27,126 | lists and dnvme agree; refusal only when full |
| `frmwk_ex` | `FrmwkEx.cfg` | 2,892,971 | disabled when objects die; mark reset; nesting bounded; which group objects are backed |
| `send_reap` | `SendReap.cfg` | 386,760 | the completion looked at is the one reaped; calls leave no entry in use; calls end |
| `send_reap_call` | `SendReapCall.cfg` | 3,006 | `SendReap` implements `CmdCall` |
| `queue_tests` | `QueueTests.cfg` | 1,296 | a conforming device passes, and passing means what the tests claim |
| `foundation` | `Foundation.cfg` | 4,408 | holders of the lock are alone |
| `test_suite` | `TestSuite.cfg` | 540,637 | conforming devices pass, flaws are found, no null queue, `-p` and `--restore` kept |
| `reservations` | `Reservations.cfg` | 54,636 | host A passes, its block is kept, host B fails only when too early |
| `failure_lost` | `FailureLost.cfg` | violated | `FailureNeverLost` |
| `throw_new` | `ThrowNew.cfg` | violated | `DisabledOnException` |
| `preserve_ignored` | `PreserveIgnored.cfg` | violated | `PreserveKept` with `-p` and revision 1.2 |

Deadlock is checked in `meta_rsrc` and `test_suite` (where the end of a group is a
step that repeats); the other modelled programs end.

**Bounds.**  *group_runner*: group 0 has two xLevs, a level of three yLevs, two
sequences of two tests, and levels with one test; group 1 is empty; group 2 has
two levels.  This is the smallest matrix in which a test has a configuration
test, a predecessor, both, or neither, and can be followed by its own sequence,
another one, another level, or nothing.  The command lines ask for the suite,
a group with five skip lists, each single number in and around the matrix, and
three iterations of a group.  *meta_rsrc*: four commands compete for three
IDs, so that exhaustion and reuse in another order occur.  *frmwk_ex*: the admin
pair and two IO queues in both lifetimes (two, because the walk with an erased
iterator misses nothing with one), up to a permutation of the two, and three nested
constructors.  *send_reap*:
rings of three entries, four CIDs, two asynchronous commands, so that rings
fill, pointers wrap and CIDs come round.  *send_reap_call*: two SQs share a CQ of two
entries.  *queue_tests*: a device of six entries is the smallest for which all
sizes the tests compute are legal; the minimum 2, and three IO queues.  *foundation*:
a holder, one that is refused, and one that comes later.

*test_suite*: `MCTestSuite` lists the devices.  `Base`, for revisions 1.0b, 1.1 and
1.2, has two IO CQs and three SQs, queues of 12 entries, three interrupt
vectors, a bare namespace and one with separate meta data of eight blocks each,
transfers of six blocks (so that a namespace takes a full and a partial chunk), an
AERL of 2 and all optional features.  `Preserved` has `-p`, `Bare` only what is mandatory and
queues of four entries, another one interleaved meta data, `Inactive` an inactive
namespace, and `SameQueues` the equal numbers of queues `MaxIOQ` needs with six
entries.  Then each flaw of `FlawsOf` in turn, for `Base`, for
`SameQueues`, and for a later revision in the groups whose tests it changed.  The limits of `TestOps` (largest queue ID,
queue and admin queue size, namespace ID, 16-bit field) are scaled down but keep their
order: a legal value, the limit of the device, one above, and the limit
of the field are all different.  *reservations*: each group three times, so that a
run can follow one that was killed and precede one that was not.

**Fairness.**  `GroupRunner`: weak fairness of `Next`, the process is not stopped, each
ioctl() returns and each wait has a timeout.  `SendReap`: weak fairness of each
step of the call and of the timeout; nothing is assumed of the device, so
`CallEnds` rests on the clock alone.  `QueueTests`: weak fairness of the program and
of the device, since these tests are about a device that works.  The other
specifications have no fairness.  In particular `TestSuite` and `Reservations` say nothing
about termination: their programs are unrolled loops, which end by construction;
that a loop of a test ends for every device is not shown by unrolling it.

## 4. Where the code departs from its comments

Checked as runs: a failure that was ignored is lost when `RestoreState` throws
(`failure_lost`); `throw new FrmwkEx` (in nine places) leaves the mark set, and the
exceptions of later tests find it set and skip the disabling (`throw_new`); with `-p` the reserved-field tests of
revision 1.2 run and write to the media, since their `RunnableCoreTest` assigns
`preserve` to itself and returns `RUN_TRUE` (`preserve_ignored`).

Stated in the modules, found violated, and not kept as runs:

* `SentBufferIsOwn` (`MetaRsrc`): a command kept across a disable is sent with a buffer ID that
  was given to another command since (`metaRsrc.cpp:159`, against `metaData.h:43`).
* `CatchesAll` (`FrmwkEx`): unwinding past a queue whose `Init` failed runs a destructor that
  throws, and the process ends (`queue.cpp:54`, against `test.h:99`).
* `OnlyAdminRemain` (`FrmwkEx`): with two IO queue objects of the group, `ST_DISABLE` may leave
  one of them in `mObjGrpLife`, or end the process, as the walk goes on with the iterator of
  the object it has erased (`objRsrc.cpp:224`, against `rsrcMngr.cpp:72`).
  `createIOQContigIrq_r10b.cpp:137` does this with four.  In `TestSuite` its consequences have a
  verdict of their own, "died", which `NoFalseFailure` does not count as a failure of the device.
* `OneUser` (`Foundation`): an instance that is refused the lock logs it and goes on
  (`tnvme.cpp:664`).

Visible in the model as the conditions its properties need:

* `RestoredAfterTarget` excludes a target that does not exist: with zLev 0 it is not
  looked up, its configuration test runs, and `RunTest` returns before restoring
  (`group.cpp:227`).
* `DisabledOnThrow` excludes `--postfail`: the handler enables the device itself, and a
  failure after that is taken for an exception within an exception
  (`frmwkEx.cpp:80`).
* `NestingBounded` excludes a log entry that dnvme refuses: it is written before the
  mark is checked, so that each exception constructs another (`frmwkEx.cpp:75`).
* `GroupObjectsBacked` excludes an object whose `Init` failed, an IO queue that a test had deleted
  by a command and whose object stays in `mObjGrpLife` (`deleteIOQContig_r10b.cpp:111`), and one that
  an earlier `ST_DISABLE` has passed over (`objRsrc.cpp:224`).  A later `AllocObj` of a name that is still taken makes an object
  that is destroyed without a buffer, which ends the process (`objRsrc.cpp:163`).
* `TestFails` has failures that disable nothing, against `group.cpp:348`; the
  theorem below holds all the same.
* `ManyCmdSubmit` is missing from `FullFillsBoth`: `(maxIOQEntries - 1000) % x` is 0
  for x = 1, so that the first increment is 100 and a device of at most 101
  entries is tried with a single command (`manyCmdSubmit_r10b.cpp:157`).
* `DestroyTestFoundation` halves `groups`: its loop compares a growing index with a
  shrinking size (`tnvme.cpp:706`).

In the tests, each kept out of the runs by the choice of devices or by `Missed`:

* Tests that do not find what their description says, so that a device with that
  flaw passes: `getInvalidFIDs` fills a copy of the vector it is given, and no invalid FID is
  tried (`GrpAdminGetFeatCmd/invalidFieldInCmd_r10b.cpp:107`, `GetFeatures.fid`); the mask for the reserved
  select values strips the FID (`UnsupportRsvdFields_r11b`, `_r12` of the same group,
  `GetFeatures.select`); `fidIRQVec_r10b.cpp:138` keeps only the verdict of the last vector
  (`SetFeatures.vec1`); tests of DSM attributes and PRPs ignore the status
  (`DatasetMgmt.attr`, `DatasetMgmt.prp2`); `FunctionalityMeta` of Flush compares the first chunk only (`Flush.meta`);
  `ManyCmdSubmit` as above (`Ring.many`).  These are the members of `Missed` in `MCTestSuite`.
* Loops over the blocks of a namespace end at `ncap - 1`, so that the last block is
  left out when it starts a chunk of its own (`startingLBABare_r10b.cpp:154`).
* Conforming devices that fail: AERL 255, as the limit is kept in eight bits
  (`verifyMaxEvents_r10b.cpp:113`); as many IO queues as the ASQ has entries, one more than
  fit (`deleteAllAtOnce_r10b.cpp:125`); more IO SQs than CQs (`MaxIOQ`); fewer than six entries
  (`IOQFull`); an inactive namespace with revision 1.2 in tests written for 1.0b; a
  device with end-to-end protection only, for which the write/read tests throw.
* Checks that are passed over: the number of IO queues is looked at only if the
  number of entries was enough (`createIOQContigPoll_r10b.cpp:124`, `ctrlrResetIOQDeleted_r10b.cpp:113`).
* The reservation tests are on the yLev, hence taken for independent, but each
  needs the one before: `HostAPasses` excludes runs with a skipped test
  (`grpReservationsHostA.cpp:40`).  `ReleaseReservation` sends nothing, so the reservation stays.
  `AcquireReservation` writes LBA 5, and `DeleteAllNamespacesAndVerify` deletes namespaces, with `-p` too.

Smaller ones outside of the models: `1 << i` for i >= 32 (`test.cpp:213`); a 32-bit value shifted by 32
(`allPciRegs_r10b.cpp:197`); controller registers looked up in the table of PCI registers
(`registers.cpp:96`); a list of PCI capabilities followed without end if it has a loop
(`registers.cpp:422`); a `FrmwkEx` before `gCtrlrConfig` exists (`frmwkEx.cpp:88`); `MAP_FAILED` compared with
NULL (`metaRsrc.cpp:122`).

## 5. Proofs

`GroupRunnerProofs` proves, for every matrix, every set of command lines and every
behaviour of the device (assumptions: `ShapeAssumption`, `AllAssumption`,
`SavesAssumption`, `CmdLinesAssumption`):

* `TypeCorrect`: `Spec => []TypeOK`;
* `TestSetsSound`: `Spec => []TestSetSound`;
* `GroupsListed`: `Spec => []GroupListed`;
* `RunsOnlyPrepared`: `Spec => RunsOnPreparedDevice`.

The inductive invariant is `PreparedInv`.  `TestSetSound` alone is not inductive:
while `GetTestSet` lists a group, that the list stays ordered and closed under
dependencies needs to know where the cursor is and that everything before it is
listed (`Listing`) and of the same group (`OneGroup`).  `RunsOnPreparedDevice` needs
`StillInForce`: whatever the rest of the set depends on, among the tests already
dealt with, has passed and is in force.  It is kept by `AdvanceDependencies`
because a test that is passed over takes along all its dependents, and these
are consecutive in an ordered set: the lemmas about `Precedes`, `DependenciesOf` and
`FirstKept` say so.  A `DISABLE_COMPLETELY` empties `inForce`; after a failure
nothing is left of its xLev, and no test depends on another xLev.

The second half of `GroupRunnerProofs` is about the report, from the same assumptions:

* `ReportAddsUp`: `Spec => []TotalsAddUp`;
* `FailuresReported`: `Spec => []FailureNotLost`;
* `SkipsAreNeeded`: `Spec => SkipsOnlyDependents`;
* `DeviceIsRestored`: `Spec => []RestoredAfterTarget`.

`FailureNotLost` speaks of the end of a run; its invariant adds `FailureCounted`, that
a failure that is listed is also in the counter `AllTestsPass` looks at.  `DeviceIsRestored` needs the most: `RestoreInv` says that the
indices of `RunTest` stay in the set (`InSet`), that every test of a set exists if the one
asked for does (`Existing`: only the first may not, as an empty group is entered at 0.0.0), and
that between the first test of a set and its end, in a group that saves, the saved
configuration is the original one, and the device has it everywhere else (`Restorable`).

`FrmwkExProofs` proves, for any IO queues and any bound on nesting (assumption:
`FrmwkExAssumption`), `TypeOK`, `MarkIsReset`, `DisabledOnThrow`, `NestingBounded` and
`GroupObjectsBacked`.  `MarkIsReset` and `DisabledOnThrow` rest on `HandlerInv`:
outside of a handler the mark is reset; an exception that finds it set, without
`--postfail`, was thrown because the device would not disable; the handler
always handles a `FrmwkEx`, and one thrown by pointer is leaked.  `NestingInv` says
that past the check for nesting one constructor is on the stack and the mark is
set, so that a second exception stops at the check.  `BackedInv` is
`GroupObjectsBacked` at every point of the program; it is inductive because a
disable keeps the memory of the admin queues if it keeps their objects, and every
other object it leaves behind is one it has missed.

`FoundationProofs` proves `OneLockedUser` for any number of instances (assumption:
`FoundationAssumption`), from `LockInv`: between `Lock` and `DestroyTestFoundation` an instance has
the lock or was refused.

`ReservationsProofs` proves `HostAPasses`, `ReservedBlockKept` and `HostBFailsEarly` for any number
of runs of the two groups.  The invariant relates how far host A has come to what the namespace
remembers: from its registration on it is registered under its own key
(`Registered`), from its acquisition on it holds the reservation and from its write on the
block is its own (`Held`), each host acts under its own identifier or the default one, under
which no key is ever registered (`Identified`), and both stay within their programs
(`Placed`).  All of it is about states after a kill as much as about an
undisturbed run.

`MetaRsrcProofs` proves `ListsMatchKernel`, `IDsContiguous`, `HoldersDistinct` and
`RefusedOnlyWhenFull` for any commands and any number of IDs, and on the way `ReservedOrdered`,
which both searches of `ReserveMetaBuf` rely on.  None of them is inductive alone:
the searches find the right place only if the reserved list is ordered, an ID is new only if
the lists are disjoint and the IDs on them the first ones (`Apart`, `Contiguous`), and what a
destructor releases is its own only if each reserved ID has its command and no
command releases a buffer from before a disable that was given to another since
(`Accounted`, `NoneStale`).  What the searches of `ReserveMetaBuf` find is proved from the existence of
a least position (`LeastNatural`), since induction over the length of a list is not available.

`SendReapProofs` proves, for rings of any size, any submission queues and any number of
asynchronous commands (assumptions: those of `SendReap` and `NvmeQueues`):

* `RoomIsLeft`: `Spec => []RoomForCall`;
* `PeeksWhatWasReaped`, `ReapsOutstanding`, `ReturnsOwnCompletion`: `PeekIsReaped`, `ReapedOutstanding`
  and `OwnCompletion`;
* `ImplementsCall`: with `MaxAsync = 0`, every behaviour of `SendReap` starts in an initial
  state of `CmdCall` and takes only its steps.  This is `IsCall` without the fairness of
  `CmdCall`.

The argument is about distances around a ring.  A few lemmas of `NvmeQueuesProofs` (`Wrap`, `Successor`,
`DistanceIs`, `DistanceNext`, `DistanceFrom`, `EntriesBefore`) state modular arithmetic once; everything
else compares distances from the head.  The invariant has three parts.  `QueuesInv`: the
pointers of each SQ are in order (`SQOrder`), and no completion that waits tells dnvme of more
than the device has read, or of less than an earlier one of the same SQ (`CQOrder`).  `ProgramInv`: where the call is, and that the entry it will look at
is the one it reaped (`Looked`), which the device cannot reuse because it lies just behind the
head and one entry of a CQ stays empty.
`Tracked`: a command is in the part of its SQ not yet read, being executed, or in the CQ, in one
place only (`Once`); every command in one of them is one the program waits for (`Known`); the one just
reaped is in none (`Gone`), so that its CID may come round.  `NoCEAssumption` says that an entry not yet written is
unlike any completion, as its phase bit is.

`RoomIsLeft` needs a second invariant on top of it.  An entry of an SQ is in use from `Send` until dnvme
reaps a CE with a SQHD beyond it, which need not be the CE of its own command.  `Held` says that an entry
that the device has read and dnvme has not learnt of is that of a command being executed, or one whose CE waits in the CQ
and tells of it; `Apart`, that no two entries in use hold the same CID.  When a call is about to be sent no other
call is under way, so that every entry in use belongs to a command of `async`, each to another one,
and there are at least as many commands as entries in use.

`QueueTestsProofs` proves, for every maximal queue size from six entries on, every size the tests derive
from it, any number of IO queues and every order in which a device reads and completes
(assumptions: `QueueTestsAssumption` and `QueuesAssumption`):

* `ConformingPass`: `Spec => []NoFalseFailure`;
* `BothWereFull`: `Spec => []FullFillsBoth`;
* `PointersRolled`: `Spec => []RollsOver`.

None of the three is inductive: a verdict depends on how many completions there are when a
wait ends, and on the head pointer the newest of them carries.  The inductive invariant `Inv`
has one part for each test (`FullInv`, `RollInv`, `ManyInv`, `MismatchInv`, `AssocInv`), and all but the last
are about a `Batch(h, T, R)`: T commands sent from entry h on, R of them reaped.  `Sent` says where
the pointers are and that the CID of an entry tells how long ago it was given, which is
needed because the device has a set of CIDs: two commands with one CID would complete once.
This is where `MaxEntries <= NumCIDs` is used; the code has it because `CAP.MQES`, zero-based,
and CIDs are 16 bits wide.  `Executes` counts: what the device has
read is reaped, waits in the CQ, or is being executed.  `Completed` bounds the head
pointer of the newest completion between what was completed and what was read.  A
wait ends early only if a prompt device has nothing left to do; then everything rung has
been read, nothing is being executed, and the count of `Executes` is what the test expects, or the
CQ is full, which the sizes of each test (`SizesInv`) exclude or make the expected case.
`FullInv` and `RollInv` carry along what has been full and what has come round so far; the lemmas
about `% n` in `NvmeQueuesProofs` give where a pointer is after n commands.  In `ManySQtoCQAssoc` each
SQ has at most one command on its way (`Works`), whose completion is the only one of that SQ and has
the head pointer the test wrote down (`AssocCEs`).

Only model-checked: liveness (`Terminates`, `CallEnds`, `TestEnds`) and the fairness
`IsCall` includes, which are out of the prover's reach; and the five invariants of
`TestSuite`.  This module executes given programs, so that its properties hold or fail by what
the programs are: they would have to be proved program by program, and the programs
are built with library operators on sequences that are recursive, which the provers cannot use.

## 6. Not modelled

* Parsing of the command line, golden-file and format options
  (`tnvmeParsers.cpp`, `tnvmeHelpers.cpp`): text without state; the models take the
  resulting options as given.
* Layout of command dwords, PRP lists, structures of Identify and of log pages,
  dumps and log files: data without control, or pure I/O.  The models have the
  fields that tests set and look at.
* `Informative::Init`, the order in which `BuildSingletons` makes the singletons, and the tables of
  registers with their widths: they run once, before any test.
* Files that no group's constructor names: `unsupportRsvdFields_r10b.cpp` of
  `GrpAdminNamespaceManagement` and of both reservation groups, and `GrpTemplate`.  `GrpNVMCompareCmd` and
  `GrpNVMWriteUncorrectCmd` have no tests.
* Timing within a test (`sleep`), and what a test does when the device does not answer: the
  call throws, which `SendReap` and `FrmwkEx` have.

Worth doing next: a proof of `SentBufferIsOwn` restricted to the commands that live in one turn of a
loop; and the part of a device that is not prompt in `QueueTests`, with the verdicts it may get.
