# A verification development for the Qubes indirect display driver

The repository holds a Windows 10 indirect display driver for a Qubes guest
(`driver/`, derived from Looking Glass), a user-mode daemon that makes the
guest's resolution follow the dom0 window (`um/`), Microsoft's sample driver
kept for comparison (`driver-mssample/`), and the scripts that build and
install the driver in the guest (`scripts/`, `toolchain/`).  This directory
models the parts with behaviour of their own in TLA+, checks them with TLC and
proves some of the results with TLAPS.

- [1. Inventory](#1-inventory)
- [2. Modules and how they correspond to the code](#2-modules-and-how-they-correspond-to-the-code)
- [3. Assumptions about the environment](#3-assumptions-about-the-environment)
- [4. Runs, bounds and fairness](#4-runs-bounds-and-fairness)
- [5. Where the code and its documentation disagree](#5-where-the-code-and-its-documentation-disagree)
- [6. Proofs](#6-proofs)
- [7. What is not modelled](#7-what-is-not-modelled)
- [8. Plan](#8-plan)
- [9. Running it](#9-running-it)

`PROJECT.json` is the index: which lines each definition stands for, which
properties each run checks, which change of the code each property is known to
notice, and which hazards of the code which property is aimed at.

## 1. Inventory

### Swap chain processor (`CSwapChainProcessor`)

State: the terminate event, the worker thread, the swap chain handle, the last
frame number (a local of the worker).  Operations: the constructor creates the
event and starts the thread; the worker sets the device and loops (look at the
terminate event, acquire, wait for a frame or the terminate event, finish the
frame), tells the device context when the display path is lost, and deletes
the swap chain on its way out; the destructor signals and joins.
Interactions: called by the monitor context, calls `OnSwapChainLost` of the
device context from its own thread, driven by the OS, which presents frames and
may take the path away at any moment.
Hard: an auto-reset event beside a frame event of higher priority in the wait;
a join while the worker calls back into the object's owner; failures of event
or thread creation that nobody looks at.
Correct when: the object outlives its worker, the chain is deleted exactly
once, the terminate signal is never lost, the destructor returns, and frames
that are offered are acquired.

### Monitor context (`CIndirectMonitorContext`)

State: `m_swapChain`, the processor of the chain assigned now.  Operations:
`AssignSwapChain` (drop the old processor, make a D3D device, make a new
processor, or delete the chain when the device cannot be made),
`UnassignSwapChain`.  Called only from the DDI callbacks.
Hard: the OS may replace a chain without unassigning it.
Correct when: there is never more than one worker per monitor and every worker
can still be stopped.

### Device context (`CIndirectDeviceContext`)

State: the adapter and `m_monitor`, the flags `m_replugMonitor`,
`m_replugMonitorQueued`, `m_recoverModeUpdateSwapChain`, `m_doSetMode` with
`m_setMode`, the mode list `m_displayModes` and the EDID.  Operations:
`InitAdapter`, `FinishInit` (create a monitor and announce it),
`ReplugMonitor`, `SetResolution`, `OnAssignSwapChain`,
`OnUnassignedSwapChain`, `OnSwapChainLost`, `UpdateMonitorModes`, and the mode
callbacks.
Interactions: three kinds of threads run through these fields, of which only
two flags are interlocked: IddCx's callback thread, the caller of
`SetResolution`, and the workers.
Hard: a flag set before the call it announces; `m_monitor` read again after
another thread replaced it; a replug that is completed by a callback that may
never come; a count asked for in one callback and used in the next.
Correct when: there is one monitor and `m_monitor` names it, a requested mode
ends up offered and announced, a queued replug finds a monitor it can replug,
a callback always returns, a query for modes is answered from one list.

### DDI callbacks (`Device.cpp`), driver entry (`Driver.cpp`, `CPlatformInfo`)

State: the global `l_wdfDevice` of the process; for every device node the WDF
device with its context wrapper, the adapter and the monitor with theirs, which
version of the callbacks was registered, and `m_canProcessFP16`.  Operations:
`DriverEntry` (the log, platform information, the WDF driver), `LGIddCreateDevice`,
`D0Entry`, the cleanup callbacks, and the IddCx callbacks, which look up a
wrapper and forward.
Hard: `ParseMonitorDescription` gets no object and goes through the global,
which is published before what it points to exists, is overwritten by the next
node and is cleared by whichever node goes first; `D0Entry` runs again after
every power cycle; the adapter's wrapper is filled at the end of `InitAdapter`,
which its own callback may overtake; two places find out for themselves whether
the 1.10 functions may be used.  The order of the two calls in the assign and
unassign callbacks is what several properties of the device context rest on.
Correct when: no callback and no worker goes through a pointer to something that
is gone or not there yet, a monitor is described by its own device, and the
device context uses HDR only if the callbacks that belong to it were registered.

### D3D11 device (`CD3D11Device`)

A constructor that finds the adapter and creates a device, once per assigned
chain.  Only its success matters to the rest.

### Settings and mode list (`CSettings`, `DefaultDisplayModes.h`)

State: the registry values `ExtraMode`, `Modes`, `DefaultRefresh`, the list
made from them and the device context's copy of it.  Operations: `LoadModes`,
`SetExtraMode`, `GetDefaultRefresh`, the parser, `PopulateDefaultModes`,
`UpdateMonitorModes` and the mode callbacks.
Hard: values anybody may edit, a write that fails, a driver stopped between
writing and reloading, a device that enters D0 and reloads meanwhile, a callback
that meets the list half copied.
Correct when: the mode asked for last leads the list and is its only preferred
mode, in this life of the driver and the next.

### EDID builder (`CEdid`)

A function from a mode list to 128 bytes: sort, make up to three detailed
timings, name, checksum.
Hard: quantities of 10 and 12 bits spread over shared bytes, a 16-bit clock,
modes that have no timing in the middle of the list.
Correct when: what is packed can be read back as what was meant, the slots are
filled from the first with the best modes, and the block adds up.

### Log (`CDebug`)

State: the stream and the files `name.txt`, `name.1.txt` ... `name.4.txt`.
Operations: rotation at start, formatted output.  Hard: moves whose failure
nobody notices because a file is open elsewhere, a start that is cut short
between two of them.  Correct when: only the oldest log is lost and the numbers
keep their order.

### Resolution daemon (`um/qb-resd.c`, `um/qb_escape.h`)

State: the log it follows and how far, the pending request and its age, the
size it set last.  One loop: look for the newest log, read what is new, and
when a request has been quiet for 400 ms set that size through an escape, a
wait for the new mode, and `ChangeDisplaySettings`.
Interactions: reads what the Qubes gui-agent writes while the agent itself sets
the closest grid mode; the driver answers the escape with a hotplug some time
later.
Hard: requests delivered again after a restart or in a new log, a cache of the
screen's size that the agent does not know of, calls that fail after the
request was forgotten.
Correct when: the screen never goes back to an older request, and ends at the
last one.

### Resolution tool (`um/set-res.c`)

One escape, a wait for the mode, one `ChangeDisplaySettings`; no state of its own,
but it moves the screen and the driver's preferred size beside the daemon, which
does not notice.

### Sample driver (`driver-mssample/`)

Microsoft's sample, from which the driver descends.  Its processor's loop looks at
the terminate event only when no buffer is ready, and releases the surface it
acquires: the two things to compare with the driver's own.

### Stubs, scripts, toolchain

`compat/` stubs the pipe and the shared memory of the upstream driver: their
calls do nothing.  The scripts copy, build, sign and install.  The toolchain
files and the `.inf` are data; one entry of the `.inf`, `DeviceGroupId`, puts
every node of the driver into one process.

## 2. Modules and how they correspond to the code

| module | models | used by |
|---|---|---|
| `SwapChainProcessor` | `CSwapChainProcessor`, its worker, the OS side of a chain | `IndirectDisplay` (instance `P`), `SampleProcessor` |
| `SampleProcessor` | the processor of the sample driver | `MCProcessors` |
| `ChainCustody` | what the driver promises about swap chains (abstract) | `IndirectDisplay` (refinement `Custody`) |
| `IndirectDisplay` | device context, monitor contexts and DDI callbacks around the processors | |
| `LogRotation` | `CDebug::Init` | `DriverHost` |
| `DriverHost` | `DriverEntry`, device nodes from creation to cleanup, which callback finds which object | |
| `ModeList` | settings, mode list and mode callbacks | |
| `Edid` | `CEdid::Build` | |
| `QbResd` | `um/qb-resd.c` and `um/set-res.c` | |
| `*_proofs` | theorems, one module for each of the above except `ChainCustody`; that of `SampleProcessor` is `MCProcessors_proofs` | |
| `MC*` | values for TLC; `MCProcessors` runs either driver's processor under the same owner and OS | |

`IndirectDisplay` and `DriverHost` look at the same code from two sides.
`DriverHost` has every device node and every object's life, and takes a callback's
inside as one step; `IndirectDisplay` has one device that exists, and every
statement of its callbacks.

Operators named `X_Something` in front of an `X` are wrong variants of `X`,
each a plausible mistake; the project's index says which property notices which.

**SwapChainProcessor.**  Every variable is a function of the chain, so that a
composition holds several processors.  `object` is the C++ object
(none, alive, dying, freed), `worker` the thread's place: `start` (65-99),
`check` (101-104), `acquire` (106-113), `wait` (127), `finish` (140-157),
`lost` (the call into the device context, 158-163), `delete` (51-63),
`exited`.  `Build`, `BeginDestroy` and `EndDestroy` are the constructor and
the two halves of the destructor, and `Discard` what the monitor context does
instead when it has no D3D device (41-46 of its file): effects, which the code can
have at any time it is called.  `Construct`, `SignalTerminate`, `Join` and `Refuse`
are the same in turn, each for an object in the right state: what the processor
expects of whoever owns it.  `Setup`, `CheckTerminate`, `AcquireBuffer`,
`Wait`, `FinishFrame`, `ReportLost`, `DeleteChain` the worker; `Present`,
`LosePath`, `Recycle` the OS.  Frame numbers wrap after `MaxFrame`; the count
of references an acquired surface leaves behind stops at `MaxUnreleased`.

**SampleProcessor.**  Object, owner and OS of `SwapChainProcessor` with another
worker: no look at the terminate event at the head of the loop, a wait that times
out, every failure ends the loop, and `SampleFinish` releases the surface.

**IndirectDisplay.**  One instance of the processor module.  The callbacks use only
the effects of a processor and never look at its state, as the code does not:
they go by `m_swapChain` and by where they are.  That this amounts to using every
processor in turn is a property, `RunsProcessors`, which a callback that joined
twice, or built over a chain it had deleted, would break.
`pc["os"]` is the place of the callback thread,
`pc["ctl"]` that of the caller of `SetResolution`; each action is the code
between two points at which another thread can be observed, so that the flags
are read and written in the order of the source.  An assign callback is
`AssignBegin`, `StopProcessor`, `JoinProcessor`, `BuildProcessor`,
`NotifyAssign`, `SendPendingMode`; an unassign callback `UnassignBegin`,
`StopProcessor`, `JoinProcessor`, `NotifyUnassign` and, for a replug, `FinishInit`
(`MonitorCreate`, `MonitorArrival`).  `SetResolution` is `SetResolution`,
`SetPopulate`, `UpdateMonitorModes`, then `ClearPendingMode` and `ArmRecovery`
or `FallBack`, `ReplugMonitor` and `MonitorDeparture`.  Of a mode list only the
extra mode is kept here; `ModeList` has the rest.  A monitor offers the list as
it is when it arrives, when IddCx asks the mode callbacks, and what
`UpdateMonitorModes` hands over later.  `OnSwapChainLost` is one step
of a worker although it uses two interlocked operations: nothing between them
is visible to the others.  The history variable `lapse` records whether the
environment has done what the driver counts on: `refused` when a request came
to nothing and left the monitor as it was (a registry write or a departure
failed), `astray` when the driver has no way back (a monitor could not be
created or did not arrive, the OS unassigned the chain of a plugged monitor,
`SetResolution` was called without a monitor that has a chain).  Properties that
hold only in a well-behaved environment say so in terms of it, so that a run can
let things fail.  What may fail or go astray in a run is listed by kind in `Faults`;
among the kinds are `early`, a call of `SetResolution` that finds nothing to
replug, and `unassign`, an unassign of a plugged monitor's chain.

**ChainCustody.**  Three states of a chain (with the OS, with the driver,
released) and which chain each monitor serves.  Under the mapping `Custody` a
chain is `released` from the first `WdfObjectDelete` on and served while its
worker runs.  The driver's signal, join and callbacks are stutters of it.

**LogRotation.**  A log is the number of the start that wrote it.  `DeleteOldest`,
one `MoveLog` per turn of the loop and `OpenLog` are the calls of `Init`, each
of which fails unnoticed when the file is open elsewhere (`stuck`); `EndHost` may
come between any two.

**DriverHost.**  Extends `LogRotation`, whose steps begin every life of the
process.  Per node: `CreateDevice` (up to the global), `InitializeDevice` (the
context), `InitAdapter` and `BindAdapter` (`D0Entry`, cut where the adapter's
callback may come in), `PowerDown`, `CleanupDevice` and `ForgetDevice` (the two
statements of the cleanup); `AdapterInitFinished`, `CreateMonitor`,
`AnnounceMonitor`; and the other callbacks by what they go through:
`ParseMonitorDescription` through the global, `MonitorCallback` and
`UnassignSwapChain` through the monitor's wrapper, `ReportLost` through the
worker's pointer.  Going through nothing ends the process and is kept in `fault`.

**ModeList.**  The registry values hold lines: modes, or one value for every
text the parser refuses (`Accepted` is its verdict).  Making a list is a
sequence of steps: `LoadExtraMode`, `LoadModesValue`, a `ParseLine` per line,
then `ClearModes`, a `CopyMode` per mode, and the EDID (`PopulateDefaultModes`).
`stage` says how far it is.  It is begun by `Start`, which is any `D0Entry` of the
device and not only the first, and by `SetResolution` with `SetExtraMode`, which
goes on to `UpdateMonitorModes`; `ctl` is the place of that call.  A value that is
there may fail to be read the second time (251-254), which gives the built-in list.
A query of IddCx is `QueryCount` and `QueryFill`, each of which may come between any
two of these, so that it finds the list old, empty, half full or new; for
`MonitorQueryTargetModes2` an empty list ends the query, as the missing buffer of
the first call is then an error (413).  `Edit` is an administrator, `Restart` ends
the driver anywhere and keeps the registry.

**Edid.**  The helpers of `CEdid.cpp` with every mask as a remainder, then one
step to sort, one per turn of the loop, one to seal the block.  `Rounded` is the
64-bit quotient of lines 253-255 taken apart for TLC's 32-bit numbers;
`ClockIsRounded` proves them equal.  `Decoded` is not code: it is what a reader
of the EDID standard makes of a descriptor, written to check the packing.

**QbResd.**  The daemon's loop is `Scan` (83-106), then `Sleep` or `SetExact`
(107-108), the latter followed by `Escape`, `Poll`, `Change`.  Requests are
numbered; a log is a sequence of those numbers and `pend` holds one, so that a
property can tell an old request from a new one of the same size.  Time is
counted in passes of the loop.  `SetRes` and `SetResChange` are the tool, which
may be run between any two steps of the daemon.  The daemon takes the log with the
latest write time; as the agent writes only the log of its own session, that is the
log created last.  When the search fails it stays with the log it has, and when that
cannot be opened it reads nothing.

## 3. Assumptions about the environment

IddCx, WDF, PnP, the gui-agent and the kernel driver the daemon speaks to are not
in the repository.  They are modelled by what the code relies on:

- IddCx delivers one callback at a time to a device.  It assigns chains to arrived
  monitors, may replace a chain without unassigning it, unassigns only what is
  assigned, and unassigns the chain of a departed monitor some time after the
  departure.  A handle that was deleted may come back for another chain.
- Before a device leaves D0 and before its cleanup IddCx has unassigned the chain
  and returned from its callbacks.  The cleanup of the device context rests on
  that alone: nothing in the driver waits for a worker there.
- `AdapterInitFinished` may come before `InitAdapter` has come to its last line;
  an `IddCxAdapterInitAsync` for a device that has an adapter is refused.
- All nodes of the driver share one process (`DeviceGroupId` in `QubesIdd.inf`).
  PnP makes one call at a time for a node; the calls for two nodes interleave.
- Any log file may be open elsewhere, without leave to move or delete it, but for
  no more than one call: the next may find it free.
- The frame event is auto-reset and is set when a buffer is available; a lost
  path shows as a failing acquire or finish.
- Nobody calls `SetResolution` at this commit: the pipe that did is stubbed.
  `MaxSetCalls = 0` is the shipped driver; the runs give it a caller, since the
  function is public and the machinery behind it is compiled in.  The code does not
  say when it may be called: `display_wild` calls it at any moment, `display` when
  there is a monitor with a chain, on which the delivery of the mode depends.
- `IndirectDisplay` takes `InitAdapter` as one step that runs once; `DriverHost`
  has it in two, and again after every power cycle.
- In `ModeList` a mode callback is one step while a reload is one step per mode.
  Inside a callback's own loop the race is undefined behaviour below the model (an
  iterator into a list that is being refilled); the hazards list names it.
  Nor do two reloads run at once there, which would be such a race on both vectors.
  `ExtraMode` is written by the driver only, and reading it does not fail.
- The write times of the agent's logs are in the order in which they were created: an
  agent that has been replaced writes no more.
- The gui-agent writes a line and snaps the screen to a grid mode (or leaves
  it) in one step, and writes whole lines.  After the escape the kernel driver
  enumerates the preferred size and the grid up to it.

## 4. Runs, bounds and fairness

| run | configuration | question |
|---|---|---|
| `processor` | `MCProcessors` | the driver's processor and the sample's against owner and OS, all failures |
| `surface` | `MCSwapChainSurface` | is an acquired surface ever released by the driver? (no) |
| `display_wild` | `MCDisplayWild` | two chains, an OS that replaces and unassigns at will, a caller at any moment, every call of the device and monitor contexts failing: custody of chains, and is each processor used in turn? |
| `display` | `MCDisplay` | two changes between two resolutions, failing updates, departures and D3D devices, an unassign at any moment: one monitor, never two, never none; every callback returns; a queued replug can be run; the mode requested last arrives, and has arrived whenever all is quiet |
| `display_lost` | `MCDisplayLost` | does a lost chain lead to a replug? (no) |
| `display_race` | `MCDisplayRace` | can an unassign make a second monitor? (yes) |
| `host` | `MCDriverHost` | two nodes through creation, power cycles, removal and restarts, and the logs of the starts: are all pointers good? |
| `host_pool` | `MCDriverPool` | is a monitor described by its own device? (not with two nodes) |
| `modes` | `MCModeList` | lists replaced step by step by a request or a D0 entry, queried, edited and restarted in every order, writes and reads that fail |
| `edid` | `MCEdid` | every list of up to four modes |
| `resd` | `MCQbResd` | the daemon and the tool with restarts, logs, late hotplugs and failures: never backwards, and the last request reaches the screen |
| `resd_repeat` | `MCQbResdRepeat` | and when a size is asked for twice? (not always) |

Bounds.  *Chains*: two are enough for a replacement, in which both the old and
the new worker exist (`display_wild`), and handles are reused, so that two are not
the end; where monitors and modes are the question (`display`) there is one, reused
by every assignment.  *Frames*: numbers wrap after 1 or 2, which is what makes
equal numbers of different frames possible; `MaxFrame = 0` where frames do not
matter.  *Monitors* exceed the calls of `SetResolution` by one, as many as can be
created; `display` has two calls and two modes so that a second one meets what the
first left behind and the two can be told apart.  *Failures*: every kind in
`display_wild`; in `display` those that leave the driver a way on, as the
properties about delivery exclude the others.  The event and the thread of a
processor are always there in these two runs (`CreateFails = FALSE`): their failures
are the business of `processor`.  *Host*: two nodes, since sharing needs two;
four logs (`Last = 3`) and five starts, one more than it takes to fill them, so
that a rotation meets full, gapped and stuck slots; the nodes and, in
`display_wild`, the chains are interchangeable (symmetry, in runs of safety
properties and step properties only).  *Mode lists* have up to four modes, one
more than the block has slots, from a pool with each limit on either side.
*Registry*: values that are absent, malformed, or starred twice, lists that grow
and shrink, and three events: any three of requests, restarts, edits and later D0
entries, in any order.  *Daemon*: three requests among three sizes, between and beside a grid of
two or three (`resd_repeat` alone asks for a size twice); a debounce of one pass
and two polls stand for 400 ms and 25, as nothing depends on how many there are;
two events among restarts, truncations, new logs and runs of the tool.

What one bound does not settle is proved for every value (section 6): the
invariants below hold for any number of chains, monitors, calls, nodes, logs,
starts, modes and requests.

Deadlock is checked for the mode list and the daemon, which never stop.  It is
not checked where the modelled system ends (the EDID is built, a processor is
gone, the last start is over, the OS has nothing more to do).

Fairness.  A thread inside the driver keeps running: weak fairness of each
worker, of the callback thread inside a callback, and of the caller inside
`SetResolution`, as the scheduler gives them.  IddCx finishes the adapter, gives
an arrived monitor a chain, unassigns that of a departed one, and reuses the
handles of deleted chains, without which the bounded model would run out of them.
None is assumed for the OS's own moves (presenting, losing the path, replacing or
unassigning a chain), nor for calling `SetResolution`.  `processor` uses the same
fairness for either driver's worker and for the join.  For the daemon: its loop
runs, and a hotplug that was started completes; nothing is assumed for the tool.

What the liveness results say.  The driver's destructor returns although the worker
may be anywhere, because the terminate event is looked at in every turn; the
sample's returns only if frames stop coming (`QubesDestructorReturns`,
`MSDestructorReturns`).  So does every callback (`CallbackReturns`), in each case
unless the terminate event could not be created.  An offered frame is acquired
(`FrameServed`).  The requested mode is offered and announced (`ModeDelivered`)
as long as `lapse` stays `none`.  The last size requested reaches the screen
(`ExactApplied`), when sizes are distinct, unless a call fails, a log is left or
cut short before its last line was read, or the tool is run; a restart of the
daemon does not excuse it.

## 5. Where the code and its documentation disagree

Five runs end in a counterexample on purpose; `PROJECT.json` quotes the lines.

- `surface`: a `ComPtr` adds a reference to a surface that already came with
  one, and releases only its own.
- `display_lost`: the queued replug is read by nobody; the timer that the
  comment speaks of is empty.
- `display_race`: `m_replugMonitor` is set before the departure it announces;
  an unassign in between creates a second monitor.
- `host_pool`: `ParseMonitorDescription` asks the device created last, also for a
  monitor of another node in the same process.
- `resd_repeat`: the daemon's early return compares with what it set, not with
  what is shown.

## 6. Proofs

All results are about the specification without fairness (`Spec`) and hold for
every value of the constants that satisfies the named assumptions, the bounds
included.

**`SwapChainProcessor_proofs`** (`ProcessorAssumption`): `TypeOK`,
`NoUseAfterFree`, `ChainDeletedOnce` and `SignalNotLost` are invariants.  The
inductive invariant is their conjunction and `NoObjectNoWorker`: an object that
was never built has no worker.  Without it a
chain that its owner refused could be deleted again by a worker.  Each conjunct has a lemma with one step per action, `Invariance` puts
them together, and the theorems are read off it.

**`MCProcessors_proofs`** carries this over to either processor under the same
owner and OS (`BothKeepTheirWord`) and proves of the sample's that it gives back
every surface (`SampleGivesBack`).  `SampleSteps` says that all but four steps of
the sample are steps of the driver's processor, so that only those four need steps
of their own.  The invariant they add is `OneSurface`: the sample's worker holds a
surface only at `finish`, and then one; it is never at the two places of the code,
`check` and `lost`, that only the driver has.

**`IndirectDisplay_proofs`** (`DisplayAssumption`, `ChainsAssumption`), in two
halves.  The first holds whatever IddCx does: `DriverInv` is type correctness with
`CustodyInv`, which relates the monitor contexts, the objects and the place of the
callback thread.  A processor in use is held by the monitor its chain was made
for; one is being destroyed only while the callback thread is about to join it;
until a processor is built its chain is untouched and its monitor holds none; a
monitor context holds only a chain that is assigned to it.  From it come
`WorkerIsHeld` and `CustodyKept`, which is the refinement
`Spec => Custody!Spec`: each step of the driver is a step of `ChainCustody` or a
stutter of it.  The second half, `Steady`, says where the one monitor is as long
as `lapse` is not `astray`: at each place of the two threads, whether a replug is
under way, which monitors are plugged, and that the monitor's chain is still
assigned when its departure is announced.  `NeverTwoMonitors`, `NoMonitorLost` and
`ReplugMeansDeparted` are read off it.  It is much stronger than the three
together: a second monitor is excluded only because a replug and a callback that
completes it cannot both be half done.  `QueuedRuns` (`QueuedReplugCanRun`) joins
the halves: a replug is queued only by a worker that runs, its monitor holds its
chain (`CustodyInv`), only a monitor that has arrived is given one
(`AssignedArrived`), so by `Steady` that monitor is the driver's one monitor
(`RunningOnMonitor`); and afterwards the monitor loses its chain only in the
unassign callback, which joins the worker and then clears the flag
(`NextQueued`).  A replaced chain takes its queued replug with it to
its successor, which the statement allows and the proof covers.

Two more results.  `ProcessorsRun` is the refinement `Spec => P!Spec`.  The actions
of the driver do not use those of the processor's owner: a callback deletes a chain,
builds, sets the event, waits or frees because the monitor context's pointer and
its own place in the code say so, and applies the bare effect (`Discard`, `Build`,
`BeginDestroy`, `EndDestroy`).  That each effect is applied when the owner in
`SwapChainProcessor` may apply it (a chain is built or deleted while untouched, an
object is destroyed once, and its wait comes after its event) is what
`StepRunsProcessors` derives from `CustodyInv`.  So the theorems of
`SwapChainProcessor_proofs` hold of all processors inside the driver
(`ProcessorsKeepTheirWord`).  They come in through a second instance, `Proc`, which
`SameProcessors` and `SameProcessorSteps` identify with the model's own.
`QuietDelivered` is the safety half of mode delivery, `DeliveredWhenQuiet`, from
`ModeInFlight`: at each place of `SetResolution` the mode has been sent or is
pending or will be sent by the call itself, and is offered by the monitor or will
be, by the update or at the arrival of the monitor that takes its place, for which
the list already holds it.  That the
quiet moment comes is what `ModeDelivered` adds, and is left to TLC.

**`LogRotation_proofs`** (`RotationAssumption`: any number of logs and starts):
`InOrder`, `RotationShifts`, `OverwriteMeansStuck` and the action property
`OldestGoesFirst`.  The invariant describes the files in the middle of the loop in
terms of `before`: unless something was stuck, the slots the loop has passed hold
the file of the slot below and the others are as they were; and the slot just
passed is free unless a row of taken slots leads from it up to a stuck one.

**`DriverHost_proofs`** (the same and `DeviceAssumption`: any number of nodes):
`HostRotatesLogs` shows that the host implements `LogRotation` (`Spec => LogSpec`),
so that its theorems carry over; `NoBadPointer`, `HdrHasItsCallbacks` and
`AloneAnsweredByOwn` follow from an invariant over the stages of a node: which
objects exist at which stage, that a worker implies a device context, and that as
long as a node is alone the global names it or nothing between its creation and
its cleanup.

**`ModeList_proofs`** (`ModeListAssumption`: any lists, any default modes):
`TypeOK`, `RequestSurvives`, `AnnouncedIsOffered` and `AnsweredInFull`.  The
invariant follows a list through its making: as soon as the settings have the
extra mode, it leads them if the parser takes it and is then their only preferred
mode, which the loop knows by `starred`; the driver's copy is a prefix of the
settings while it is made and is led by the extra mode when it is complete; and
what was stored last is still what the registry has.  It leaves out the reload of a
later `D0Entry` that `SetResolution` waits for (`ctl = "reload"`): that one may have
read the registry before the call stored its mode, and the call's own reload, which
follows, makes the list anew.  That the preferred index
IddCx is told is the last starred mode's needs a greatest number of a set, which
comes from a least number argument (`LeastNatural`, `GreatestIndex`).

**`Edid_proofs`** (`PoolAssumption`, `MaxModesAssumption`: every pool of modes and
lists of any length): `TypeOK`, `NoGaps`, `DecodesToMode`, `BestModes` and
`ChecksumRight`.
The argument has an arithmetical half and an inductive half.  `HorizontalBounds`
and `VerticalBounds` bound every quantity of a mode that has a timing.
`FallbackNeverTaken` says that the condition of lines 242-246 is false for every
width that reaches it (`WideBounds` bounds both its sides), so that the
fallback is dead code there.  `NibblesUndone` and `SyncUndone` say that the packing helpers are undone
by the division and remainder of a reader, given those bounds, and
`TimingDecodes` and `TimingSound` put them together for the 18 bytes.
The inductive invariant is the first three together with `UnusedAtStart`: exactly
the slots below `baseDtdIndex` are filled, each with the timing of a mode the loop
has passed, and before the loop nothing is.  The pixel clock of such a mode is not
zero, so its slot is not blank, which is what `NoGaps` needs of `TryTiming`.
`BestModes` has an invariant of its own, `ShownInv`: the order is a sorted
permutation of the list (onto, because a permutation of a finite set is:
`PermutationIsOnto`), and the filled slots hold, in that order, the modes with a
timing among those the loop has passed.
`SortDetermined` says what the model's choice of a permutation leaves to be shown:
there always is one (`SomeOrder`: count the modes ahead of each, which gives every
mode a place of its own), and any two leave the same list (`OneOrder`: the first
place in which they differ would need room for one mode too many).
`ChecksumRight` sums 128 bytes with a fold of the community modules, which is a
recursion over the subsets of the domain.  The library's induction theorems cannot
be used (they take an operator as a parameter), so each fact about the sum looks
at the set of subsets for which it fails and derives a contradiction from a minimal
one (`MinimalSet`, from the well-foundedness of strict inclusion): the recursion
has a solution (`SumExists`) and only one (`SumAgree`), the solution unfolds at an
element of one's choice (`SumSplits`), and so the sum of a list with one entry
appended is the sum of the list plus the entry (`SumAppend`).  The block's first
127 entries are bytes by `BytesAre` and `Joined`.

**`QbResd_proofs`** (`QbResdAssumption`: any sizes, requests and events): `TypeOK`
and `NeverBackwards`.  The invariant says that the newest log, if it has a line,
ends with the last request of all, so that reading it from anywhere never finds an
older one; that the log the daemon follows, which is not the newest one after a search that
failed, ends with a request no older than what is pending and what was applied
(`FollowedIsNewer`); and that what waits to be applied is no older than anything
applied.

Every invariant and every step property of the passing runs is thus proved for all
values of the constants.  Only model-checked are the liveness properties
(`QubesDestructorReturns`, `MSDestructorReturns`, `FrameServed`, `CallbackReturns`,
`ModeDelivered`, `ExactApplied`): they rest on fairness, and the prover knows
neither `ENABLED` nor the temporal rules for it.

## 7. What is not modelled

- Formatting and writing of log lines (most of `CDebug.cpp`), HRESULT plumbing,
  and the fields of `FillSignalInfo`.
- The D3D device beyond its success, the render adapter, the callbacks that
  answer constants (gamma ramp, HDR metadata) beyond the objects they go through.
- Data races below a statement: the mode list's vector and the log's stream are
  used by several threads without a lock, which is undefined behaviour in C++.
- Of the sample driver everything but its processor: its contexts are those the
  driver's were made from, and nothing in the repository builds on them.
- `ReadBoolValue`, `WriteDetailedTiming` and `WriteMonitorName`, which have no
  caller; the registry changing between the two calls of one read (that the second
  call of a read of `Modes` fails is modelled); half-written lines of the agent's log.
- The scripts: straight-line shell and PowerShell run by hand one after another,
  whose only state is the files they copy; the toolchain and package files, which
  have no behaviour.

## 8. Plan

Done, in this order: the processor and its proofs, the composition with the
abstract custody of chains, the EDID, the mode list, the daemon; then the log, the
host process, the sample's processor, the steps of a reload, the tool, and the
proofs of everything but the liveness properties; then the processors' own
specification as a refinement of the whole driver, the sum of the EDID block, and
the one sorted list.

What is left:

1. In `ModeList`, the loop inside a callback element by element, with the choice of
   outcomes a race on the vector can produce.
2. A proof that one node of `DriverHost` implements the start-up part of
   `IndirectDisplay`, so that the two views are tied together by more than their
   reading of the same lines.
3. The sample's device and monitor contexts, if the driver should follow the sample
   again.

## 9. Running it

    tlc -config MCDisplayWild.cfg MCIndirectDisplay.tla
    tlapm IndirectDisplay_proofs.tla

`MCDisplay.cfg`, `MCDisplayWild.cfg`, `MCDriverHost.cfg`, `MCModeList.cfg` and
`MCQbResd.cfg` take one to three minutes on two cores, the others well under one.  The proofs take about three
minutes in all from nothing, `IndirectDisplay_proofs` and `DriverHost_proofs` most
of it.
