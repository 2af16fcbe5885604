# A verification of BenchPar in TLA+

BenchPar runs matrix products, prefix sums ("scan") and convolutions on the CPU and
the GPU, repeats them, times them and measures the energy they take. This directory
holds TLA+ models of the parts of it where order, concurrency, failure or index
arithmetic decide what happens, the TLC configurations that check them, and TLAPS
proofs of most of what is checked, for every value of the constants. Paths below are
relative to the repository; `app/...` and `power/...` are under `src/`.

Contents: 1 the system, 2 the modules, 3 the runs, 4 bounds, 5 fairness, 6 what the
code does not do, 7 the proofs, 8 what is not modelled, 9 the plan, 10 how to run it.

## 1. The system

| Component | State it keeps | Operations | Interacts with |
|---|---|---|---|
| command line (`main.cpp`) | the options | parsing | calls `setModes`, then `run` |
| benchmark run (`app/app.cpp`, `*app.cpp`) | modes, repeat count, log, input and results of a file | `setModes`, `run`, `processDir`, `processList`, `process`, `calculate`, `create` | functions of an algorithm, a meter, the log |
| algorithms (`app/scan`, `app/matrix`, `app/conv`) | input and result arrays | one function per mode, `compare`, loading and saving | OpenMP team, GPU |
| meter interface (`power/power.h`) | the mode | `read_before`, `read_after` | called around the repeat loop of `calculate` |
| spc meter (`power_smart_calc.cpp`) | HID handle, mutex, condition variable, monitor thread, last power, energy | `read_before`, `read_after`, monitor | HID, the measuring device |
| spr meter (`power_smart_real.cpp`) | HID handle | same protocol without a monitor | HID |
| ina meter (`power_ina.cpp`) | four sensor files, mutex, condition variable, monitor | `read_before`, `read_after`, monitor | kernel driver |
| msr, perf meters | file descriptors, counters | open, read before, read after | kernel |
| HID library (`hidapi.h`; `hid_libusb.cpp`, `hid_linux.cpp`, `hid_apple.cpp`) | handle, report queue, read thread | enumerate, open, read, write, close | libusb, hidraw, IOKit |
| GPU (`gpu.cpp`) and function table (`function.cpp`) | OpenCL handles, kernels | open, query, load, use, release | OpenCL, every object of an algorithm |
| CPU (`cpu.cpp`), timer (`timer.cpp`) | types of the cores; a time | detection; reading the clock | `/proc/cpuinfo` |

What is hard in it:

* **Two threads around one condition variable** (spc and ina): the main thread signals
  without a predicate, joins, closes the device and destroys the mutex; the monitor
  talks to the device while it holds the mutex. Correct is: the monitor never touches
  what has been closed or destroyed, what is reported is what was sampled within the
  measurement, and `read_after` returns.
* **A toggling device**: STARTSTOP switches the device on or off depending on what it
  is doing, replies carry no session and are read without waiting. Correct is: the
  device runs while it is measured, and a power belongs to this session.
* **The HID backends**: three implementations of one interface. libusb has a read thread
  whose callbacks resubmit their own transfer, a shutdown flag that no mutex protects, and
  two threads that cancel the same transfer; macOS a run loop in a thread and two home-made
  barriers; hidraw a kernel bug to work around. Between finding a device and opening it
  the bus may change. Correct is: the device that was asked for is opened; reports are
  read in order, each once; the queue is bounded; no wakeup is lost; a read waits as long
  as it was told to; and `hid_close` returns and frees nothing that is still used.
* **Error paths of a run**: modes that a build does not have, functions that fail in
  the middle of a sequence or with a measurement open, results nobody frees, a warm-up
  that is not timed. Correct is: the table of functions is respected, every mode of a
  sequence is run, meters are paired, the statistics divide by what was timed, and a
  sanity check fails only when results differ.
* **Shared OpenCL handles**: created by the GPU, the application and the objects of a run,
  in builds and on machines that have all, some or none of them. Correct is: a handle is
  used only while it exists, and released exactly once.
* **Counters and sensors that go on while they are read** (msr, perf, ina, spr), one
  after the other, opened and closed one by one, each with its own error return. Correct
  is: what is reported lies between what was used within `read_before`..`read_after`
  and what was used around them, and nothing stays open.
* **Parallel algorithms**: a scan in two loops with different divisions of the same
  array, a scan and a product by work-groups that share local memory between barriers, a
  product whose threads add to a shared result, a convolution in two passes over a
  buffer nobody zeroes, vectors and tiles that pass the edge of the input. Correct is:
  no data race, no value read before it is written, and the sum, product or convolution
  the plain definition gives.

`PROJECT.json` lists every hazard at its line, with the properties that cover it.

## 2. The modules

### PowerMeter: the abstract meter
What `power.h` promises: `Begin`, `Sample`s, `End` with exactly the samples counted
since `Begin`; a measurement that could not be opened ends with 0. `SmartCalc`
implements it, `Bench` uses it.

### SmartCalc: the spc meter
One action per HID call, mutex operation or wait, that is, per point at which the other
thread or the device can be noticed.

| Module | Code |
|---|---|
| `main` | where the main thread is: `read_before` (`open` .. `init`), the benchmark (`work`), `read_after` (`lock` .. `close`) |
| `handle`, `sync`, `lock` | `device`, the life of `mMutex`/`mCond`, the owner of `mMutex` |
| `mon`, `initial` | where `runMonitor` is, and its local |
| `curWatt`, `consumed`, `returned` | the members and the value `read_after` returned |
| `toDev`, `fromDev`, `running` | the device: requests not handled, replies not read, whether it measures (external) |
| `HidOpen`, `StatusRequest`, `StatusPoll`, `ToggleStart`, `CreateMonitor`, `FailBefore` | `read_before`, `readStatus`, `toggleStart` with each of their error returns |
| `LockToSignal`, `Signal`, `Unlock`, `Join`, `StopDevice`, `FinishAfter` | `read_after`, in its order |
| `MonWait`, `MonExpire`, `MonSpurious`, `MonWaitError`, `MonStop`, `MonSample`, `MonRead`, `MonWrite`, `MonLostHandle` | `runMonitor` and `getSensorDatas` |
| `FinishWork`, `AbandonWork` | the caller: the repeat loops of the three `calculate` functions, and their return when a function fails |

A power is known by the request it answers, `<<session, number>>`, so a stale one can be
told from a fresh one; `Unread` is the member before anything was assigned to it.
`undefined` is the state after a NULL or closed handle is used or a mutex in use is
initialised again: nothing follows it. A `pthread_cond_timedwait` that times out first
leaves the wait (`MonExpire`) and takes the mutex in a later step (`MonSample`), so a
signal in between is lost, as POSIX has it.

`Faults` says what the environment may do: fail an open, a transfer, a pthread
creation or a wait, wake spuriously, answer late, or (the caller) fail the benchmark.

### Cpu, Gpu, Bench, composed by Program
`Program` is `main`: the CPU is detected, the GPU opened, the options read one by one, the
application created, which loads its kernels, and run, and everything is deleted.
`stage` is where `main` is.

* `Bench`: a run. `conf` is what `setModes` stores together with the kind of machine; `calc`
  the locals of `calculate`; `live`, `results`, `leaked` the input A, the results C and D,
  and what nobody refers to any more. `Begin`/`Execute`/`Fail`/`Measured`/`Report` are
  `calculate`; `CheckNext`, `KeepSingle`, `Compare`, `NextMode`, `Free` are what the three
  `process` functions do with its result; `Start`, `Skip`, `Load`, `LoadFails`, `EndRun` are
  `printStart`, `processDir` and `processList`. A result is known by how many products it
  holds and by whether a scan is inclusive: that is all `compare` can tell apart when every
  function is right, and `Scan` and `Algorithms` say for which sizes it is. A function of
  the GPU whose kernel was not loaded computes nothing and returns true. `Atoi` wraps.
* `Gpu`: `handle` is the life of the object and of each OpenCL handle it holds; `misused`
  the handles used without being live. `PlatformMissing` are the five ways out of
  `platformInit`, with what each has released.
* `Program` says which handles each step of `Bench` uses: the constructor of every input and
  result takes kernels from the program and a buffer from the context, in a build for ARM
  also the queue; a function of the GPU looks at `enabled` only. A misused handle is
  undefined behaviour: the program may stop anywhere after it, or go on.
* `Cpu`: `lines` are what is left of `/proc/cpuinfo`; `cores` the array, "unset" where
  nothing was stored; `ReadLine` one turn of the loop.

### HidDevice: the abstract device
What `hidapi.h` promises: reports arrive and are queued, up to a capacity; a read takes the
oldest one, returns nothing when its deadline allows that, or an error when the device is
broken; a write is done or refused; a close forgets what is queued. The three backends
implement it.

### HidOpen, HidLibusb, HidApple, HidLinux, composed by Hid
A caller opens a device with one of the backends (`HidOpen`), and what was opened is read,
written and closed in the way of that backend.

* `HidOpen`: `bus` is what is plugged in where, and may change at any moment (`Replug`);
  `EnumerateAndChoose` is `hid_enumerate` with the choice of `hid_open`, `OpenPathAtOnce` the
  `hid_open_path` of macOS and hidraw, `FindPath` .. `AllVisited` that of libusb, with its
  loop over the altsettings of an interface.
* `HidLibusb`: `reader` is `read_thread` (with `read_callback`, which libusb runs inside
  `libusb_handle_events`), `user` the caller inside `hid_open_path`, `hid_read_timeout`,
  `hid_close`. `transfer` is what libusb knows of the one transfer. Report number n is n.
  `shutdown` is written and read without the mutex, as in the code.
* `HidApple`: `reader` is `read_thread` with its run loop; `ReportCallback`,
  `RemovalCallback` and `SignalCallback` are its callbacks. `barrier` holds the count and the
  waiting thread of the two barriers, `early` that a wait in one has ended by itself,
  `undefined` that `hid_close` used a run loop that was not there.
* `HidLinux`: `Poll` and `ReadSyscall` are `hid_read_timeout`; `NumberedFrom` walks a report
  descriptor, item by item, as `uses_numbered_reports` does; `Chop` is the work-around and
  `ExtraByte` what the kernel really does.

Assumed of what is external: Core Foundation runs callbacks on the thread in whose run
loop the device is scheduled; a transfer that libusb is cancelling cannot be cancelled
again; the kernel keeps a bounded number of reports and drops what comes then; a device
that is plugged in gets a USB address nobody had before, but perhaps the node or the
`IOHIDDevice` of one that has gone. When the session begins, `Hid` forgets what was needed
to find the device, as `Program` forgets the CPU: nothing looks at it again, and each part
is checked in all its states without multiplying them.

### Ina, SmartReal, Msr, Perf, composed by Meters
One module per meter, with its `read_before`, `read_after` and, for ina, the monitor;
`Meters` is `Power::newInstance`, the base class, and the caller. The variables `pc`,
`reported`, `initialized`, `i` and `consumed` are shared: a run has one meter.

* `Ina`: what a thread does with the mutex held is one step, since the other one can only
  leave its wait meanwhile. Its energy counts samples. A `read_before` while a monitor is
  alive is `undefined`.
* `SmartReal`: every HID call with its failures, and the device's request protocol.
* `Msr`, `Perf`: the counter of each core is opened and read in a step of its own, and
  `Consume` may let any core use energy in between. `Wrap` is the width of the MSR
  counter. A descriptor that failed to open, and what a read then leaves behind, are
  modelled with what the code does about them: mostly nothing.

`used` is what the cores really used; `spent` is a history variable, kept in runs without
faults only: `used` at the calls and returns of the two functions.

### ScanSeq, ScanOmp, ScanGpu, composed by Scan; MatrixFuncs, ConvFuncs; all by Algorithms
One call of a function of the scan table. A sum is known by its bounds (`Sums`), so a
wrong offset, a missing or a doubled element and memory nobody has written show as
`Wrong`.

* `ScanSeq`: the plain scan, and the SSE and AVX scans with their registers as functions
  on lanes.
* `ScanOmp`: each thread of the team steps through the region by itself: the two
  `single`s, the `nowait` loop, the barrier, the second loop in blocks of four. The second
  `single` makes running totals of the totals one by one (`RunPrefix`), in the thread that
  entered it, while the others may still be on their way to its barrier.
* `ScanGpu`: the three kernels, group by group; the items of a group take their steps in
  any order between two barriers. `Team` is how OpenMP divides a loop.

`MatrixFuncs` and `ConvFuncs` are one call of a function of the matrix or the convolution
table. An element of a product is
the set of products it is the sum of; an element of a convolution is `right` if every tap
was applied to the element it belongs to. Both keep elements at their places in memory,
since it is the index arithmetic that vectors, tiles and sizes that do not fit break. The
length of the filter is an input like the sides, since `-f` names a file with any number of
taps: the functions of the CPU run over `filter_length` of them, and the kernels have five
written out (`KernelTaps`) whatever the length is. A turn of a thread that adds to the product is a read and a write. Kernels without barriers
are one step, `matrixMulDiscrete` is modelled item by item.

### MC modules, proofs, and faulty variants
`MC*.tla` give the constants their values. The modules `*_proofs` hold the proofs of
section 7; `Bench_proofs`, `ScanOmp_proofs` and `Scan_proofs` have the lemmas about one
component that `Program_proofs`, `Scan_proofs` and `Algorithms_proofs` lift to the
composition. Some definitions have a sibling with a telling name just before them
(`JoinWithoutWaiting`, `MonFailKeepsLock`, `BroadcastUnlocked`, `UnLoadAlways`, ...): no
specification uses them. Each is a plausible mistake in the code, and putting it in the place of its
sibling breaks a property; `PROJECT.json` pairs them under "mutants". They show that
each property is sensitive to the code it is about.

## 3. The runs

| Run | Shows |
|---|---|
| `smartcalc` | three paired measurements with failing HID, pthread and wait calls and spurious wakeups: the monitor is confined to its measurement (`MonitorConfined`, `NoUndefined`); the device runs while it is measured although the write that stops it may fail (`MeasuresRunningDevice`); from the second sample on, each is the answer to the request before, in this session (`SampleFresh`); the meter refines `PowerMeter` (`ImplementsMeter`); a signal that is heard lets `read_after` return (`HeardSignalReturns`) |
| `smartcalc_faults` | all faults, an abandoned measurement included: `read_after` leaves no monitor without mutex and condition variable, and no error path keeps the mutex. A `read_before` beside a monitor left over is `undefined` and ends the run |
| `smartcalc_lost_signal` | violated: finding 1 |
| `smartcalc_first_sample` | violated: finding 2 |
| `bench` | the whole program: every algorithm, build, kind of CPU and of GPU, every order of options, modes within and beyond the tables. The cores are known (`CoresKnown`); the function table is respected (`ModeInTable`); a sequence is complete although modes fail; the average divides by what was timed; the meter is paired unless a function fails; a sanity check fails for three known reasons only; OpenCL handles are used while they live (`HandlesValid`), and a program that deletes what it made leaves no handle, no result anybody asked to check, no open log and no running meter (`ReleasedAtExit`). Each property names its exceptions |
| `bench_sanity` | violated: finding 3 |
| `gpu_missing` | violated: finding 6 |
| `hid` | the three backends, from the enumeration to the close, with plugging in and out, failing submissions, event handling and ioctls, and barriers that end by themselves: what is opened is what was asked for (`OpensRequested`), the opened device implements `HidDevice` (`ImplementsDevice`), no sleeping caller has missed what it sleeps for (`NoLostWakeup`), a read returns when its deadline or the end of the device says so (`ReadReturns`), `hid_close` returns (`CloseReturns`) and uses the run loop of macOS only while it exists (`RunLoopValid`) |
| `hid_transfer` | violated: finding 4 |
| `meters` | two measurements with each meter, or with none, in an environment that may fail and in one that does not: the ina monitor lies within its sensors (`InaConfined`) and the meter does what `PowerMeter` promises (`InaImplementsMeter`); descriptors and handles are closed but for the exceptions `NothingLeftOpen` names; without faults msr, perf and spr report what was used in this measurement (`ReportsThisMeasurement`), and a SmartPower is off afterwards (`DeviceStopped`) |
| `scanomp_sizes` | violated: finding 5 |
| `algorithms` | every function of the scan, the matrix and the convolution table. Sequential scans are right for every size; threads have no race and right offsets for every size, and right results when the two loops divide alike; the GPU's items have no race in local memory, and its scan is right for a size that fits the groups, at most `MAX_LARGE_ARRAY_SIZE`. Every product but that of `GPU_VEC8` has each product of every element once, and a convolution with a filter the function is made for (five taps in the kernels, at most eight on the CPU) is right wherever `compare` looks, on sides that fit, in every order of the three threads and of the items of a group. Sides and filters that do not fit are run too, for the types and the control |

`smartcalc_lost_signal` has `CHECK_DEADLOCK FALSE`: the monitor stops at its last tick,
and the main thread, which the code would leave in `pthread_join`, has no step left.
That state is the finding and not an artefact of the bound: with more ticks the monitor
goes on timing out, and there is still no second signal.

## 4. Bounds

| Constant | In the code | In the runs | Why that is enough |
|---|---|---|---|
| `MaxSessions` | unbounded | 3, 2, 1 | a second session shows what the first leaves behind (device state, `curWatt`, `initialized`), a third what an error in the second does |
| `MaxTicks` | unbounded | 3, 2, 1 | the first sample reads nothing, the second reads the first reply, the third is like all later ones |
| `StatusTries` | 10 | 2 | finding another reply, then the status; or giving up |
| `MaxFiles`, `MaxFileCount` | unbounded, 10 | 2, 1 | one file beyond the limit |
| `MaxTimes` | 1000 | 2 | repeats of 1, 2 and 3 lie below, at and above it |
| `ModeRequests`, `SanityRequests` | any number | 0, 4, 9, 31 | the first; the fifth, which exists in some tables and is a GPU function there; one in no table; one an int cannot hold, with `IntLimit` 16 for 2^31 |
| `MAX_CORE_COUNT`, `Computers` | 16, any | 2; up to 3 cores of 3, 2 or 1 models | fewer cores than the array, as many, and one more; cores alike and different |
| `MaxReports`, `Limit` | unbounded, 30 | 4, 1 (one report in `hid_transfer`) | `Limit + 2` reports are queued at most: one more than the queue holds |
| `Places`, `MaxChanges` | any | 2, 1 | two devices to choose from; one comes, or goes, between any two steps |
| `Descriptors`, `Kernels` | any | 5, 3 | items of every length, a Report ID seen, hidden in data and missed; an old kernel, a new one, and one whose version is not parsed |
| `MaxUsed`, `Wrap` | unbounded, 2^32 | 3, 2 | a counter wraps once, and stands still or goes on at every step of the meter |
| `SENSOR_MAX`, `core_count` | 4, machine | 2, 2 | one fails after another has been opened; one goes on while another is read |
| `Coarse`, `Garbage` | `pow(0.5, 0)`, any | 4; 0, 5 | the unit that goes with a failed read, and indeterminate values, that show in what is reported |
| `WORKGROUP_SIZE`, `ARRAY_LENGTH` | 256, 256 * 1024 | 4, 64 | four turns of the loop between barriers become two; 16 elements in a group, 4 groups in the second kernel, and one size with 5 |
| `TILESIZE`, `BLOCK_SIZE`, `LOCAL_X`, `LOCAL_Y` | 32, 16, 32, 8 | 2 | several tiles and blocks in each direction, vectors of 4 and 8 kept |
| `MatrixDims`, `ConvDims` | any | up to 16 by 16, 12 by 18; filters of 1 to 9 taps | for each function sides that fit and some that do not; filters of odd and even length, shorter and longer than the five taps of the kernels, up to the first the edges of `compare` do not cover |
| `nthreads`, `Sizes` | machine | 3; for the threads 0, 2, 7, 8, 12 (`SizesForTest` gives the other functions theirs) | empty; fewer elements than threads; no multiple of 4; a multiple of 4 the loops divide differently; one they divide alike |

The proofs have no bounds: there `MaxSessions`, `MaxTicks`, `MaxReports`, `Limit`, `MaxTimes`,
`MaxFiles`, `Places`, `core_count`, `Wrap`, `nthreads`, `Sizes`, `MatrixDims`, `ConvDims`,
`WORKGROUP_SIZE`, `TILESIZE`, `BLOCK_SIZE`, `LOCAL_X`, `LOCAL_Y`, the tables of modes and the
sets of faults are arbitrary, within the assumptions the modules state by name. Four of these
are not mere types: `MetersAssumption` has `StatusTries` at least 1 (the loops of
`power_smart_real.cpp` try ten times, and with none a fault-free measurement would give up before it
stops the device), `SizesAssumption` has `ARRAY_LENGTH` four times the square of `WORKGROUP_SIZE`, which is
what `scan.h:18` defines; `DimsAssumption` has a filter of at least one tap and, on the CPU, sides of at least
`half_length + 1` (section 6 says what the code does with less); and `ComputersAssumption` has a processor in every computer and none of
the Intel models among ARM's parts.

## 5. Fairness

* `SmartCalc!FairSpec`: weak fairness of each thread's steps, of deadlines, and of the
  device. Strong fairness of `LockToSignal` only: the monitor holds the mutex for two
  non-blocking HID calls and then leaves it free for 250 ms, so a thread that waits for
  it gets it. Nothing is assumed of faults, of spurious wakeups or of new calls.
* `Hid!FairSpec`: weak fairness of each thread inside the library (a caller need not make
  another call), of the end of a transfer that is being cancelled or whose device is gone
  (what libusb's documentation promises), and none of reports, of unplugging or of faults.
  Strong fairness of deadlines, which are absolute, so that a thread woken spuriously again
  and again still meets them, and of the callbacks of a run loop, which runs what is due
  however often it is entered again. Nothing is assumed of the end of its 1000 seconds.
* `Program`, `Meters` and `Algorithms` have safety properties only.

## 6. What the code does not do

Findings, each with a run that shows it:

1. `power_smart_calc.cpp:160`: the signal of `read_after` is lost when the monitor is not
   waiting (it has not got there yet, or has just timed out), and `pthread_join` never
   returns. `HeardSignalReturns` states what does hold.
2. `power_smart_calc.cpp:278`: the first sample of a measurement adds `curWatt` before any
   reply was read: indeterminate, or the last power of the measurement before.
3. `matrixfuncs.cpp:19`: the CPU products add to a result that is zeroed once, so with
   `-r n` the result is n times the product, and a sanity check, whose mode runs once,
   fails.
4. `hid_libusb.cpp:711`: the read thread takes a failing cancel for "nothing pending", but
   `hid_close` may have cancelled first; the transfer is then freed while libusb has it.
5. `scanfuncs.cpp:114`: unless the two loops divide the input at the same places the
   offsets are added to the wrong elements, and never to the last `size % 4`.
6. `scan.cpp:128`, `function.cpp:52`: in a build with OpenCL on a machine without a GPU, the
   objects of every mode, those of the CPU too, are made from a program and a context that
   were never created or are released again. `gpu.cpp:60` promises the loss of the GPU tests
   only.

Met while modelling, without a run:

* `scan.cpp:157`: `compare` looks at element i of one scan and i + 1 of the other, which is
  right only for a CPU scan checked with the GPU's. `FailureExplained` names it as one of
  the three reasons for which a check of right functions fails.
* `matrixfuncs.cpp:133`, `matrix.cl:180`: `matrixMulVec8` is launched for an eighth of the
  columns, and each item stores one element, so seven eighths of the result of mode 6
  (`README.md:73`) are never written, on any sides. `ProductRight` leaves `GPU_VEC8` out by
  name; without that the run `algorithms` violates it.
* `conv.cl:134`: the kernels apply five taps, whatever length `-f` (`README.md:107` and the sample
  at `:142`) has given the filter: the first five of a longer one, and of a shorter one also
  what lies behind it. `convfuncs.cpp:30`: the CPU leaves out `half_length + 1` rows and
  columns on each side, `compare` (`conv.cpp:195`) always four; from nine taps on it looks at a
  row that was not computed, and at a column summed from elements of `temp` nobody has
  written. Both are the condition `FitsFilter` of `ConvRight`; without it the run `algorithms`
  violates `ConvRight`.
* `matrixMulVec4` uses A's width for B and C, so it is right for square matrices only: a
  condition of `ProductRight`.
* `scanfuncs.cpp:182`: with more than 256 groups the second kernel scans their totals in
  several groups that nothing adds up; no function checks the size. Kernels whose size is
  no multiple of the work-group are refused by OpenCL with a message, and the function
  returns true with whatever the buffer holds.
* `convfuncs.cpp:18` and `:30` compare with unsigned differences: with fewer than
  `half_length + 1` rows or columns the loops do not end where they should.
  `DimsAssumption` leaves those out; up to `2 * half_length + 2` the loops are empty.
* `convapp.cpp:189`: `processFilter` takes whatever number of taps the file states, and returns
  0 for a file without a number or with fewer taps than it states; `create` goes on with that.
  `half_length + 1` then overflows, so a filter without taps is left out.
* `power_ina.cpp:90` loses its signal like the spc meter; a `read_before` of the ina meter
  that fails leaves the sensors before open; `read_after` of the spr meter leaves its
  handle open when it fails (`power_smart_real.cpp:139`); failed opens of the msr and
  perf meters go unnoticed until a read or the end; a wrapped MSR counter gives a negative
  difference (`power_msr.cpp:97`).
* `hid_libusb.cpp:670` ignores the result of the resubmission, and a failing
  `libusb_handle_events` (`:703`) ends the thread without `shutdown_thread`: a read without
  a deadline then sleeps for ever. `ReadReturns` names this exception (`Deaf`).
* `hid_libusb.cpp:645` speaks of 30 reports; `num_queued` leaves out the last one and is
  compared before the append, so 32 can be queued: `Capacity`.
* `hid_libusb.cpp:776` goes on after it has opened the path: a second HID altsetting opens
  the device again, and the failure of that frees `dev` under the first one's read thread.
  `OpensRequested` names this exception.
* `hid_apple.cpp:88`: a barrier's wait ends on any wakeup. `RunLoopValid` holds unless one
  does; `hid_close` returns in any case.
* `hid_linux.cpp:477`: a read with a deadline of 0 does not poll, and blocks unless the
  descriptor is non-blocking. `hid_linux.cpp:497`: the work-around applies to kernels it has
  misjudged, and makes -1 of an empty read. `hid_linux.cpp:424` opens the node whatever
  has it by now. The three are the exceptions of `ReadReturns`, `ImplementsDevice` and
  `OpensRequested`.
* `scanfuncs.cpp:135` and its siblings test `getEnabled`, not `gpu_kernel_loaded`: with a GPU
  whose kernels could not be loaded they print errors, compute nothing and return true.
  `HandlesValid` and `FailureExplained` name this exception.
* `gpu.cpp:285`: `-q` without a GPU walks arrays whose lengths nobody has set.
* `cpu.cpp:65`: with more than 16 processors the array of cores is overrun; with processors
  that are neither Intel's nor ARM's the types of the cores are never set, and
  `powerCoreCount` depends on what is in memory. `CoresKnown` names both.
* `-m 4294967295` is -1 for `setModes`, which refuses only what is too large. `ModeInTable`
  names this exception.
* An option at the end of the line without its value: `-m` and `-s` are noticed, and `main`
  returns without deleting anything; `-a`, `-o`, `-r`, `-p` and `-t` read `argv[argc]`.
* `app.cpp:54` compares `-s` with the `-m` given, not with the mode stored. With an `-m`
  outside the table and `-s 0`, mode 0 is checked against itself.
* `README.md:49` says printing is disabled by default; `setModes` gets it enabled.
  `README.md:53` limits repeats to 2000000, `main.cpp:156` to 2000000000.
* When a benchmark function fails, `calculate` skips `read_after` (`scanapp.cpp:100`): the
  monitor goes on, and the next `read_before` initialises a mutex in use, or `main.cpp:203`
  deletes the meter under it. The properties that need a pairing caller say so
  (`"function" \notin Faults`); the two that do not, `SyncOutlivesMonitor` and `InaConfined`,
  speak of the time until such a `read_before`, and no model has that deletion.

Most of what this list has is an exception of a property, named there. For these hazards
`PROJECT.json` lists no property and says why: the project describes them, it does not catch
them.

## 7. The proofs

Each theorem of the form `Spec => []P` comes from an inductive invariant that TLC checked
first on the runs of section 3. None of the properties is inductive by itself; what the
invariants add is said here. Unless a condition is named, a theorem holds under all faults.

### SmartCalc_proofs (assumes `BoundsAssumption`, `FaultsAssumption`)

* `TypeCorrect`: `TypeOK`, one step per action; the sequence operations are typed by the
  lemmas `EnergyOps`, `OutQueueOps`, `InQueueOps`.
* `SyncSafety`: `SyncOutlivesMonitor`, up to a `read_before` beside a live monitor. Nothing in it says that no monitor lives when
  `FinishAfter` destroys the mutex. `SyncInv` adds that: at `stop` and `close` no monitor is
  live, because `Join` came first, and the monitor's own steps create none.
* `Locking`: `MutexHeldInside`, also for a caller that abandons a measurement. `LockInv` says
  that the owner of the mutex is exactly the thread that is inside, which keeps the other out.
* `Pairing`: if no benchmark function fails, `PairedInv` is invariant: a live monitor implies
  that the main thread is between its creation and the join, the handle open, the mutex in
  existence, and `initialized` set. This is what the code's order of calls is for, and
  what the next results rest on. `Confinement` and `Definedness` (`MonitorConfined`,
  `NoUndefined`) follow.
* `Conversation`: with a pairing caller and a device that is not slow, at most one request or
  reply is on its way, and both threads know which: `ExchangeInv` for the main thread (nothing
  at the start of a measurement, the status of the device in `readStatus`, a device that runs, or
  is about to, when the monitor is created), `MonitorInv` for the monitor (the request of its
  last sample), `FreshInv` for what has been added. `DeviceRuns` and `Freshness`
  (`MeasuresRunningDevice`, `SampleFresh`) follow; the two properties state the
  condition themselves.
* `Refinement`: with a pairing caller `Spec => Meter!Spec`. Each action maps to a step of
  `PowerMeter` or to a stutter; `PairedInv` shows that a sample is only added while a
  measurement is open, `TypeOK` that `Len` counts it.

### Bench_proofs, Program_proofs (assume `BenchAssumption`, `ComputersAssumption`)

`Invariant` is `ProgramSpec => []ProgramInv`. For the run: `TypeInv`; `ModesInv`, the modes
`setModes` lets pass; `RoleInv`, what each call of `calculate` is for and with which mode;
`TriedInv`, the modes of a sequence calculated so far; `TimesInv`, how far the repeat loop is and
which turns were timed; `ResultsInv`, what n executions leave in a result; `LiveInv`, which
results exist where; `OpenInv`, when the meter measures and the log is open. For `main`:
`StageInv`, in which stages the run moves, and `HandleInv`, which handles are live in which
stage. From it follow `Types`, `ModesInTable`, `SequencesComplete`, `TimesReported`,
`FailuresExplained`, `HandlesUsed`, `Released`, and the action property `MeterUse`
(`MeterPaired`). A step of `main` is a step of the run or leaves it alone (`StepOfRun`), so each
conjunct is one lemma about the steps of `Bench`.

`CoresDetected` is `CoresKnown`. The lemmas `IntelLines`, `ArmLines` and `OldLines` say which line
of `/proc/cpuinfo` is the k-th; `DetectInv` says what the loop has made of the lines read so far:
`coreCount`, the type of the CPU and every element of `cores` are functions of their number
(`IntelInv`, `ArmInv`, `OldArmInv`). `CountCores` then looks at the last state of that loop.

### Hid_proofs (assumes `PlacesAssumption`, `HidAssumption`)

`Invariant` is `Spec => []HidInv`.

* `OpenedInv`: what a path that was found says of the devices it leads to, with the one
  fact the libusb backend rests on, that no USB address is given twice (`AddressInv`); and
  what the visit of the altsettings has made of the handle (`VisitInv`). `Opens` is
  `OpensRequested`.
* `LibusbInv`: where the transfer may be while the read thread is at each of its points, what
  `shutdown` implies, and that who is about to sleep, or sleeps, has an empty queue and a read
  thread that has not ended. `AppleInv` says the same of its thread, and in `BarrierInv` who has
  arrived at each barrier as long as no wait has ended by itself. `LinuxInv` says who has a
  deadline. `Types` (the typing alone: the bound of the queue comes with `Implementation`),
  `Wakeups` and `RunLoop` follow.
* `Implementation`: `Spec => ImplementsDevice`, for all three. Each action maps to `Arrive`,
  `Answer`, a timeout, a write, `Break` or `Close` of `HidDevice`, or to a stutter; the
  invariant says that who reads has not closed, that who gives up has a deadline, and
  that who is told of an error has a device that is broken.

### Meters_proofs (assumes `MetersAssumption`)

`Invariant` is `Spec => []MetersInv`: one conjunct for the variables and one for each meter.
`InaInv`: the sensors before the loop's counter are open and enabled, a live monitor has all of
them, and lives within a measurement unless a caller has skipped `read_after`. `MsrInv`,
`PerfInv`: `read_after` has closed what its loop has passed. `RealInv`: where the handle may stay
open. `FaultlessInv`: without faults one request is on its way at most, its reply is the next
thing read, and the device is toggled so that it runs during the measurement and not after
it. `Monitor` (`InaConfined`), `Closed` (`NothingLeftOpen`), `Stopped` (`DeviceStopped`) and
`Implementation` (`InaImplementsMeter`) follow.

What is reported is a sum over the cores, so the module first proves what it needs of sums:
that the fold of the library is a recursion that has a solution (`SumExists`), whatever
element it takes first (`SumTakes`); hence the sum grows core by core as in the loops of
the meters (`CoreSums`), and is monotone and additive (`SumMonotone`, `SumAdds`). `Turns` and
`CounterSums` say what a counter of width `Wrap` shows that has not wrapped in between.

* `Types` is `TypeOK`, from `UsedInv`: an event never counts from later than now, nor does the
  device, which is why no difference is negative.
* `Reports` is `ReportsThisMeasurement`, from `ReportInv`. `SpentInv` orders the four moments:
  the call of `read_before`, its return, the call of `read_after`, its return. `MsrValues`: the
  sum a loop has made of the cores it has passed lies between their counters when the loop
  was entered and their counters now; both bounds move when a core uses energy, and at the
  end of each loop they are the two moments around it. `PerfValues`: the events were opened
  between call and return of `read_before`, and what they show lies within the same bounds.
  `RealValues`: the device started between the same two moments, and follows its energy from
  the device into the reply and into `consumed`.

### ScanOmp_proofs, Scan_proofs (assume `TeamAssumption`, `ScanAssumption`, `SizesAssumption`)

The team, for every `nthreads` and every size. The lemmas before the invariant are about
OpenMP's division of a loop: the parts of the threads follow one another, cover the loop
(`FirstCovers`, for any number of iterations), and do not meet (`PartsDisjoint`). `ScanOmpInv` has
`OrderInv`, how far the others are when one thread is at some point, which is all the two
`single`s and the barriers are for; `LoopInv`, what a thread has summed up; `TotalsInv`, what
`suma` holds before, during and after the second `single`; and `ElementsInv`, what the elements
of a thread hold before and after its second loop passes them, if the loops divide
alike. `Scan_proofs` carries this over to a call of any function (`Calls`) and
draws the consequences: `TeamRaceFree`, `TeamOffsets` for every size, and `TeamScans` for the
sizes whose parts coincide; the finding about the others is a run.

`OneThreadScans` is `SequentialRight`: the registers of the SSE and AVX scans after each
shift and addition (`Vectors`, from `SseLanes`, `Turning`, `AvxLanes`), for every size, also one
that ends within a vector.

`GroupRaceFree` is `GpuRaceFree`, for every size of the work-group: an item that has passed a
barrier has seen every other one reach it, so that two items never are in a step that
writes and one that reads; within a step the places differ (`Positions`).

`GpuScans` is `GpuScanRight`, from `GpuCalls`. `Phases` and `Control` say how the step of an item
goes with its `offset`, and that all items between the same two barriers have the same one, so
that the loop ends for all of them together, whether or not the size of the group is a
power of two. `Windows`: between the barriers item l holds the sum of the last `offset` items
up to it (fewer at the beginning, where the lower half of local memory is zero), and doubles
that in two steps, the read and the write; an item that is behind still finds what it has to
add. `Results`: what the three kernels have left in the two buffers: the sums within each
group, the totals before each group, and their sum for the groups that have run.

### Algorithms_proofs (assumes `DimsAssumption` and the three above)

* `Convolves` is `ConvRight`, for every filter the function is made for: five taps in the
  kernels (`FiveTaps`), at most eight on the CPU. Its invariant, `ConvInv` (`ConvCalls`), is
  about filters of any length, since what a turn writes is right by where it lies (`Reach`)
  and not by what fits. In each pass of the CPU the rows before the turn a thread is at are
  right, and the columns only start on a buffer that is right where they look; `FitsFilter` is
  needed at the end only, for the edges that the loops leave out to be among those `compare`
  leaves out. The index arithmetic is in `Places` and `PlaceOf` (row and column of an index,
  for any sides) and in lemmas for vectors and tiles.
* `Multiplies` is `ProductRight`, from `MatrixCalls`: every function but `GPU_VEC8`, on all
  sides that fit. A sum is the set of its products, and adding one it already has is wrong, so
  each product has to come exactly once. On the CPU
  (`Adding`) two threads never add to one element at the same time: `TurnOf` is the one turn of
  the outer loop that an element belongs to. On the GPU (`Multiplying`) no item of a group is
  more than one step ahead of another, so that what it reads of the two blocks in local
  memory was loaded in this turn and not in the next; `ItemHas` says which products the
  accumulator has after each turn.
* `Types` is `AlgTypeOK`: with `ScanCalls` for the scans, and the conjuncts of `ConvInv` and
  `MatrixCalls` for the others. The variables that the function called does not use stay as
  they are.

Three definitions were corrected for these proofs. In `ConvFuncs` the turns of a thread (`RowOf`,
`ColumnsOf`) are guarded by the function: the stages of the host and of the kernels have the
same names, and a thread could take its turns beside a kernel, which TLC did not notice since
what it wrote was right. In `MatrixFuncs`, `Fits` asks of `matrixMulVec4`
that the vectors divide the columns, which the work-groups of 32 by 8 of the code imply and
arbitrary `LOCAL_X` do not. In `ScanGpu` the `offset` of an item is a variable, `offsets`, as it
is in the kernel, and no longer computed as a power of two from the number of its step.

### How sums and loops are proved without an induction theorem

The library's theorems of induction have an operator as a parameter, which no prover here
can instantiate. What they rest on can be cited: `<` on the naturals is well-founded
(`NatLessThanWellFounded`), and every non-empty set has a minimal element (`WFMin`). So a
property of all numbers, or of all finite sets by their cardinality, is proved by taking the
least counterexample (`Least`, `Smallest`), property by property.

### What is only model-checked

* Liveness: `HeardSignalReturns`, `ReadReturns`, `CloseReturns`. Fairness and ENABLED are out of
  TLAPS's reach. All other properties of the runs that pass are also proved.
* The properties of the runs that are violated.

## 8. What is not modelled

* Floating-point values and rounding, times, texts, and the contents of files. The timer
  only reads the clock.
* What lies in memory beyond an array: a load from there is `Wrong`, a store is left out.
  Nested parallel loops: only the outer one has a team, as OpenMP does it unless told
  otherwise.
* Of the HID library: strings and feature reports, which are single calls without state;
  `hid_init` failing on macOS; libusb running the callback on the thread of a writer that
  handles events at that moment.
* Of the objects of a run: `temp` and `filter` of a convolution, which its destructor does
  not free, and the input that is lost when the constructor of a result throws.
* The deletion of a meter whose monitor is alive (`main.cpp:203`, after a failed function), and
  what follows a `read_before` beside such a monitor.
* Convolutions on the CPU with sides below `half_length + 1`, and filters without taps.
* The variant of `getSensorDatas` under a debug macro. How `-c` fills the file it creates.
  The comparison of option strings, and the fixed size of `filtered_argv`.
* Kernels no function table names (`matMul.cl`, parts of `conv.cl`). Build files, whose
  variants are the constant `Machines`.

## 9. The plan

Done, in this order: `PowerMeter`, `SmartCalc` with its proofs, `Bench`, `HidLibusb`,
`ScanOmp`, the other meters in `Meters`, the other scans in `Scan`, `Algorithms`; then
`HidDevice`, `HidApple`, `HidLinux` and `HidOpen`, composed by `Hid`; `Gpu` and `Cpu`,
composed with `Bench` by `Program`.

Then the proofs, in the order of section 7. For them `ScanOmp` got the second `single` step by
step, which had been one step of a recursive function; `Cpu` a `CpuInfo` that says which line is
the k-th, instead of putting the lines together one processor after the other; `Meters` the
assumption that `StatusTries` is not 0; and the three corrections named there were made.

Every safety invariant, action property and refinement that a run checks is now proved. What
is left is liveness, which needs another prover, and what section 8 lists.

## 10. How to run it

In this directory, `tlc -config smartcalc.cfg MCSmartCalc.tla` checks a run (the module
of each run is in `PROJECT.json`); every run finishes within a few minutes.
`tlapm Hid_proofs.tla`, and the same with each of the other modules `*_proofs.tla`, checks the
proofs; each takes from a few seconds to about ten minutes.
