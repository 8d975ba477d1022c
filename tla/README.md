# A TLA+ model of ar-glass-lib

ar-glass-lib drives AR glasses from Android.  A Kotlin layer finds the devices,
obtains permission and owns sessions; per-model drivers speak the vendors'
protocols; a native layer moves the bytes over usbdevfs, a libusb of its own or
TCP.  Nearly every part consists of a few threads, a device that is slow, silent
or gone, and a `close()` that may come at any moment.  That is what this
directory models: TLA+ modules of the concurrent core and of the libusb below
it, TLC configurations that check them on small instances, and TLAPS proofs of
the invariants that carry the oldest of them.

Sources are named relative to the repository.  `J` is
`library/src/main/cpp/ar_glass_jni.cpp`, `K/` is
`library/src/main/java/com/taowen/arglass/`, `S` is `K/ArGlassCameraSurface.kt`,
`L/` is `library/src/main/cpp/libusb/libusb/`.

    tlc -workers 2 -config MCTransports.cfg MCTransports.tla
    tlapm ExchangesProofs.tla

`PROJECT.json` maps every modelled definition to the lines it stands for, and
lists the runs, one mutant per checked property (a plausible bug that the
property catches), the findings, the hazards and the theorems.

## 1. Inventory

### 1.1 What exists, what it keeps, what it does

| component | source | state | operations | in the model |
|---|---|---|---|---|
| Glasses manager and session | `K/ArGlassesManager.kt` | pending permission, executor, `active` and `closed` of a session | scan, requestPermission (glasses, device), broadcast, open, close | permission: GlassesPermission; open, close and the callback gate: PhoneAtwConnection |
| XREAL USB session, commands | `J` `XrealUsbSession` | command mutex, pending request, published reply, receiver thread, sink, usbdevfs handle | mcu, imu, start_mcu_stream, set_mcu_sink, close, the receiver | XrealUsbCommand, CommandChannel |
| XREAL USB session, IMU stream | `J` `XrealUsbSession` | URBs in flight, bounded queue, sink, reader thread | start_imu_stream, read_imu_record, set_imu_sink, close, the reader | XrealImuStream |
| XREAL XBX session | `K/driver/xreal/xbx/XrealXbxSession.kt`, `K/driver/xreal/XrealNativeUsbSession.kt` | `running`, `mcuReady`, the IMU and the heartbeat thread, the native handle | constructor, display commands, handshake, close | XrealXbxSession |
| XREAL One, display | `K/driver/xreal/onefamily/XrealOneFamilySession.kt`, `xreal_one_dp_jni.cpp` | the glasses' EDID and input mode, a TCP connection per command, counters of the verification | setDisplayProfile, verifyDpState, one RPC with its retries | XrealOneDp |
| XREAL One, IMU | `xreal_one_imu_jni.cpp`, the session's reader | socket, parse buffer, samples, reader thread | connect, next, try_parse, close | XrealOneImu |
| XREAL Eye camera | `K/XrealEyeCamera.kt` | two TCP connections, a byte stream | constructor, transact, readHevcFrame, close | XrealEye |
| Process network binding | `K/driver/xreal/onefamily/XrealOneNcmTransport.kt` | the network the process is bound to | findNetwork, withBoundNetwork | NcmBinding |
| Owners of USB: XREAL Air family and Light, GOOVIS, Rokid, RayNeo, VITURE | `J`, `goovis_g3_jni.cpp`, `K/driver/...` | connection, libusb context, handle, claims, reader thread | open with every step that can fail, the reader, a display command, close | NativeUsbOwner |
| VITURE Beast, protocol | `K/driver/viture/beast/VitureBeastSession.kt` | three answer fields, the calibration | readFactoryCalibration, queryDisplayProfile, setDisplayProfile, handlePacket | VitureBeast |
| Shared camera hub | `S` `SharedFrameHub`, `SharedSurfaceWriter` | reader, pump thread, registered writers and their queues, codec configuration | open, unregister, the pump, offer, writeFrame, close | SharedCameraHub |
| Camera surface stream and leases | `S` `ArGlassCameraSurfaceStream`, `LeasedFactory`, `LeasedSurfaceWriter` | `running`, thread, writer, the lease | start, run, close, open, close of a lease | CameraSurfaceStream |
| Phone ATW connection | `K/PhoneAtwDeviceConnection.java`, `K/PhoneAtwSession.kt` | `closed`, `opening`, session, two executors, latches | start, permission result, open, close, the sample path | PhoneAtwConnection |
| Beast UVC camera | `beast_uvc_jni.cpp`, `K/BeastCamera.kt` | libusb resources, isochronous ring, assembly buffer, frame queue | start, isoCallback, readFrame, stop | BeastUvc |
| libusb: transfers on usbfs | `L/os/linux_usbfs.c`, completion in `L/io.c` | URBs of a transfer, how many have come back, the reap action | submit (bulk, interrupt, control, isochronous), discard, reap, disconnect | LibusbUsbfs, LibusbTransfer |
| libusb: event handling | `L/io.c`, `L/sync.c`, `L/os/events_posix.c`, open and close in `L/core.c` | events lock, waiters lock, event flags and pipe, flying transfers, poll sources | submit, cancel, synchronous transfer, handle_events, open, close | LibusbIo, LibusbTransfer |
| libusb: descriptors | `L/descriptor.c`, reading in `L/os/linux_usbfs.c` | the descriptors buffer | reading, seeking a configuration, the parsers | LibusbDescriptor |
| libusb: device handles | `L/core.c`, `L/os/linux_usbfs.c` | claimed interfaces, auto-detach, the kernel's drivers | claim, release, alternate setting, configuration, clear halt, reset, detach and attach | LibusbHandle |
| libusb: devices and hotplug | `L/core.c`, `L/hotplug.c`, `L/os/linux_netlink.c`, `L/os/linux_usbfs.c` | reference counts, list of devices, messages, callbacks, the monitor thread | init, exit, get and free list, ref, unref, open, connect, disconnect, register, deregister, process | LibusbDevices |
| Camera frame readers, LUCI, Grawoow, Rokid Max 2, tables, registry, decoders, diagnostics, demo | `K/...`, `ar_glass.cpp`, `app/` | none of their own to speak of | | not modelled (section 8) |

### 1.2 How they interact

The application calls the manager; `ArGlassesManager.open()` asks a driver for
its session and wraps the application's callbacks in a gate that `close()`
shuts.  A driver session owns one or two threads that block in native calls on a
*handle*, a pointer that `close()` deletes.  The XREAL drivers share
`XrealUsbSession`, whose receiver and URB reader call back into Java through
sinks; the others share `UsbSession` or have a class of their own, and each of
these has a libusb context with one wrapped device.  Cameras are readers with a
blocking `readFrame()`; a surface writer, the surface stream or the shared hub
pumps one of them.  `PhoneAtwDeviceConnection` sits on top of the manager with
executors of its own.

Shared state and who touches it:

- the XREAL USB handle: callers (under the command mutex), the receiver and the
  URB reader (without it), `close()`;
- the MCU IN endpoint: callers in a synchronous exchange or the receiver, never
  both;
- the hub's reader: the pump, every writer that opens or closes, under the hub's
  lock; but a frame is read, a reader closed and a frame offered outside it;
- the session's callbacks: driver threads against `close()` of the application;
- the network of the process: every thread that talks to an XREAL One;
- the glasses themselves: the display switch re-enumerates the USB device and so
  cuts the connection it was ordered over;
- a libusb context: every thread in a synchronous transfer, the one that handles
  events, and whoever opens or closes a handle.

### 1.3 What the README of the repository demands of callers

The models take these contracts as given, and do not explore programs that break
them: device commands, open and close are serialized by the caller on a serial
executor, and an old session is closed before its replacement is opened
(README.md:146-149, `K/ArGlassesManager.kt` 165-168).  Permission requests and
broadcasts are assumed to run on Android's main thread, because the manager's
pending fields have no lock.  `close()` of a session may be called twice
(README.md:170-173).  Permission requests are "serialized across every
component" (README.md:234-237); requests of the application may still overlap,
and are modelled both overlapping and not.

### 1.4 Where it is hard, and what makes it correct

| component | what is hard | what makes it correct |
|---|---|---|
| XREAL USB commands | two reception paths that must exclude each other, replies after the time-out, a receiver that starts in the middle of an exchange, `close()` against all of it | a call returns the reply to its own request or nothing; a reply that came in time is not lost; nothing uses a released handle; every call and `close()` end |
| XREAL IMU stream | the reader counts URBs the kernel completes on its own; resubmission decided on flags read before; unplug; a full queue | the count is exact; the queue is the newest reports in order; `close()` leaves neither thread nor URB; an unplug ends the stream |
| Shared hub | replaced pumps overlap their successors, the last writer leaves while the pump finishes, double close | a registered writer is served or told; a reader is closed exactly once; a replaced pump does little harm |
| Surface stream, leases | restart while the first thread still opens its camera; a close by the listener, from the run's own thread, overtaken by a start; double close of a lease | every run that a close would not wait for has a close to account for it, so a stream closed without one of these is off; one more holder of a lease only for each second close |
| Permission | answers arrive later, unnamed or refused, and components detach in between | no request is lost or answered twice; a result names the glasses that were asked for |
| XBX session | handshake wanted by two threads, joins that give up | one handshake and one heartbeat; the handle outlives the calls unless a join gave up; all threads end |
| One display | writes that get no answer, answers that come late, a link that drops because of the command itself | a switch that returns true has happened, and one that nothing disturbs returns true |
| One IMU, Eye | frames cut anywhere, time-outs in the middle of a frame, bytes that look like the beginning of one | frames are found once, in order; after a lost piece the stream is found again |
| Network binding | bind and restore overlap | blocks that nest restore what was; blocks that cross are the only ones that do not |
| USB owners | each step of an open may fail, joins give up, objects are deleted under calls | what is opened is closed from the inside out, and what a failed open leaves is known |
| VITURE | answers name no request; segments of a changing calibration | an answer is taken once and in order, for its own request or the next after one given up; a calibration is whole |
| Phone ATW | five parties, three gates, a close in the middle of open | the consumer is initialized first and never once closed; a closed connection holds nothing |
| Beast UVC | lost packets, a frame bit of one bit only, a start that fails half way, a free under a waiting reader | frames are whole or dropped, in order; a failed start holds nothing |
| libusb transfers | a submission that fails half way, short URBs followed by filled ones, cancellation against completion and unplug | no URB is freed while the kernel has it; the data is whole; the report is true and comes once |
| libusb events | one handler for many waiters, deadlines computed before a change, a pipe whose reads block, close against all of it | no waiter sleeps through its transfer; every transfer that should end is reported; nobody waits for ever |
| libusb handles | ioctls that claim by themselves, drivers that bind in between, a reset that claims again | what the handle believes claimed is the kernel's, but where the code cannot know |
| libusb devices | objects named by messages, lists, handles and children; callbacks that deregister while dispatched; exit | the count is the number of holders; an unplugged device is freed |
| libusb descriptors | lengths and counts that lie | nothing is read or reported beyond what is there, and what is well formed is parsed |

`PROJECT.json` "hazards" names each of these at the line where it bites, with
the properties that watch it, or why none does.

## 2. Modules

Each module has its state as VARIABLES, the limits of the instance as CONSTANTS
with a named assumption, one action per operation or per step between two
points where another thread can interfere, then the properties.  A definition
marked "Mutant of X" is a faulty version of X that no specification uses; it is
there to show that a property notices that fault.

### 2.1 The library

**XrealUsbCommand** - `XrealUsbSession` without its IMU stream.  Each caller is
at one of the places `idle, route, install, write, wait, syncTop, syncRead`
(`pc`); `commandLock` is `command_mutex_`; `pending`, `pendingId`, `reply` are
the fields under the response mutex; `reader`, `starter` and `closer` say where
the receiver, `start_mcu_stream()` and `close()` are.  The glasses are external:
they may answer what they were sent (`owed`) late, damaged, or never, and send
packets nobody asked for.  Left out: the send sink, which only observes; the
second `close()` (it returns early, line 139); `read_imu()` of lines 75-77,
which takes no lock and is meant for the time before any thread runs.

**CommandChannel** - what a caller may rely on, in three actions: a fresh
request may start an exchange when none is under way, an exchange ends with
nothing or with a packet that answers it, the handle is released between
exchanges.  `ImplementsChannel` in XrealUsbCommand instantiates it with
`open <- handleOpen`, `owner <- commandLock` (unless the starter holds it) and
`lastId <- nextId - 1`; every step of the detailed module is one of these or a
stutter.

**XrealImuStream** - the URB reader.  The kernel is external and small: a count
of URBs in flight and the sequence of completed ones; reports are numbered, so
order and freshness can be stated.  `ReapUrb` reads the two flags and `Resubmit`
submits in a later step, because `close()` may discard in between.

**SharedCameraHub** - readers are numbered; `loop[g]` is where the pump of
reader g is in `readLoop()`.  What the code does under `lock` is one action;
reading, closing, offering and marking are steps of their own.  `dying` are the
readers an `unregister()` took out and closes outside the lock.

**CameraSurfaceStream** - `start()`, `run()` and `close()` of the surface
stream.  Each start that takes effect makes a run with a thread and a reader of
its own.  Actors are the application and the listener of each run, which is
called on the run's thread where the camera cannot be opened, is open, shows a
frame and fails (`InListener`), and may close the stream at each of these;
`call[c]` is where actor c is in `start()` or `close()`.  `close()` has five
steps, whoever calls it: the flag, the writer, the read of `thread`, the join
(none for the caller's own thread) and the end of `thread`; `start()` has two,
since the field is assigned after the thread has begun.  `thread` is neither
volatile nor guarded, so each access to it is a step of its own; a value that a
thread sees late is one that it has read early.  The application is taken to
start and close from one thread, as a screen does; a `start()` from
the listener has no effect unless it closed the stream before, and is left out.
With it the lease of a camera, which one writer holds until it is
closed, the second `close()` of a writer included.  The frames and the renderer
are left out.

**GlassesPermission**, **MCGlassesPermission** - the manager's pending fields,
the results queued on the executor, and Android: granted devices, questions the
user has not answered (`Questions` numbers them by device), broadcasts on the
way.  A broadcast may name no device, and a device may be detached and lose its
permission.  The MC module only names two sets of glasses: a composite one with
a simple one, and two simple ones.

**XrealXbxSession** - phases of `runImu()`, each a number of native calls that
can fail; `monitor` is the lock of `ensureMcuReady()`; `inside` are the threads
in a native call, so that freeing the handle under one of them shows (`misused`).

**XrealOneDp** - the session's verification (`phase`) and, below it, one native
call (`step`).  The glasses serve requests in order, even of clients that hung
up; a fault refuses, loses, delays, drops the link or re-enumerates.  An EDID
and an input mode are known by the profile they belong to.

**XrealOneImu** - the native client byte by byte: chunks of any size arrive,
`try_parse()` takes a turn per action (no header, part of a frame, a frame that
does not decode, a good one), and the Kotlin reader and `close()` around it.
What a payload decodes to is given by sets of payloads.  `SamplesAreParsed`
compares what was delivered with a reference definition on the whole stream.

**XrealEye** - the video bytes of the Eye's protocol with the same care, where
time-outs may cut a frame; the control connection with acknowledgements that are
late, refused or another's; `close()` by a second thread.

**NcmBinding** - networks come and go, numbered; each thread finds the glasses'
network, remembers what the process was bound to, binds, and restores.

**NativeUsbOwner** - one session after another, of one of five kinds: who holds
connection, context, handle and interfaces, what a failed open leaves behind,
the reader, a display command, and `close()` with a join that may give up.  No
code tests whether the object still exists; `touched` records the threads that
used it after its deletion.

**VitureBeast** - the calibration segment by segment, with or without the status
byte, from glasses whose calibration may change in between, and the display
commands, whose answers arrive in three fields by kind only.  `taken` relates
each answer to the request it was taken for.

**PhoneAtwConnection** - the two executors as queues, the control thread, the
receiver thread with a place between every two of its checks, and the monitor
that `initialize()` runs in.  The consumer's callbacks are assumed to return.

**BeastUvc** - the acquisitions of `start()` with the labels that give them
back, the isochronous callback packet by packet, the frame queue, `readFrame()`
and `stop()`.  Packets have equal size, so `Capacity` counts packets; the
negotiation is one step that may fail; the kernel is assumed to return cancelled
transfers within the four polls of `stop()`.

### 2.2 libusb

**LibusbTransfer** - the promise: a submission is refused or accepted, an
accepted one is reported once, as cancelled or timed out only if somebody or its
timeout asked for that.  Two modules implement it.

**LibusbUsbfs** - one transfer and its URBs.  Bulk transfers in the three ways
that the capabilities of usbfs choose, isochronous ones in URBs of packets,
control ones in one.  Submission, discarding and reaping take a URB per step;
the reap action decides what the rest means.  The kernel is external: URBs
complete, short, in error, killed, or vanish with the device, in its order.
Data is numbered, so that a hole shows.  `UrbsOutliveKernel`, `DataIsWhole` and
`CompletedIsTrue` are what the module is about; the other parts of `UsbfsInv` and
`ReportIsTrue` are what they rest on (section 5), and the run checks them too.

**LibusbIo** - every thread has a handle with one transfer.  The events lock,
`event_data_lock`, `event_waiters_lock`, `flying_transfers_lock` and
`open_devs_lock` are variables; a thread is at a named place between two of
their uses.  Time is a small counter; timeouts are those of `poll()`
and of the condition variable, as in this build.  Callbacks complete a
synchronous call, submit again, or close their handle.  The 60 seconds after
which `libusb_handle_events()` returns anyway never pass: no wake-up may depend
on them.  `IoInv` has a part for each thing the threads share: the locks, the
transfers in hand, the reasons of cancellations, the list (ordered, and holding
what is in flight), the pipe, the waiters, the poll set, and the count of those
in `libusb_close()`.

**LibusbDescriptor** - the buffer grows descriptor by descriptor with claimed
lengths too small, too large or right, and is cut anywhere; the parsers are
operators on what is there.  A reference definition says what a well-formed
buffer must yield.

**LibusbHandle** - the operations on one handle, each split where the code calls
the kernel without the lock, against kernel drivers that bind and unbind.

**LibusbDevices** - a hub and a device, each arrival a new object.  `job` is the
work under `linux_hotplug_lock`, a stack of steps; messages go to the event
handler, which releases the lock around callbacks.  What `usbi_hotplug_exit()` and
`libusb_free_device_list()` do with a list they do one object at a time.  A last
reference takes that of the parent with it; a hub has no parent here, so
`libusb_unref_device()` goes up one level.

### 2.3 Composition for TLC

**MCTransports** and **MCSessions** put parts side by side that share no state:
a variable `part` chooses one of them in Init, `Next` is that part's next-state
relation with the others' variables unchanged, and an invariant is looked at in
its own part.  So one run holds the union, not the product, of their states.
MCTransports has twelve parts (safety only; the stream and the lease of
CameraSurfaceStream, which share nothing, are two), MCSessions three (with the fairness
of the one chosen).  The two threads of LibusbHandle are interchangeable and
form the symmetry of MCTransports, which checks no liveness.

**XrealImuStreamProofs, SharedCameraHubProofs, LibusbUsbfsProofs, LibusbIoProofs,
LibusbDevicesProofs** - the theorems about the module they are named for.
**TransportsProofs** and **SessionsProofs** - those about the parts of MCTransports
and MCSessions and, since the parts share no state, about every behaviour of the
composition (section 5).  **ExchangesProofs** continues TransportsProofs with the
parts that ask for answers: XrealEye and VitureBeast, and XrealUsbCommand, whose
theorems are about its own specification.

## 3. Runs

| run | states | what it asks | bounds |
|---|---|---|---|
| transports | 3 049 913 | the questions of safety of its parts, below | below |
| usb_live | 435 398 | does every call return and close() end | 2 callers, 1 command, ids up to 2, 1 packet per endpoint, without the untimed entry point |
| usb_close_race | about 1 300 | does close() join the receiver (it does not: section 6) | 1 caller |
| imu_stream | 548 172 | inductive invariant, queue, quiet close, termination, unplug | 2 URBs, queue of 2, 4 reports, 2 starts, 1 sink change |
| camera_hub | 376 318 | is every registered writer pumped, every reader closed once, every unregistered writer told, order and bounds of the queues | 2 writers closed up to twice, 2 readers, 2 frames, queue of 2 |
| sessions | 277 684 | permission: is no request lost, answered twice or left open; XBX: one handshake and heartbeat, handle against joins that give up, end of all threads; phone: initialize before accept, nothing once closed, everything released, a notice for every start | 2 requests, 2 detaches, composite and simple glasses; the code's 10 handshake calls and 36 knots, 3 parts; 3 starts, 3 samples |
| permission_device | about 1 200 | permission with requestPermission(device): does a result name its glasses (it does not: section 6) | 2 requests |
| dp_claim | about 30 000 | the claim of README.md about every model (it does not hold: section 6) | 2 profiles, 2 calls, 3 attempts, 3 rounds, 4 faults |
| libusb_usbfs | 499 614 | are URBs outlived, the data whole, reports true, cancelled transfers reported; is LibusbTransfer implemented | URBs of 2 units, transfers of up to 5, submitted any number of times |
| libusb_io | 275 635 | do flying list, pipe, waiters and poll set agree; does every transfer that should end get reported and every call return; is LibusbTransfer implemented | 1 synchronous thread, 1 user, timeouts none or 1, 2 submissions each |
| libusb_close_in_callback | about 292 000 | the same, with a callback that closes its handle (calls do not return: section 6) | the same |
| libusb_devices | 792 606 | are counts the holders, is the list what is attached, does exit free all, are callbacks told in order, is what is unplugged freed | a hub and a device, 3 objects, 1 callback, netlink queue of 2, 2 changes, 1 reference of the application |

The parts of *transports*, and why their bounds suffice:

| part | question | bounds |
|---|---|---|
| XrealUsbCommand | do replies go to their own request on both paths, is the endpoint never shared, is a released handle never used, is an early reply kept, is CommandChannel implemented | 2 callers, ids up to 2: the interference is between one exchange and the remains of an earlier one, the receiver's start, or the close; a third caller only waits for the mutex |
| XrealOneDp | is a late answer never taken, does a reported switch mean a switch, does an undisturbed one succeed | 2 calls let a late request of the first disturb the second; 3 attempts as in the code, 3 rounds, 3 faults, one for each attempt of a command |
| BeastUvc | frames whole, unmixed, in order; a failed start holds nothing | 4 frames of 3 packets: frames of the same parity with a lost one between need three, the queue's overflow a fourth; a capacity of one frame makes mixed ones hit it |
| LibusbDescriptor | is nothing read beyond the end, is what is well formed parsed | up to 4 descriptors, cut by up to 2: configuration, interface, endpoint and one more of any type |
| LibusbHandle | does the lock protect, is what is recorded as claimed bound | 2 threads, 2 interfaces: one under reset while the other is claimed |
| XrealOneImu | is every frame delivered once, in order, whatever the cuts | frames of 4 bytes with a header of 2, 8 bytes in chunks of up to 3: two frames, or one with garbage on both sides |
| NativeUsbOwner | is everything closed inside out, and what is left accounted for | 3 sessions in turn: one that fails, one it disturbs, one after that |
| NcmBinding | do blocks that nest restore what was | 2 threads, 3 networks |
| CameraSurfaceStream | is every run that no close waits for accounted for, is a closed stream off, is a lease held once | 2 runs: one that is closed, by the application or from its own thread, while another starts; 2 closes by listeners; 3 leased writers: one closed twice, the next, and one let in beside it; the theorem covers all others |
| XrealEye | are frames found in order, is the stream found again after a cut | 2 frames of up to 1 byte of payload, 2 control frames looked at: one frame cut, one found again |
| VitureBeast | is an answer taken once, is a true result an answered one, is a calibration whole | 5 requests, 2 segments, one change of the calibration: a late answer, the request that takes it, and the next two that are behind by one |

*imu_stream*: two URBs let one be in hand while another is in flight, two
reports more than the queue holds make it overflow twice; the proofs cover all
other values.  *camera_hub*: two readers are an old and a new one; two writers
are the last one out and one coming in; also proved for all values.
*libusb_usbfs*: five units are three URBs, the last of them short.  *libusb_io*:
two threads give a handler and a waiter who change places; a third only adds
waiters.  *libusb_devices*: three objects let the device come back while its
old object is held.  Deadlock is not an error in any run: after `close()` the
systems stop.

Every action of every module fires in some passing run, and every property fails
for the mutant given with it.

## 4. Fairness

Weak fairness of a thread's own steps everywhere: the operating system runs it.
No fairness at all for what the application, the glasses or the network may
omit: calls, replies, reports, samples, detaching.

- XrealUsbCommand: a synchronous exchange ends at a deadline while packets of
  others may keep coming; the deadline is enabled again and again and must be
  taken eventually, hence SF of `SyncDeadline` (the loop tests the clock in every
  turn).  The wait on the condition variable has a timeout and ends under WF.
- XrealImuStream: `poll()` has a timeout of 100 ms; signals may interrupt it but
  not for ever, hence SF of `PollTimesOut`.  It wakes when something is to be
  reaped, hence WF of `PollWakes` only then.
- SharedCameraHub: WF of each pump and each closing writer.
- GlassesPermission: the user answers every question in the end.
- PhoneAtwConnection: Android answers a permission request; all waits of the
  control thread are limited; `initialize()` and `accept()` return.
- XrealXbxSession: native calls return, because each of them has a timeout.
- LibusbUsbfs: WF of the event handler (`EventStep`), of a submission under way
  (`SubmitStep`), of a cancellation under way (`DiscardUrb`, `CancelEnds`), and of
  `KernelStep`, by which the kernel gives back what it was told to discard or
  what was on an unplugged device.  It need not complete anything else.
- LibusbIo: WF of each thread and of `Tick`, the passing of time; the device need
  not answer and nobody need cancel.
- LibusbDevices: WF of the thread under the hotplug lock, of init and exit under
  way, of the monitor reading its socket, and of the application handling events,
  as libusb requires of it.

The parts of MCTransports state no fairness: they are checked for safety only.

## 5. What is proved

For every value of the constants, from the named assumptions on them alone
(CommandAssumption: the sentinels are no callers, no packets; ImuAssumption and
HubAssumption: the bounds are naturals and the queue has room for one;
UsbfsAssumption: a URB has room for something; IoAssumption: finitely many
threads, none of them the name of a shared lock or of nobody;
DevicesAssumption: the hub is not the device, and the bounds are naturals).  The
theorems of TransportsProofs and SessionsProofs, and those of ExchangesProofs about
XrealEye and VitureBeast, are about every behaviour of the composition; what each of
the parts needs of its constants is an operator there (OwnerAssumption,
SurfaceAssumption, HandleAssumption, EyeAssumption, VitureAssumption, XbxAssumption,
AtwAssumption and so on), and TransportsAssumption and SessionsAssumption say that
they hold (SurfaceAssumption, that the leased writers are finitely many and the
absent run is none); PermissionAssumption is that of GlassesPermission.

| theorem | of | says |
|---|---|---|
| CommandInvariant, CommandTypeCorrect | XrealUsbCommand | CommandInv is inductive |
| TimedRepliesAreOwn | | a timed call returns the intact reply to its own request or nothing |
| ReceiverIsOnlyReader | | while the receiver runs, no command reads its endpoint |
| NoTransferOnReleasedHandle | | nobody is in a transfer once the handle is released |
| PendingRequestsAreOwned | | a pending request and a published reply belong to the holder of the mutex |
| OfferedRepliesAreReturned | | an intact reply offered to a waiting caller is not lost |
| CommandRefinesChannel | | the command side implements CommandChannel |
| ImuInvariant | XrealImuStream | ImuInv is inductive; a second start ends the process only after the reader ended by itself or beside a close |
| CountIsExact | | the loop's count is the number of URBs not reaped, unless poll() failed |
| QueueStaysFresh | | the queue is bounded, ordered, and newer than what was returned |
| CloseLeavesNothing | | a close that no start raced leaves no reader and no URB |
| HubInvariant, HubTypes | SharedCameraHub | HubInv is inductive |
| RegisteredWritersArePumped | | behind a registered writer is the current reader's own pump |
| OpenReadersHaveOneOwner | | an open reader has exactly one party that will close it |
| OneStaleFrameAtMost | | a replaced pump hands out at most one frame |
| FramesAreInOrder | | a writer's queue is bounded and in the order of its readers' frames |
| UsbfsHoldsInv | LibusbUsbfs | URBs outlive what the kernel does with them; UsbfsInv is inductive |
| UsbfsImplementsTransfer | | a transfer made of URBs implements LibusbTransfer |
| UsbfsReportIsTrue | | the data reported are whole and in order, and what is reported as completed was; ReportIsTrue is inductive with UsbfsInv |
| IoHoldsInv | LibusbIo | locks, list, pipe, poll set and waiters agree, for any number of threads; IoInv is inductive |
| IoImplementsTransfer | | transfers that threads handle together implement LibusbTransfer |
| DevicesHoldsInv | LibusbDevices | reference counts are the holders, the list is what is attached, exit frees the rest; DevicesInv is inductive |
| DevicesAnnounceInOrder | | a callback that was told an object has left is not told of it again |
| TransportsOwnerInv | NativeUsbOwner | what a session holds is closed once, inside out |
| TransportsSurfaceInv | CameraSurfaceStream | a run that no close waits for, and a second owner of a lease, has a close to account for it |
| TransportsHandleInv | LibusbHandle | what libusb records as claimed is claimed, and the converse |
| TransportsBindingInv | NcmBinding | as long as blocks nest, the process is bound as the innermost block says |
| TransportsDpInv | XrealOneDp | answers are for their requests, and what was read stays true |
| TransportsSwitchIsTruthful | | success means that the glasses are set as it says |
| TransportsUvcInv | BeastUvc | a delivered frame is of one JPEG and, if no loss went unseen, all of it; a failed start holds nothing |
| TransportsEyeInv | XrealEye | frames found are frames sent, in order, again so after a cut; an open session has a started camera |
| TransportsVitureInv | VitureBeast | no answer is taken twice or before its time, true is an answered request, a calibration is whole |
| SessionsPermissionInv | GlassesPermission | no request is lost, or answered for other glasses |
| SessionsSessionInv | XrealXbxSession | one handshake, one heartbeat, and a handle that outlives its calls |
| SessionsAtwInv | PhoneAtwConnection | initialize before accept, one late sample at most |

**CommandInv.**  TimedReplyIsOwn alone is not inductive: that the reply taken is
the caller's own needs that what is published matches the pending request, that
the pending request is that of the mutex' holder (PendingInv), and that nothing
stays pending when the mutex is free (NothingPendingInv).  That the receiver
owns its endpoint needs that its start holds the mutex (LockInv) and that callers
choose their path under it (PathInv).  That nothing transfers after the release
needs the order of `close()`: flag, join, mutex, release (CloseInv).  That an offered
reply is returned needs AnsweredInv: what is on its way from the glasses with the
id of the call under way was written by it, so that a packet with this id finds the
request pending or the reply already there.  The
refinement follows step by step: taking and giving back the mutex are Issue and
Finish, all between is a stutter.

**ImuInv.**  That the loop ends with nothing in flight needs the count at each
place the loop relies on it (CountInv): at most the URBs submitted so far,
one less than all with one in hand, none at the end.  That the queue is in order
needs the order along the whole line, completed behind the report in hand behind
the queue behind what was returned (OrderInv), because a step moves a report from
one station to the next.  The close needs that `running` is false from CloseFlag
on and that only a start that had passed its check can make a reader afterwards
(CloseInv).  That a second start ends the process only after the reader ended by
itself, or beside a close, needs that whoever is between the exchange and the
assignment of the thread keeps `streaming` up, and with it every other start out
(RestartInv).

**HubInv.**  Ownership and service depend on each other: that a registered writer
has a pump needs that taking the reader out of the hub empties the writers too;
that a reader has one owner needs that `finish()` gives it up only if it still
holds it, and that a new reader's number was nobody's before (FreshInv).  The one
stale frame needs that a pump looks at the hub before each read (StaleInv).
FramesInOrder needs QueueInv: what a pump has in hand is newer than all that is
queued of its reader where it has still to be offered, a writer taken out of the
targets as soon as it was given the frame, and what open() hands a new writer is
older than what any pump still has in hand.  RoomProperties and OfferedFrames say
what `offer()` does to one queue of any length.

**UsbfsInv.**  That the URBs may be freed when the transfer is reported
(UrbsOutliveKernel) follows from a count: those the code has retired, those the
kernel still has and the one in the handler's hands are all that were submitted
(UrbsAreCounted), `num_retired == num_urbs` then leaves none.  The count is kept
because a URB is reaped once (KernelAgrees) and because a submission that fails half
way counts the URBs it never submitted as retired while it has the lock
(LockIsHeldFor).  Two places free without having counted to the end: an overflow,
which only the last URB can have while the others are done (OverflowIsLast), and
a device that is gone under an older kernel, which forgets what it had.  The
refinement adds why a transfer ends as cancelled (CancelIsReported).

**ReportIsTrue.**  Its first two parts, DataIsWhole and CompletedIsTrue, look at a
transfer that is over; the others say why at each step on the way.  *Order*: a URB
with data is handled after all those before it (OrderIsKept), since the kernel
completes them in order and the handler takes them as they were completed.  *Data*:
what waits to be handled forms a chain (DataFollows): the first URB continues what
`transferred` counts, each next one continues the one before it, the last ends at
what the device has sent, and each begins no later than its place in the buffer, so
that moving the surplus down never overwrites what is still to be moved.  A new
answer is appended to the chain because all that is pending lies behind what was
sent, and right behind it if nothing was short (DataComesInOrder).  *Status*: as
long as nothing has ended the transfer, every URB handled was full (NormalIsFull), so
`transferred` is where the next URB begins and its data need not be moved; the
last full one ends at the length.  A URB that was killed can only be handled then if
a cancellation is on its way or one before it has failed (FailureIsKnown,
CancelKnowsWhy), and a transfer that ended early has a short URB, or one of the
exceptions (EndHasReason).  That the last one is the last is the count of those
handled (RetiredAreHandled).  The start of a URB is a product, so the proof has its own
lemmas about how a length is split (ProductsGrow, SplitFits, Layout).

The exceptions are part of the definition and come from the code: a transfer
reported as short whose URB had failed before its continuation was submitted
(FailedBeforeContinuation), and a cancellation that meets the device's loss, after
which discarded URBs look like short ones (CancelLostDevice).  Both are in section 6.
DataIsWhole says nothing once the device is gone: what its URBs had is lost.

**IoInv.**  Every part needs another one.  That what is removed from the list is
in it (ListIsFlying) needs that a transfer is in the hands of one thread
(TransfersAreHandled), which needs that only one thread reaps, hence the locks'
places (LocksAreHeld), the callback's included: a callback that submits again
keeps the events lock while it is in the submission.  That the list stays ordered
needs lemmas about inserting into and removing from sequences, and that a thread
that clears its deadline is not listed.  That a transfer reported as timed out
was cancelled for its timeout (CancellationsAreAsked) needs that the list is
locked from the cancellation to the mark and that the completion looks at the
mark with the list locked.  That nobody sleeps for ever (WaitersAreWoken) needs
that `active` says whether somebody has the events lock (HandlerIsActive) and
that `device_close` counts those in `libusb_close()` (ClosersAreCounted), which
is a cardinality and the reason why the threads are assumed finite.  That the
read of the event pipe does not block (PipeHasByte) is inductive alone.  The
theorem covers callbacks that close their handle: what goes wrong there
(section 6) is liveness.  The refinement maps the backend taking a transfer to
Submit, both kinds of cancellation to Cancel and the landing of a completion to
Report; all else is a stutter.

**DevicesInv.**  That an object is freed with its last holder and not before is an
account (RefsAreHolders): its count is the number of those who keep it and of the
devices on it.  Each kind of holder has an object at most once, so the account is a
sum of conditions, and a step moves a 1 from one of them to another: connecting from
the step to the list, unlisting from the list to the step, leaving from the step to
the message.  This needs that an object is at most once on the list, in the
messages and in the steps (ListIsAttached, LeftOnce, StepsAreInPlace): a device
waits below its hub's step, and all else that waits is enumeration, which keeps
nothing.  A last reference gives up the parent's, so that the devices on an object
are a cardinality that goes down as the count does; and since a parent is a hub,
which has no parent, the account is settled after two objects.  An arrival's message
keeps nothing: that its object is there all the same is ArrivedIsKept.  That
`libusb_exit()` leaves only what the application kept follows at the end from the
account, when all other holders are empty (ContextIsInOrder).

AnnouncedInOrder is about a step, so it needs to know where an object is once a
callback was told that it has left: in no list, no step and no message queue, and in
the messages being dispatched only as the first, whose turn this callback has had
(LeftIsGone).  That is kept because an object leaves once (LeftOnce), because an
enumeration makes a new object for a device that is not on the list, and because an
object number is not given out again (NotUnusedAgain).

**OwnerInv.**  What is held is what the phase of the session has opened
(HeldIsOpened), closing goes through the phases backwards (ClosedInsideOut), and
the two exceptions, a reader whose join gave up and an open that failed half way,
have parts that say what they may leave (ReaderIsOutlived, FailedOpenLeaves).

**SurfaceInv.**  What can go wrong is a run that nobody waits for.  `Waited` is the
run that the application's `close()` joins, or would if it began now: the one in
the field `thread`, unless its own listener is closing it, or the one just started
that the field does not name yet.  The invariant is that all other live runs are
paid for (RunsAreAccounted), one each by a join that gave up, by a listener's
`close()`, which does not wait for its own run and lets another start beside it,
and by a listener's `close()` that ends by forgetting the thread of a run that has
started between its steps.  A start adds a run where there was none to wait for;
the other steps only move a run from Waited to those that are paid for.  That the
assignment in `start()` names a run still to be waited for needs that a listener
that has closed the run since has taken `running` down (CallsAreInPlace); that
somebody will take `running` back needs that the latest run is the one that set
it (RunsAreInOrder).  It follows that there is one run but for those (OneRun) and
that a stream which the application has closed, or which has ended, has no camera
open if none of this happened (ClosedLeavesNothing).  The lease has the same form:
each owner more than one is paid for by a writer that was closed twice.

**HandleInv.**  That an interface recorded as claimed is held (ClaimedIsHeld) is
broken inside of each call, so the invariant says for each call under way what
holds at its place: a claim has an interface that nobody had claimed, a release
has one that is held until it succeeded, a reset has claimed again those up to the
one it is at.  The kernel driver that binds in between, the detach that runs
without the lock and the failed reset are the exceptions the code cannot know of.

**BindingInv.**  What a block restores is the network it read when it entered, so
the invariant orders the blocks by the moment they entered (EnteredInOrder): while
no two blocks have crossed, each has read the network of the one below it, the
lowest none, and the process is bound for the last (IsBoundFor).  A block that
leaves in order is the last one, and the one below becomes it.

**DpInv.**  Every attempt at a request has a connection of its own, so an answer
can only be late on a connection that is closed.  What is on its way comes in the
order it was sent (RequestsInOrder), the answer that a call waits for is then the
last thing on the wire (AnswerIsLast), it says what the glasses were set to when it
was served (AnswersAreTrue), and a value the session has taken is still applied,
for no request after it is a setter of it (ReadsAreApplied).  That a call nobody
disturbs succeeds is a statement about each of its phases (FaultlessIsOnItsWay).
SwitchIsTruthful follows from DpInv in the phase that reports.

**UvcInv.**  Of a camera that stamps its packets what is assembled carries the stamp
of the last packet, and without stamps nothing can be said of what is mixed; hence
FramesAreNotMixed is about the first kind.  FramesAreWhole is about both: what was
assembled from a start marker on, with no error noted and none unseen, are the parts
of the frame the camera is at, up to the last one sent or what fits
(AssembledIsCurrent), and as nothing that is assembled has an end mark
(AssembledIsNewer), a frame is cut behind the packet that ends it and not before.
The frame of a packet is a quotient of the packets sent; what the proof needs of
division are the lemmas QuotientOfNext, QuotientGrows and QuotientIsBelow.

**EyeInv.**  What the reader finds is sent bytes, so the invariant compares what it
has read and what is still on the wire with the last frame sent: as long as no read
ended in the middle of one, the two together are that frame, or both are empty
(EyeSynchronous), for the camera sends one when nothing is on the wire.  After a cut
the reader may be inside of a frame.  If no payload looks like a frame, the
remainder has no mark, is passed over, and what is found next is aligned again
(EyeResynchronizes); the theorem takes from it an order-preserving map of the frames
found to those sent, which grows by one with each of them.  A frame that is shown is
returned at the place that is the number of those shown up to it, a cardinality that
grows by one with it (EyeShown).  That an open session has a camera that was started
needs what the acknowledgements on their way can be about (EyeControl).

**VitureInv.**  The answers do not name their requests, but requests are served in
order; so all the numbers there are, of those owed behind those not read yet behind
those in the fields or taken, are in order (VitureOrdered), and an answer that is
taken is later than all that were taken before: none is taken twice.  An answer
that is another request's must have lost its own: each display request under way
was abandoned, was given an earlier answer instead, or is waited for
(VitureAccounted), and the one waited for is the last (VitureWaiting).  A true result
rests on the answers and the field that say "done" being of requests that were
carried out (VitureDone).  For the calibration, the bytes read so far are the
segments so far of one reading, whose sequence number and total were noted
(VitureCalibrating).  A response to one request with a status byte in front must not
be mistaken for a response to another without one: whatever a response taken for
segment n answers, what SegmentOf takes out of it is segment n, or has the total 0
that is refused.

**PermissionInv.**  NoRequestLost is a sum over questions, broadcasts and results.
As the sum of a function over the devices it needed induction; counted as the
cardinality of the set of questions it changes by one with each of them.  That a
result names the glasses asked for needs that a request that does not overlap is
the only one under way (OneAtATime).

**SessionInv.**  The handshake is done once because whoever is in it holds the
monitor (MonitorIsHeld); the handle is freed under a call only after a join that
gave up, because of what `close()` has seen to at each of its steps
(ClosedInOrder).

**AtwInv.**  The executor is ever given one task that opens and one that closes, in
this order (TasksInOrder); so what the control thread has reached at each place
(ControlHasReached), and with it the driver and the consumer, is known when a
sample comes (SampleHasReached), wherever `close()` was called in between.

**Only model-checked.**  All liveness (fairness and ENABLED are beyond the
prover), and two properties of safety: SamplesAreParsed and DescriptorInv, whose
parsers and references are recursive over the data, so that a proof would be by
induction over it.

## 6. Where the code and the documents disagree

1. **A late start escapes close()** (`usb_close_race`).
   `xreal_usb_c_api.h:33-34` says that close joins the reader before USB is
   released.  A `start_mcu_stream()` that passed its check of `running_` creates
   the receiver after `close()` has looked for one (`J` lines 106, 142); the
   handle is released with that receiver running.  NoTransferAfterRelease still
   holds: the receiver sees `running_` false before its first transfer; but the
   object with the unjoined thread is deleted.
2. **A result for the wrong glasses** (`permission_device`).
   `requestPermission(glasses)` sets `pendingGlasses` even if it has nothing to
   ask for and nothing clears it (`K/ArGlassesManager.kt:150`); the answer to the
   next `requestPermission(device)` is reported for those glasses, and the device
   asked for gets no result, against the calling pattern of README.md:157-158.
3. **A switch that did not happen** (`dp_claim`).  README.md:539-541 says both the
   EDID and the input mode are verified.  On One Pro and 1S a write without any
   answer counts as confirmed, so a switch can be reported with the input mode
   unchanged.  DpInv and SwitchIsTruthful show what does hold: the claim for the
   One, its half about the EDID for all models.
4. **A close that waits for itself** (`libusb_close_in_callback`).  `L/core.c:1579`
   provides for a `libusb_close()` by the current event handler.  A transfer's
   callback runs with `open_devs_lock` held (`L/os/linux_usbfs.c:2719`), and
   `do_close()` locks it again (`L/core.c:1541`): the call never returns.  No
   session of this library closes its handle in a callback.

Other observations, reachable in the models or read in the code, that no document
contradicts.

*Sessions.*  `start_imu_stream()` after the reader ended by itself terminates the
process, since the thread is still joinable (`J:120`).  Constructors that fail
half way leave their context, handle or claims (`J:54`, `J:419`), so that a later
open may find the interface busy; `XrealNativeUsbSession.close()` leaves its
connection open; a RayNeo whose first write fails leaves its thread reading.
`opening` of the phone connection is never cleared, so after a failure later
starts are ignored in silence.  Overlapping permission requests get each other's
names.  Blocks of `withBoundNetwork()` that cross can leave the process bound.  A
VITURE answer that comes after its request timed out is taken for the next
request of its kind, whose own answer is then late too (lines 46-49 and 126 of
VitureBeastSession.kt); a calibration answer that begins with a zero which is no
status byte may be read as if it were (239-252), and its packet is then refused.

*Cameras.*  A `start()` between the steps of a `close()` that the listener makes on
the run's own thread has its thread joined for up to 1.5 s and then forgotten by it
(`S:799-804`): the application's next `close()` finds no thread and returns with that
run going on, so that one close by a listener can leave two runs unjoined.  An
isochronous transfer that fails as a whole is not noticed
(`silentLoss`), so a frame with a hole can be delivered; `stop()` of the Beast
camera frees the object under a waiting `readFrame()`; a second close of a leased
writer frees the lease of its successor.  The Eye's constructor leaves the video
socket open if the control connection is refused (lines 60-61 of
`K/XrealEyeCamera.kt`); a START whose acknowledgement is lost leaves the glasses
streaming, for no STOP is sent; after a time-out in mid-frame, payload bytes that
look like a frame are taken for one.

*libusb.*  A URB that fails before its continuation is submitted has the transfer
reported as completed and short (`L/os/linux_usbfs.c:2074`).  A cancellation that
meets the loss of the device returns before it notes that it has discarded URBs
(`L/os/linux_usbfs.c:2312`): those it has discarded look like short ones, and the
transfer can be reported as completed.  A callback that
submits again while another thread has already computed the poll's timeout can
have its own timeout pass unnoticed (`L/io.c:2359`).  `parse_configuration()`
leaks the alternate settings of the interface where parsing stopped
(`L/descriptor.c:429`); an ssplus capability is leaked on an error path (1101); a
string asked for into a buffer of length 0 still has its end written (1346); seeking the next
configuration may begin inside of one that claims less (`L/os/linux_usbfs.c:649`).
ARRIVED messages hold no reference; a callback is freed while it is being
enumerated (`L/hotplug.c:412-422`); enumeration at registration may repeat an
arrival and ignores what the callback returns (49-56).  Reading the hotplug
socket stops at the first message it ignores (`L/os/linux_netlink.c:399`), and an
overrun loses messages for good.  Session ids are reused
(`L/os/linux_usbfs.c:1117`); a failed init leaks the devices scanned; a child
whose parent was removed first keeps a dangling context (`L/hotplug.c:176`).

## 7. Plan

The state machines of the library and of libusb are modelled as far as section 8
leaves them, and their safety is proved but for what section 5 lists last.  A
change of the code that a definition maps to starts with that definition, its run
and its mutant, and then the proof step of its action.

Two properties of safety are left to prove: DescriptorInv, what the parsers of
LibusbDescriptor do to the bounds, and SamplesAreParsed of XrealOneImu.  Both need the
recursion over the buffer as a step of its own.

## 8. Not modelled

- Bytes and numbers: report decoders, calibration parsing, CRCs, the NAL types of
  HEVC, the framing of the DP RPC.  They are functions without control; what the
  state machines need of them is given by sets or by tags on the data.
- `SurfaceFrameRenderer` and the decoding of frames: their states are those of
  MediaCodec, EGL and a Surface, which the source does not hold.
- Camera frame readers, LUCI, Grawoow and Rokid Max 2: single calls on a
  UsbSession or a reader, without a thread or a state of their own.  Display mode
  tables, the driver registry and model names: constants.
- Diagnostics and tracing: bounded logs under one lock that feed nothing back.
- The demo application: a user of the library.
- Of libusb: bulk streams, the log, options, string conversion beyond its lengths,
  and the other operating systems' back ends, which the build leaves out.
