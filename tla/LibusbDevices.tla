---------------------------- MODULE LibusbDevices ----------------------------
(***************************************************************************)
(* The devices of one libusb context (core.c, hotplug.c, linux_netlink.c,  *)
(* the enumeration in linux_usbfs.c): who holds a reference to a device,   *)
(* when it is put on the list and taken off it, and how arrivals and       *)
(* departures reach the callbacks.  A hub and a device on it come and go;  *)
(* each time libusb makes a new object of it.  Four parties work on this:  *)
(* the monitor thread that reads netlink messages, the thread that handles *)
(* events, the application, and the thread in libusb_init_context() or     *)
(* libusb_exit().                                                          *)
(*                                                                         *)
(* job is what is done under linux_hotplug_lock, a stack of steps: by whom *)
(* and what remains.  Freed objects stay freed, and a new object is a new  *)
(* number.                                                                 *)
(***************************************************************************)
EXTENDS Integers, Sequences, FiniteSets, FiniteSetsExt, SequencesExt

CONSTANTS
    Hub, Device,    \* the two devices, each with a session id of its own
    MaxObjects,     \* bound on the objects made
    MaxCallbacks,   \* bound on the callbacks registered
    MaxNetlink,     \* messages the netlink socket holds
    MaxChanges,     \* bound on plugging and unplugging
    MaxReferences   \* bound on the references the application takes in all

ASSUME DevicesAssumption == Hub # Device /\ MaxObjects \in Nat /\ MaxNetlink \in Nat

VARIABLES
    present,     \* the devices that are plugged in
    changes,     \* how often one was plugged or unplugged
    netlink,     \* the messages in the socket: <<what, device>>
    overrun,     \* the socket has lost a message
    ctx,         \* the life of the context
    objects,     \* the objects: libusb_device
    usbDevs,     \* ctx->usb_devs, the newest first
    ready,       \* ctx->hotplug_ready
    messages,    \* ctx->hotplug_msgs: <<what, object>>
    callbacks,   \* ctx->hotplug_cbs, with the newest, of the highest number, in front
    needsFree,   \* callbacks that are deregistered
    registered,  \* callbacks made so far
    job,         \* the holder of linux_hotplug_lock and its steps
    handler,     \* the event handler: its messages and the callbacks to come
    app,         \* the application: where it is in a call
    references,  \* references the application holds
    taken,       \* how many it has taken
    handles,     \* objects with an open handle
    dropped,     \* objects whose departure was never announced
    left         \* per callback: the objects it was told have left

deviceVars == <<present, changes, netlink, overrun, ctx, objects, usbDevs, ready, messages, callbacks,
                needsFree, registered, job, handler, app, references, taken, handles, dropped, left>>
world == <<present, changes, netlink, overrun>>
cbVars == <<callbacks, needsFree, registered, left>>
appVars == <<app, references, taken, handles>>

Devices == {Hub, Device}
Object == 1..MaxObjects
Unused == [dev |-> Hub, state |-> "unused", refs |-> 0, attached |-> FALSE, there |-> FALSE, parent |-> 0]
Live(o) == objects[o].state = "live"
NoJob == [by |-> "none", steps |-> <<>>]
Step(do, dev, o) == [do |-> do, dev |-> dev, o |-> o]
IdleHandler == [messages |-> <<>>, todo |-> {}]
IdleApp == [at |-> "idle", cb |-> 0, list |-> <<>>, o |-> 0]

\* libusb_ref_device(), libusb_unref_device(): the last reference frees the object
\* and lets go of its parent; a hub here has none.
Ref(objs, o) == [objs EXCEPT ![o].refs = @ + 1]
Drop(objs, o) ==
    IF objs[o].refs > 1 THEN [objs EXCEPT ![o].refs = @ - 1]
    ELSE [objs EXCEPT ![o].refs = 0, ![o].state = "freed"]
Unref(objs, o) ==
    LET parent == IF objs[o].refs > 1 THEN 0 ELSE objs[o].parent
    IN IF parent = 0 THEN Drop(objs, o) ELSE Drop(Drop(objs, o), parent)

\* list_del(), of what may have been taken off before.
Removed(list, o) ==
    IF o \in Range(list) THEN RemoveAt(list, CHOOSE i \in DOMAIN list : list[i] = o) ELSE list

\* usbi_get_device_by_session_id(): at most one object of a device is on the list.
OnList(d) == {o \in Range(usbDevs) : objects[o].dev = d}

\* Mutant of Notify: the newest message is put first.
NotifyFirst(what, o) == messages' = IF ready THEN <<<<what, o>>>> \o messages ELSE messages

\* usbi_hotplug_notification(): none before the context is ready.
Notify(what, o) == messages' = IF ready THEN Append(messages, <<what, o>>) ELSE messages

DevicesInit ==
    /\ present \in {{}, Devices} /\ changes = 0 /\ netlink = <<>> /\ overrun = FALSE
    /\ ctx = "init" /\ objects = [o \in Object |-> Unused]
    /\ usbDevs = <<>> /\ ready = FALSE /\ messages = <<>>
    /\ callbacks = {} /\ needsFree = {} /\ registered = 0
    /\ job = NoJob /\ handler = IdleHandler /\ app = IdleApp
    /\ references = [o \in Object |-> 0] /\ taken = 0 /\ handles = {}
    /\ dropped = {} /\ left = [cb \in 1..MaxCallbacks |-> {}]

-----------------------------------------------------------------------------
(* The devices, and the kernel that reports them *)

\* The socket is open from linux_netlink_start_event_monitor() on.
Listening == ctx \notin {"init", "stopped", "gone"}

\* A socket that is full loses the message.
Report(reports) ==
    IF Len(netlink \o reports) <= MaxNetlink
    THEN netlink' = netlink \o reports /\ UNCHANGED overrun
    ELSE UNCHANGED netlink /\ overrun' = TRUE

Plug(d) ==
    /\ d \notin present /\ (d = Device => Hub \in present)
    /\ changes < MaxChanges /\ changes' = changes + 1
    /\ present' = present \cup {d}
    /\ IF ~Listening THEN UNCHANGED <<netlink, overrun>> ELSE Report(<<<<"add", d>>>>)
    /\ UNCHANGED <<ctx, objects, usbDevs, ready, messages, cbVars, job, handler, appVars, dropped>>

\* With a hub goes what is on it, and first.
Unplug(d) ==
    LET gone == IF d = Hub THEN present ELSE {d} IN
    /\ d \in present /\ changes < MaxChanges /\ changes' = changes + 1
    /\ present' = present \ gone
    /\ objects' = [o \in Object |-> IF objects[o].dev \in gone THEN [objects[o] EXCEPT !.there = FALSE]
                                    ELSE objects[o]]
    /\ IF ~Listening THEN UNCHANGED <<netlink, overrun>>
       ELSE Report(IF gone = Devices THEN <<<<"remove", Device>>, <<"remove", Hub>>>>
                   ELSE <<<<"remove", d>>>>)
    /\ UNCHANGED <<ctx, usbDevs, ready, messages, cbVars, job, handler, appVars, dropped>>

-----------------------------------------------------------------------------
(* What is done under linux_hotplug_lock *)

Now == Head(job.steps)
Does(do) == job.steps # <<>> /\ Now.do = do
Continue(steps) == job' = [job EXCEPT !.steps = steps \o Tail(@)]

\* linux_enumerate_device(): nothing for a device that is known; an object if the
\* device can be read, otherwise nothing is left of it.
Known(d) == OnList(d) # {}
Enumerate ==
    LET d == Now.dev IN
    /\ Does("add")
    /\ \/ Known(d) \/ d \notin present
       \/ \A o \in Object : objects[o].state # "unused"   \* bound
    /\ Continue(<<>>)
    /\ UNCHANGED <<world, ctx, objects, usbDevs, ready, messages, cbVars, handler, appVars, dropped>>
AllocDevice(o) ==
    LET d == Now.dev IN
    /\ Does("add") /\ ~Known(d) /\ d \in present
    /\ objects[o].state = "unused" /\ \A p \in Object : p < o => objects[p].state # "unused"
    /\ objects' = [objects EXCEPT ![o] = [Unused EXCEPT !.dev = d, !.state = "live", !.refs = 1, !.there = TRUE]]
    /\ Continue(<<Step(IF d = Hub THEN "connect" ELSE "parent", d, o)>>)
    /\ UNCHANGED <<world, ctx, usbDevs, ready, messages, cbVars, handler, appVars, dropped>>

\* linux_get_parent_info(): a parent that is not on the list is enumerated, once.
GetParent ==
    /\ Does("parent") \/ Does("again")
    /\ IF OnList(Hub) # {}
       THEN LET p == CHOOSE p \in OnList(Hub) : TRUE
            IN  /\ objects' = [Ref(objects, p) EXCEPT ![Now.o].parent = p]
                /\ Continue(<<Step("connect", Now.dev, Now.o)>>)
       ELSE /\ UNCHANGED objects
            /\ Continue(IF Does("parent")
                        THEN <<Step("add", Hub, 0), Step("again", Now.dev, Now.o)>>
                        ELSE <<Step("connect", Now.dev, Now.o)>>)
    /\ UNCHANGED <<world, ctx, usbDevs, ready, messages, cbVars, handler, appVars, dropped>>

\* usbi_connect_device(): on the list first, announced after.
Connect ==
    /\ Does("connect")
    /\ objects' = [objects EXCEPT ![Now.o].attached = TRUE]
    /\ usbDevs' = <<Now.o>> \o usbDevs
    /\ Continue(<<Step("arrived", Now.dev, Now.o)>>)
    /\ UNCHANGED <<world, ctx, ready, messages, cbVars, handler, appVars, dropped>>
Arrived ==
    /\ Does("arrived")
    /\ Notify("arrived", Now.o) /\ Continue(<<>>)
    /\ UNCHANGED <<world, ctx, objects, usbDevs, ready, cbVars, handler, appVars, dropped>>

\* linux_device_disconnected(): looked up by the session id, with a reference while
\* it is disconnected.
Disconnect ==
    /\ Does("remove")
    /\ IF ~Known(Now.dev) THEN UNCHANGED objects /\ Continue(<<>>)
       ELSE LET o == CHOOSE o \in OnList(Now.dev) : TRUE
            IN  /\ objects' = [Ref(objects, o) EXCEPT ![o].attached = FALSE]
                /\ Continue(<<Step("unlist", Now.dev, o)>>)
    /\ UNCHANGED <<world, ctx, usbDevs, ready, messages, cbVars, handler, appVars, dropped>>
Unlist ==
    /\ Does("unlist")
    /\ usbDevs' = Removed(usbDevs, Now.o)
    /\ Continue(<<Step("left", Now.dev, Now.o)>>)
    /\ UNCHANGED <<world, ctx, objects, ready, messages, cbVars, handler, appVars, dropped>>

\* Mutant of Left: the reference of the list is dropped with the one of the lookup.
LeftUnrefTwice ==
    /\ Does("left")
    /\ Notify("left", Now.o)
    /\ objects' = Unref(Unref(objects, Now.o), Now.o)
    /\ dropped' = IF ready THEN dropped ELSE dropped \cup {Now.o}
    /\ Continue(<<>>)
    /\ UNCHANGED <<world, ctx, usbDevs, ready, cbVars, handler, appVars>>

\* The message takes over the reference of the list, if there is one.
Left ==
    /\ Does("left")
    /\ Notify("left", Now.o)
    /\ objects' = Unref(objects, Now.o)
    /\ dropped' = IF ready THEN dropped ELSE dropped \cup {Now.o}
    /\ Continue(<<>>)
    /\ UNCHANGED <<world, ctx, usbDevs, ready, cbVars, handler, appVars>>

\* The monitor thread takes the lock for one message, for each context there is.
MonitorReads ==
    /\ Listening /\ job = NoJob /\ netlink # <<>>
    /\ job' = [by |-> "monitor", steps |-> IF ctx = "exit" THEN <<>>
                                           ELSE <<Step(netlink[1][1], netlink[1][2], 0)>>]
    /\ netlink' = Tail(netlink)
    /\ UNCHANGED <<present, changes, overrun, ctx, objects, usbDevs, ready, messages, cbVars, handler, appVars, dropped>>
JobEnds ==
    /\ job.by \in {"monitor", "handler"} /\ job.steps = <<>>
    /\ job' = NoJob
    /\ UNCHANGED <<world, ctx, objects, usbDevs, ready, messages, cbVars, handler, appVars, dropped>>

-----------------------------------------------------------------------------
(* libusb_init_context(), libusb_exit() *)

AppAt(at) == ctx = "open" /\ app.at = at

\* op_init(): the monitor is started before the devices are scanned.
StartMonitor ==
    /\ ctx = "init"
    /\ ctx' = "monitored"
    /\ UNCHANGED <<world, objects, usbDevs, ready, messages, cbVars, job, handler, appVars, dropped>>
ScanDevices ==
    /\ ctx = "monitored" /\ job = NoJob
    /\ ctx' = "scanning"
    /\ \E order \in SetToSeqs(present) :
         job' = [by |-> "init", steps |-> [i \in DOMAIN order |-> Step("add", order[i], 0)]]
    /\ UNCHANGED <<world, objects, usbDevs, ready, messages, cbVars, handler, appVars, dropped>>
Scanned ==
    /\ job.by = "init" /\ job.steps = <<>>
    /\ ctx' = "scanned" /\ job' = NoJob
    /\ UNCHANGED <<world, objects, usbDevs, ready, messages, cbVars, handler, appVars, dropped>>
\* No directory, or no device in it that could be read.
ScanFails ==
    /\ ctx = "monitored" /\ job = NoJob
    /\ ctx' = "failed"
    /\ UNCHANGED <<world, objects, usbDevs, ready, messages, cbVars, job, handler, appVars, dropped>>
\* usbi_hotplug_init(): what happened since the scan has not been announced.
HotplugInit ==
    /\ ctx = "scanned"
    /\ ctx' = "open" /\ ready' = TRUE
    /\ UNCHANGED <<world, objects, usbDevs, messages, cbVars, job, handler, appVars, dropped>>

\* usbi_hotplug_exit(): callbacks, messages, then the list's references; app.list is
\* what it has still to go through.
HotplugExit ==
    /\ AppAt("idle") /\ job = NoJob /\ handler = IdleHandler /\ handles = {}
    /\ ctx' = "exit" /\ callbacks' = {}
    /\ app' = [IdleApp EXCEPT !.at = "exit", !.list = usbDevs]
    /\ UNCHANGED <<world, objects, usbDevs, ready, messages, needsFree, registered, left, job, handler,
                   references, taken, handles, dropped>>
FreeMessage ==
    /\ ctx = "exit" /\ messages # <<>>
    /\ objects' = IF Head(messages)[1] = "left" THEN Unref(objects, Head(messages)[2]) ELSE objects
    /\ messages' = Tail(messages)
    /\ UNCHANGED <<world, ctx, usbDevs, ready, cbVars, job, handler, appVars, dropped>>

\* A device that nothing else keeps is taken off the list, and a parent that only its
\* child keeps (usbi_recursively_remove_parents()).
FreeListed ==
    LET o == Head(app.list)
        p == objects[o].parent
        list == IF objects[o].refs = 1 THEN Removed(usbDevs, o) ELSE usbDevs
    IN  /\ ctx = "exit" /\ messages = <<>> /\ app.list # <<>>
        /\ usbDevs' = IF p # 0 /\ objects[p].refs = 1 THEN Removed(list, p) ELSE list
        /\ objects' = Unref(objects, o)
        /\ app' = [app EXCEPT !.list = Tail(@)]
        /\ UNCHANGED <<world, ctx, ready, messages, cbVars, job, handler, references, taken, handles, dropped>>
\* op_exit(), op_init() that fails: the monitor thread is told to stop and joined.
\* Messages it still reads find no context to tell, if there was an exit.
StopMonitor ==
    /\ ctx = "failed" \/ (ctx = "exit" /\ messages = <<>> /\ app.list = <<>>)
    /\ job = NoJob
    /\ ctx' = "stopped" /\ netlink' = <<>> /\ app' = IdleApp
    /\ UNCHANGED <<present, changes, overrun, objects, usbDevs, ready, messages, cbVars, job, handler,
                   references, taken, handles, dropped>>
\* Objects that are left lose their context, and with it the list.  Those of a
\* context that was never ready nobody frees.
FreeContext ==
    /\ ctx = "stopped"
    /\ ctx' = "gone" /\ usbDevs' = <<>>
    /\ dropped' = IF ready THEN dropped ELSE dropped \cup Range(usbDevs)
    /\ UNCHANGED <<world, objects, ready, messages, cbVars, job, handler, appVars>>

-----------------------------------------------------------------------------
(* The application *)

\* libusb_get_device_list(), for itself and in libusb_hotplug_register_callback():
\* it polls the socket, until a message is of no interest, before it looks.
GetDeviceList ==
    /\ AppAt("idle") /\ app' = [IdleApp EXCEPT !.at = "poll"]
    /\ taken < MaxReferences /\ taken' = taken + 1
    /\ UNCHANGED <<world, ctx, objects, usbDevs, ready, messages, cbVars, job, handler, references, handles, dropped>>
RegisterCallback(enumerate) ==
    /\ AppAt("idle") /\ registered < MaxCallbacks
    /\ registered' = registered + 1 /\ callbacks' = callbacks \cup {registered'}
    /\ app' = IF enumerate THEN [IdleApp EXCEPT !.at = "poll", !.cb = registered'] ELSE app
    /\ UNCHANGED <<world, ctx, objects, usbDevs, ready, messages, needsFree, left, job, handler, references, taken, handles, dropped>>
PollBegins ==
    /\ AppAt("poll") /\ job = NoJob
    /\ job' = [by |-> "poll", steps |-> <<>>]
    /\ UNCHANGED <<world, ctx, objects, usbDevs, ready, messages, cbVars, handler, appVars, dropped>>
PollReads ==
    /\ job.by = "poll" /\ job.steps = <<>> /\ netlink # <<>>
    /\ job' = [job EXCEPT !.steps = <<Step(netlink[1][1], netlink[1][2], 0)>>]
    /\ netlink' = Tail(netlink)
    /\ UNCHANGED <<present, changes, overrun, ctx, objects, usbDevs, ready, messages, cbVars, handler, appVars, dropped>>
PollEnds ==
    /\ job.by = "poll" /\ job.steps = <<>>
    /\ job' = NoJob /\ app' = [app EXCEPT !.at = "copy"]
    /\ UNCHANGED <<world, ctx, objects, usbDevs, ready, messages, cbVars, handler, references, taken, handles, dropped>>
CopyList ==
    LET OneMore(count) == [o \in Object |-> IF o \in Range(usbDevs) THEN count[o] + 1 ELSE count[o]]
        refs == OneMore([o \in Object |-> objects[o].refs])
    IN  /\ AppAt("copy")
        /\ objects' = [o \in Object |-> [objects[o] EXCEPT !.refs = refs[o]]]
        /\ IF app.cb = 0 THEN references' = OneMore(references) /\ app' = IdleApp
           ELSE app' = [app EXCEPT !.at = "enumerate", !.list = usbDevs] /\ UNCHANGED references
        /\ UNCHANGED <<world, ctx, usbDevs, ready, messages, cbVars, job, handler, taken, handles, dropped>>
\* When the new callback was told of each, without a lock; what it answers is ignored.
FreeDeviceList ==
    /\ AppAt("enumerate")
    /\ IF app.list = <<>> THEN app' = IdleApp /\ UNCHANGED objects
       ELSE app' = [app EXCEPT !.list = Tail(@)] /\ objects' = Unref(objects, Head(app.list))
    /\ UNCHANGED <<world, ctx, usbDevs, ready, messages, cbVars, job, handler, references, taken, handles, dropped>>
DeregisterCallback(cb) ==
    /\ AppAt("idle") /\ cb \in callbacks
    /\ needsFree' = needsFree \cup {cb}
    /\ UNCHANGED <<world, ctx, objects, usbDevs, ready, messages, callbacks, registered, left, job, handler, appVars, dropped>>

UnrefDevice(o) ==
    /\ app.at = "idle" /\ ctx \in {"open", "gone"} /\ references[o] > 0
    /\ references' = [references EXCEPT ![o] = @ - 1] /\ objects' = Unref(objects, o)
    /\ UNCHANGED <<world, ctx, usbDevs, ready, messages, cbVars, job, handler, app, taken, handles, dropped>>

\* libusb_open(), op_open(): a device that is no longer there is disconnected if
\* nobody has done it yet.
Open(o) ==
    /\ AppAt("idle") /\ references[o] > 0 /\ o \notin handles /\ objects[o].attached
    /\ objects' = Ref(objects, o)
    /\ IF objects[o].dev \in present THEN handles' = handles \cup {o} /\ UNCHANGED app
       ELSE app' = [IdleApp EXCEPT !.at = "open", !.o = o] /\ UNCHANGED handles
    /\ UNCHANGED <<world, ctx, usbDevs, ready, messages, cbVars, job, handler, references, taken, dropped>>
OpenFinds ==
    /\ AppAt("open") /\ job = NoJob
    /\ job' = [by |-> "open", steps |-> IF objects[app.o].attached
                                        THEN <<Step("remove", objects[app.o].dev, 0)>> ELSE <<>>]
    /\ UNCHANGED <<world, ctx, objects, usbDevs, ready, messages, cbVars, handler, appVars, dropped>>
OpenFails ==
    /\ job.by = "open" /\ job.steps = <<>>
    /\ job' = NoJob /\ app' = IdleApp /\ objects' = Unref(objects, app.o)
    /\ UNCHANGED <<world, ctx, usbDevs, ready, messages, cbVars, handler, references, taken, handles, dropped>>
Close(o) ==
    /\ AppAt("idle") /\ o \in handles
    /\ handles' = handles \ {o} /\ objects' = Unref(objects, o)
    /\ UNCHANGED <<world, ctx, usbDevs, ready, messages, cbVars, job, handler, app, references, taken, dropped>>

-----------------------------------------------------------------------------
(* The thread that handles events *)

HandlerIdle == ctx = "open" /\ handler = IdleHandler /\ job.by # "handler"

\* op_handle_events(): a handle with an error, under linux_hotplug_lock.
HandleError(o) ==
    /\ HandlerIdle /\ job = NoJob /\ o \in handles /\ ~objects[o].there /\ objects[o].attached
    /\ job' = [by |-> "handler", steps |-> <<Step("remove", objects[o].dev, 0)>>]
    /\ UNCHANGED <<world, ctx, objects, usbDevs, ready, messages, cbVars, handler, appVars, dropped>>

\* handle_event_trigger() takes all messages.
TakeMessages ==
    /\ HandlerIdle /\ messages # <<>>
    /\ handler' = [messages |-> messages, todo |-> callbacks] /\ messages' = <<>>
    /\ UNCHANGED <<world, ctx, objects, usbDevs, ready, cbVars, job, appVars, dropped>>

\* usbi_hotplug_process(): one that has deregistered is skipped; one that says it
\* is finished is freed.  A callback may take a reference.
Message == Head(handler.messages)
Newest == CHOOSE cb \in handler.todo : \A c \in handler.todo : c <= cb
SkipCallback ==
    /\ handler.todo # {} /\ Newest \in needsFree
    /\ handler' = [handler EXCEPT !.todo = @ \ {Newest}]
    /\ UNCHANGED <<world, ctx, objects, usbDevs, ready, messages, cbVars, job, appVars, dropped>>
RunCallback(finished, takes) ==
    LET cb == Newest
        o == Message[2]
    IN  /\ handler.todo # {} /\ cb \notin needsFree
        /\ handler' = [handler EXCEPT !.todo = @ \ {cb}]
        /\ callbacks' = IF finished THEN callbacks \ {cb} ELSE callbacks
        /\ left' = IF Message[1] = "left" THEN [left EXCEPT ![cb] = @ \cup {o}] ELSE left
        /\ takes => Message[1] = "arrived" /\ taken < MaxReferences
        /\ IF takes THEN /\ objects' = Ref(objects, o) /\ references' = [references EXCEPT ![o] = @ + 1]
                         /\ taken' = taken + 1
           ELSE UNCHANGED <<objects, references, taken>>
        /\ UNCHANGED <<world, ctx, usbDevs, ready, messages, needsFree, registered, job, app, handles, dropped>>

\* Mutant of MessageDone: the message of a departure keeps its reference.
MessageDoneKeeps ==
    LET rest == Tail(handler.messages) IN
    /\ handler.messages # <<>> /\ handler.todo = {}
    /\ UNCHANGED objects
    /\ handler' = IF rest = <<>> THEN IdleHandler ELSE [messages |-> rest, todo |-> callbacks]
    /\ callbacks' = IF rest = <<>> THEN callbacks \ needsFree ELSE callbacks
    /\ UNCHANGED <<world, ctx, usbDevs, ready, messages, needsFree, registered, left, job, appVars, dropped>>

\* A departure drops the reference; deregistered callbacks are freed at the end.
MessageDone ==
    LET rest == Tail(handler.messages) IN
    /\ handler.messages # <<>> /\ handler.todo = {}
    /\ objects' = IF Message[1] = "left" THEN Unref(objects, Message[2]) ELSE objects
    /\ handler' = IF rest = <<>> THEN IdleHandler ELSE [messages |-> rest, todo |-> callbacks]
    /\ callbacks' = IF rest = <<>> THEN callbacks \ needsFree ELSE callbacks
    /\ UNCHANGED <<world, ctx, usbDevs, ready, messages, needsFree, registered, left, job, appVars, dropped>>

FreeDeregistered ==
    /\ HandlerIdle /\ messages = <<>> /\ needsFree \cap callbacks # {}
    /\ callbacks' = callbacks \ needsFree
    /\ UNCHANGED <<world, ctx, objects, usbDevs, ready, messages, needsFree, registered, left, job, handler, appVars, dropped>>

-----------------------------------------------------------------------------

Locked == Enumerate \/ GetParent \/ Connect \/ Arrived \/ Disconnect \/ Unlist \/ Left
          \/ JobEnds \/ Scanned \/ PollEnds \/ OpenFails \/ \E o \in Object : AllocDevice(o)
Initialise == StartMonitor \/ ScanDevices \/ ScanFails \/ HotplugInit
HandleEvents == TakeMessages \/ SkipCallback \/ MessageDone \/ FreeDeregistered
                \/ \E finished, takes \in BOOLEAN : RunCallback(finished, takes)
InCall == PollBegins \/ CopyList \/ FreeDeviceList \/ OpenFinds

DevicesNext ==
    \/ Locked \/ Initialise \/ HandleEvents \/ InCall \/ MonitorReads \/ PollReads
    \/ \E d \in Devices : Plug(d) \/ Unplug(d)
    \/ HotplugExit \/ FreeMessage \/ FreeListed \/ StopMonitor \/ FreeContext \/ GetDeviceList
    \/ \E enumerate \in BOOLEAN : RegisterCallback(enumerate)
    \/ \E cb \in 1..MaxCallbacks : DeregisterCallback(cb)
    \/ \E o \in Object : UnrefDevice(o) \/ Open(o) \/ Close(o) \/ HandleError(o)

\* The threads of libusb run, and the application handles events.
DevicesFairness ==
    /\ WF_deviceVars(Locked) /\ WF_deviceVars(Initialise) /\ WF_deviceVars(HandleEvents)
    /\ WF_deviceVars(InCall) /\ WF_deviceVars(MonitorReads)

DevicesSpec == DevicesInit /\ [][DevicesNext]_deviceVars /\ DevicesFairness

-----------------------------------------------------------------------------
(* Properties *)

Changes == {"arrived", "left"} \X Object
DevicesTypeOK ==
    /\ present \subseteq Devices /\ netlink \in Seq({"add", "remove"} \X Devices) /\ overrun \in BOOLEAN
    /\ ctx \in {"init", "monitored", "scanning", "scanned", "failed", "open", "exit", "stopped",
                "gone"}
    /\ objects \in [Object -> [dev : Devices, state : {"unused", "live", "freed"}, refs : Nat,
                               attached : BOOLEAN, there : BOOLEAN, parent : {0} \cup Object]]
    /\ usbDevs \in Seq(Object) /\ ready \in BOOLEAN
    /\ messages \in Seq(Changes)
    /\ handler \in [messages : Seq(Changes), todo : SUBSET Nat]
    /\ job \in [by : {"none", "monitor", "handler", "init", "poll", "open"},
                steps : Seq([do : {"add", "parent", "again", "connect", "arrived", "remove", "unlist",
                                   "left"}, dev : Devices, o : {0} \cup Object])]
    /\ app \in [at : {"idle", "poll", "copy", "enumerate", "open", "exit"}, cb : Nat,
                list : Seq(Object), o : Nat]
    /\ references \in [Object -> Nat] /\ handles \subseteq Object /\ dropped \subseteq Object
    /\ callbacks \subseteq Nat /\ registered \in Nat

\* libusb_init_context(), libusb_exit(): what there is in each state of the context, and
\* whose the lock is.
ContextIsInOrder ==
    /\ ctx \in {"open", "exit"} => ready
    /\ ready => ctx \in {"open", "exit", "stopped", "gone"}
    /\ ctx # "open" => handles = {} /\ handler.messages = <<>>
    /\ handler.todo # {} => handler.messages # <<>>
    /\ app.at # "idle" => ctx = IF app.at = "exit" THEN "exit" ELSE "open"
    /\ ctx = "exit" => app.at = "exit"
    /\ app.at \in {"idle", "poll", "copy", "open"} => app.list = <<>>
    /\ app.at = "open" => app.o \in Object
    /\ ctx = "exit" /\ messages # <<>> => app.list = usbDevs
    /\ ctx \in {"init", "stopped", "gone"} => job = NoJob
    /\ ctx = "exit" => job.steps = <<>>
    /\ ctx = "scanning" <=> job.by = "init"
    /\ job.by \in {"poll", "open"} => app.at = job.by
    /\ messages # <<>> => ready /\ ctx \in {"open", "exit"}
    /\ ctx = "gone" => usbDevs = <<>>

\* What is connected or disconnected under the lock: a device that waits for its parent
\* may have a step waiting below that of its parent; the rest is enumeration.
Connecting == {"parent", "again", "connect"}
StepIsPlaced(i) ==
    \/ job.steps[i].do = "add" \/ i = 1
    \/ /\ i = 2 /\ job.steps[i].do = "again"
       /\ job.steps[1].dev = Hub /\ job.steps[1].do \in {"add", "connect", "arrived"}
StepIsTrue(s) ==
    /\ s.do \in {"parent", "again"} => s.dev = Device /\ objects[s.o].parent = 0
    /\ s.do \in {"add", "remove"} <=> s.o = 0
    /\ s.o # 0 => objects[s.o].dev = s.dev
    /\ s.do \in Connecting => Live(s.o) /\ ~objects[s.o].attached /\ ~Known(s.dev)
    /\ s.do \in {"arrived", "unlist"} => s.o \in Range(usbDevs)
    /\ s.do \in {"unlist", "left"} => ~objects[s.o].attached
    /\ s.do = "left" => s.o \notin Range(usbDevs)
StepsAreInPlace ==
    /\ job.by = "none" => job.steps = <<>>
    /\ \A i \in DOMAIN job.steps : StepIsPlaced(i) /\ StepIsTrue(job.steps[i])

\* libusb_exit() has given up the references of the list.
Exited == ready /\ ctx = "stopped"

\* What keeps an object: the list, until libusb_exit() has been there; the message that
\* it has left; the steps it is in, that with which it leaves with two references; the
\* list that the application was given, its references and handles.
Listed(o) == o \in Range(IF ctx = "exit" THEN app.list ELSE IF Exited THEN <<>> ELSE usbDevs)
Given(o) == ctx # "exit" /\ o \in Range(app.list)
Leaving(o) == \E i \in DOMAIN messages : messages[i] = <<"left", o>>
LeavingNow(o) == \E i \in DOMAIN handler.messages : handler.messages[i] = <<"left", o>>
InStep(o, dos) == \E i \in DOMAIN job.steps : job.steps[i].o = o /\ job.steps[i].do \in dos
Opening(o) == app.at = "open" /\ app.o = o

One(b) == IF b THEN 1 ELSE 0
Holders(o) ==
    One(Listed(o)) + One(Given(o)) + One(Leaving(o)) + One(LeavingNow(o))
    + One(InStep(o, Connecting \cup {"unlist"})) + 2 * One(InStep(o, {"left"}))
    + references[o] + One(o \in handles) + One(Opening(o)) + One(o \in dropped)
Children(objs, o) == {c \in Object : objs[c].state = "live" /\ objs[c].parent = o}

\* libusb_unref_device(): the count is the number of holders and devices on it, so what
\* is held is there.
Counts(objs, holders) ==
    \A o \in Object :
        IF objs[o].state = "live"
        THEN objs[o].refs > 0 /\ objs[o].refs = holders[o] + Cardinality(Children(objs, o))
        ELSE holders[o] = 0 /\ Children(objs, o) = {}
RefsAreHolders ==
    /\ Counts(objects, [o \in Object |-> Holders(o)])
    /\ \A o \in Range(usbDevs) : Live(o)
    /\ \A o \in Object : Live(o) /\ objects[o].parent # 0 =>
         objects[o].dev = Device /\ objects[objects[o].parent].dev = Hub

\* usbi_connect_device(), usbi_disconnect_device(): one object of a device, and it is
\* attached unless it is just being taken off.
ListIsAttached ==
    /\ IsInjective(usbDevs) /\ IsInjective(app.list)
    /\ \A d \in Devices : \A o, q \in OnList(d) : o = q
    /\ \A o \in Object : Live(o) /\ ~Exited /\ ctx \notin {"exit", "gone"} =>
         (o \in Range(usbDevs) <=> objects[o].attached \/ InStep(o, {"unlist"}))

\* usbi_hotplug_notification(): an object leaves once and is not heard of any more; an
\* arrival holds nothing, and what has arrived is there all the same.
LeftOnce ==
    /\ \A o \in Object : Leaving(o) \/ LeavingNow(o) \/ o \in dropped =>
         /\ o \notin Range(usbDevs) /\ \A i \in DOMAIN job.steps : job.steps[i].o # o
         /\ o \in dropped => ~Leaving(o) /\ ~LeavingNow(o)
    /\ \A i, j \in DOMAIN messages : i < j /\ messages[i][1] = "left" => messages[i][2] # messages[j][2]
    /\ \A i, j \in DOMAIN handler.messages :
         i < j /\ handler.messages[i][1] = "left" => handler.messages[i][2] # handler.messages[j][2]
    /\ \A i \in DOMAIN handler.messages, j \in DOMAIN messages :
         handler.messages[i][1] = "left" => handler.messages[i][2] # messages[j][2]
Kept(o) == o \in Range(usbDevs) \/ InStep(o, {"left"}) \/ Leaving(o)
ArrivedIsKept ==
    /\ \A i \in DOMAIN messages : Kept(messages[i][2])
    /\ \A i \in DOMAIN handler.messages :
         Kept(handler.messages[i][2]) \/ LeavingNow(handler.messages[i][2])
    /\ \A o \in Object : InStep(o, Connecting) =>
         /\ \A i \in DOMAIN messages : messages[i][2] # o
         /\ \A i \in DOMAIN handler.messages : handler.messages[i][2] # o

\* libusb_exit(): what is left is what the application kept, and what is on it.
ExitFreesTheRest ==
    Exited \/ ctx = "gone" \/ (ctx = "exit" /\ messages = <<>> /\ app.list = <<>>) =>
        \A o \in Object : Live(o) => \/ references[o] > 0 \/ o \in dropped
                                     \/ Children(objects, o) # {}

DevicesInv ==
    /\ DevicesTypeOK /\ ContextIsInOrder /\ StepsAreInPlace /\ RefsAreHolders
    /\ ListIsAttached /\ LeftOnce /\ ArrivedIsKept /\ ExitFreesTheRest

\* usbi_hotplug_process(): a callback that was told a device has left is not told
\* again of the same object.
AnnouncedInOrder ==
    [][\A cb \in 1..MaxCallbacks :
         cb \in handler.todo /\ handler'.todo = handler.todo \ {cb}
           /\ cb \notin needsFree => Message[2] \notin left[cb]]_deviceVars

\* The monitor, the event handler: unless the socket overran, a device that is gone is
\* taken off the list, and its object is freed when the application keeps nothing of it.
UnpluggedIsFreed ==
    \A o \in Object :
        (Live(o) /\ ~objects[o].there /\ ctx = "open")
          ~> \/ ~Live(o) \/ overrun \/ ctx # "open" \/ o \in dropped
             \/ references[o] > 0 \/ o \in handles \/ \E c \in Object : Live(c) /\ objects[c].parent = o
=============================================================================
