# TLA+ models of the Zenbedded stack

This directory verifies the core of `zephyr-zenoh-integration`: firmware
libraries that let a Zephyr microcontroller talk to ROS 2 over Zenoh without an
agent, and the `ros2_control` hardware interface at the other end.

## The system

| Part | State | Operations | Talks to |
|---|---|---|---|
| **Double buffers** (`zenbedded_rcl/src/zenbedded_client.cpp`) | two slots of bytes, active index, one version per slot; for commands an accepted counter | write a slot and flip; read with retry | application thread, control thread, Zenoh read task |
| **Client** (`ZenbeddedClient`, same file and `zenbedded_client.hpp`) | initialized flag, handles, payload sizes, control frequency, thread flags | `init`, `destroy`, `start_thread`, `stop_thread`, `zenoh_publish_state`, control thread, command callback | transport (calls), application (API) |
| **Transport** (`zenbedded_transport/src/zenoh_transport.c`) | one static session, pools of ten publishers and ten subscribers, liveliness tokens, the attachment of a publication | init, destroy, declare, publish, receive handler | zenoh-pico (external) |
| **CDR serialization and codecs** (`serialization.c`, `codecs.hpp`) | precomputed offsets of a message template | init template, patch fields, read fields | client |
| **Pendulum firmware** (`demos/inverted_pendulum/*`) | last command count, watchdog cycles, velocity, stepper | start-up, control loop | client, stepper and encoder drivers |
| **Hardware interface** (`zenbedded_hardware_interface`) | `RealtimeBuffer` of the last state, command and state vectors, session | life cycle callbacks, `read`, `write`, Zenoh callback | controller manager, Zenoh |
| **Sine wave demo** (`demos/sine_wave`) | controller: phase clock; firmware: amplitude, "command seen" flag | controller life cycle and update; firmware loop | hardware interface, client |
| **Tier 2 transport test** (`demos/zenbedded_tier2_transport_test`) | board: latest command, binary semaphore; host: event | command callback, motor thread; send, wait, recover | each other, over UDP |
| **Interface schema** (`interface_schema.cpp`, `generate_tier2_payload.py`) | field list with types | packed layout of Tier 2 payloads on both sides | hardware interface, firmware build |

What is hard in it: the buffers are shared by threads without locks; every Zenoh
call may fail in the middle of a sequence; a control thread is stopped by a flag,
a join with a time limit and, failing that, an abort; commands are best effort;
boards are reset and host components deactivated while the other side goes on;
and the stepper driver may refuse any call. `PROJECT.json` lists these hazards
line by line, with the property that covers each.

Correctness, part by part:

* buffers: no torn read, no outdated read, no reader blocked by a stalled writer,
  a counted command can be read;
* client: at most one control thread, which never outlives its publisher; flags
  that tell the truth between calls; every call returns, unless a send hangs in
  the network or an aborted thread has kept the mutex; failures leave nothing
  that runs;
* transport: handles, tokens and session appear and vanish together; the damage
  of two overlapping publications ends with them;
* pendulum: a stale command stops the motor within a known number of cycles, and
  no accepted command is lost; the published angle of each sensor follows the rig,
  whatever failed for a while;
* CDR: what the firmware publishes is what ROS 2 would serialize, and a command
  that passes the size check is read from the right offsets; a client
  whose template has overrun its slot is refused;
* schema: host and firmware derive the same packed layout from a document without
  repeated keys, or the generator fails; no field disturbs another, and each
  arrives converted to its type and to the nearest double;
* hardware interface: states are whole and go back only to a late message of an
  earlier session, a stored state is shown in the end, no NaN is published, and a
  publisher of a replaced session remains only after a `put()` has thrown;
* demos: no wake-up is lost and a stalled loop recovers; a restarted board
  catches up with the host; nothing of an earlier activation is taken for new.

## Modules

`DoubleBuffer` models both buffers. `Counting` selects the command buffer, whose
writer also counts. Each load and store of the index, of a version and of the
counter is a step (`LoadIndex`, `LoadVersion`, `RecheckIndex`, `RecheckVersion`;
`PrepareSlot`, `IncVersion`, `FlipActive`, `CountAccepted`), and the two
`memcpy()`s are steps per byte in any order (`CopyByte`, `WriteByte`), so the
race on the bytes shows every mixture. Steps are in program order: Zephyr's
atomics are sequentially consistent, the copies cannot move across the fences
and the loads beside them; weaker orders are not modelled. The payload of write
*n* has *n* in each byte. `committed`, `begun`, `from`, `lap` and `sample` are
history variables. There is one writer per buffer, which is how the client uses
them and what `Client!NoCallbackIntoReset` supports.

`AtomicRegister` is the promise: a register that holds a whole payload, with
reads that take effect at one instant. `DoubleBuffer` instantiates it as `AR`: a
write takes effect in `FlipActive`, a read in the `RecheckIndex` after which the
version turns out unchanged; a look that fails the version check is discarded.

`Transport` has the statics of `zenoh_transport.c` and one action per function,
with the return value as last parameter. Calls to zenoh-pico that can fail do so
at will; results that the code ignores (tasks, liveliness tokens) come out either
way. Texts of key expressions are left out, and the attachment of a
publication is in `PublishCall`.

`Client` extends `Transport`. `app` is the position of the application inside a
call, `then` the place `stop_thread()` returns to (the user, `start_thread()` or
`destroy()`), `tpc` the position of the control thread. Between any two of those
positions the other threads may run. The buffers are single steps here, which
`DoubleBuffer` justifies. Freeing and resetting follow the code: `pub_` keeps its
value after a failed `init()`, `cmd_payload_size_` is assigned before it is
checked, `control_freq_` is cleared after the join.

A put of zenoh-pico, and the undeclaration in `destroy()`, run under a mutex of the
session (`mutex`, external). The control thread and an application that calls
`zenoh_publish_state()` wait for it and send in two steps each (`ThreadLock`,
`ThreadSend`; `AppLock`, `AppSend`); a send may hang for ever with the mutex held. The
abort of the control thread may hit it inside its send, and then nobody releases
the mutex (`mutex = "dead"`): a put and `destroy()` wait for ever, and `Hang` marks
that state as a place where the program may stop.

`PublishCall` opens up `zenbedded_transport_publish()` of Tier 1, which `Client`
takes as one step: clock, load and store of the sequence number, the words of the
stamp, and the copy that zenoh-pico makes of the shared attachment. The control
thread and an application that calls `zenoh_publish_state()` are both inside. The
clock may show any time at any call: `CLOCK_REALTIME` can be set, and
`sync_time_from_ntp()` of the pendulum does so.

`Pendulum` is `main()` of the firmware of both tiers: start-up stages that each
may end the program (the last are `CalibrateStepper` and `Calibrate`), then the loop
`SenseStepper`, `SenseEncoder`, `WriteState`, `LoadCount`, `ReadCommand`, `Apply`.
The two differ in one stage: Tier 1 synchronises its clock (`SyncTime`, whose
failure the code ignores), and a behaviour takes that stage or not. The position of
the stepper and the encoder have offsets of their own and fail for themselves, and
`Move` changes either at any time. The command buffer is an
atomic register; storing and counting a command are two steps of the read task.
A command may carry any velocity at any time, which
covers loss, repetition and reordering in the network. `DriveFails` has the three
ways in which a driver call can be refused.

`CdrMessages` is Tier 1's wire format. `zcdr_init_joint_state` and
`zcdr_init_joint_command` move a cursor through the template exactly as
`serialization.c` does; `write_state` patches the slot that is not active,
`Receive` compares sizes and stores, `read_command` takes stamp and values from
the computed offsets. `init_base` compares sizes only after the templates are in
the slots, as the code does; `overrun` says that something went beyond its slot.
The operators `Ref...` are the serializer of ROS 2, written
from the rules of CDR and marked external. The eight bytes of a double all hold
one number, which differs for every array, message and joint, so any shift shows.

`InterfaceSchema` is Tier 2's wire format. `from_yaml` (C++) and `generate_header`
(Python) lay out the same document; the compiler's packed struct is external. A
section of a document is a sequence of components with their fields, each with its
key. yaml-cpp iterates over all pairs and over nothing where a mapping is missing
(`NoMap`); PyYAML keeps the last value of a repeated key at its first place, and
`.items()` of something that is no mapping raises. `state` and `command` themselves
occur once.

Numbers are counted in halves so that a conversion to an integer cuts something
off. Which numbers a double and a float can hold, and the limits of the integer types,
are constants (`Float64s`, `Float32s`, `Limits`). `static_cast[t][h]` is the set of
outcomes of the cast of `h`: cut off in range, undefined beyond it (the low bytes
or the nearest limit), the nearest float or infinity for `float32`. Reading a field
yields the nearest double, which for a `uint64` need not be what the field holds.
NaN is not among the numbers. The bytes of a value are tokens for it, except that
0 is the zeros of a fresh buffer.

`HardwareInterface` is the plugin of the host. The controller manager, the
control loop and the Zenoh callback are three actors; `read()` converts one field
per step and the callback copies one field per step. `RealtimeBuffer` is external
(two copies, a lock the reader only tries). `on_activate` may fail at each of its
three calls, and `Recover` lets the manager try again with what was left over.
Each session has a callback of its own, which may end after its subscriber was
reset and overlap that of a later session. A `put()` may throw out of `write()`: the
component is then in error with publisher, subscriber and session as they were, and
`on_deactivate()` is not called.

`SineWave` composes the two ends: the controller and the command path of the
hardware interface in the cycle of the controller manager, a network that loses,
delays and reorders, and the firmware, which may be restarted. Time is the phase
of the sine in quarters, so that the command takes each sign and zero. The life
cycle of `ZenbeddedHardware` is reduced to what becomes of its command;
`HardwareInterface` has the rest.

`PingPong` is the Tier 2 transport test. On the board the read task copies a
command word by word and gives a semaphore (`ReceiveCommand`, `CopyWord`,
`Give`), the motor thread takes it, loads the words and publishes (`Take`,
`LoadWord`, `Publish`); on the host the state callback and the main thread share
an event (`state_callback`, `Wait`, `ClearEvent`, `PutCommand`). `Reset` restarts
the board. Efforts are numbered modulo `EffortMod`. A double is copied in
`Words`, so a velocity may mix two commands. The host looks into no state that it
receives, so only the presence of states in flight is kept.

Each module `MC...` is the instance of the module of that name for TLC; each
module `...Proofs` holds the theorems about one model (`HardwareProofs` those about
`HardwareInterface`, `WireFormatProofs` those about `InterfaceSchema` and
`CdrMessages`). Definitions whose comment begins with
"Mutant of" are deliberate mistakes; they are not part of any specification and
exist to show that each property can fail.

## Runs

| Run | Shows | Bounds |
|---|---|---|
| `command_buffer` | types, `NoTornRead`, `FreshRead`, `CountedIsReadable`, `RetryHasCause`, `ReadReturns`, refinement of `AtomicRegister` | 1 reader, 2 bytes, 7 writes, versions modulo 3 |
| `client` | `RunningIsTruthful`, `NoZeroDivision`, `NoCallbackIntoReset`, `InitializedIsComplete`, `ThreadObjectIsFree`, `DestroyFreesAll`, `CallReturns`, `KeepsPublishing` | Tier 1 with tokens, pools of 2 publishers and 1 subscriber, frequencies 0 and 50, sizes that fit and that do not, 1 accepted command |
| `publish_call` | `AloneIsExact`, `OrderedBetweenOverlaps` | 2 callers, 4 calls, 2 times that the clock may show in any order, stamps of two words, symmetry |
| `pendulum` | `StaleCommandStops`, `LastCommandWins`, `EventuallyStops`, `StateFollowsRig` | 2 commands, 2 positions of each sensor, time limit 1 cycle, six kinds of velocity, both tiers |
| `cdr_messages` | `JointStateConforms`, `JointCommandConforms`, `ReadFindsValues`, `OverrunIsRefused` | 3 messages; each array given or not; 0 to 2 joints; strings that differ with and without a change of size, and two that are too long for the slot |
| `interface_schema` | `WireCompatible`, `CommandsArrive`, `StatesArrive` | all pairs of types, two components that shift a type by one byte, unknown types, sections that are missing or empty, keys without a mapping, repeated keys; types with few bits; four doubles |
| `hardware` | `StatesAreOneMessage`, `CommandsAreNumbers`, `PublisherIsAlive`, `StatesGoForward`, `StoredIsShown` | 2 state fields and 1 command field, 3 messages, 3 sessions |
| `ping_pong` | `LastCommandIsAnswered`, `LoopRecovers` | a double of two words, efforts modulo 2, 1 reset |
| `sine_wave` | `PhaseFollowsActivation`, `CommandIsLastComputed`, `DefaultUntilCommand`, `BoardFollows` | 4 phases, 1 restart, any number of activations and cycles |
| `destroy_after_failed_init`, `init_without_thread`, `template_overrun` | violations, see below | smallest instance that shows them |

Two bytes are enough to tell a torn payload. With versions modulo 3 and seven
writes each counter wraps; `MaxLap` (increments of its slot that one attempt
overlaps) stays one below the modulus, which is the assumption the real 32-bit
counter makes: no attempt is preempted for 2^32 writes of its slot. The state
buffer is the same algorithm without the count, read by two threads; readers
write nothing that is shared, so one of them sees all that two could, and the
theorems below hold for any set of readers. A pool of two publishers allows one
leaked slot and one in use, and exhaustion. The control flow of `Client` does not
depend on the tier: Tier 2 has no tokens, which Tier 1 may fail to get, and a
smaller receive bound. A time limit of one
cycle has a cycle that waits and one that stops; the bound of
`StaleCommandStops` (`TimeoutCycles + 3`) is tight: one cycle less is violated,
by a command that is counted just after the loop has looked. Two positions let
each sensor move after its calibration and back.

`cdr_messages` needs three writes because a slot is written for the second time
in the third; with one pair of names the templates are longer than the slot, with
the others they fit, so both sides of the size check occur and the overrun before it
does too. Its sender of commands
may have another number of joints than the firmware; such a payload can pass the size check by accident of its strings, and then its
values are read from the wrong place: `ReadFindsValues` speaks of commands with
the right number. In `interface_schema` `uint8` has 2 bits, `int16` 3, `int32` 4 and
`uint64` 6, a float has 3 digits and a double 5: as with the real widths, `int16`
fits into a float, `int32` into a double only and `uint64` into neither. The four
numbers are a fraction, a negative one (which wraps), one without a double and
one beyond the floats; the theorems hold for every width. Three sessions
allow a publisher left by a `put()` that threw, an activation that replaces its
session and fails, and one that repeats it over what is left; and callbacks of
three sessions at once. In `hardware` messages are
bounded; with endless messages a `read()` could meet the lock each time, which no
scheduling assumption of the code excludes.

Two efforts are enough in `ping_pong`: the command in the buffer and the one that
arrives. Four calls in `publish_call` allow an overlap, a failure and a call alone
after both.

Deadlock is checked except where the program may stop: `main()` of `pendulum`
returns, a refused document or plugin (`interface_schema`, `hardware`) is not
used, and `cdr_messages` and `publish_call` end at their bound.

Fairness. In `DoubleBuffer` only readers in an attempt must go on; the writer may
stop for ever. In `Client` a call under way goes on (the join has a time limit)
and so does the control thread (its sleep is bounded), but a send may hang for
ever, whichever thread has begun it. An application that waits for the mutex gets it if
it is released again and again (strong fairness of `AppLock`): unlocking a Zephyr
mutex hands it to a thread that waits. In `Pendulum` the main thread and the read task are scheduled, the waits of
the start-up have time limits in the code, and a driver that is called again and
again succeeds now and then; that last one is an assumption about the driver.
`StateFollowsRig` speaks of a sensor that answers again and again and has come to
rest. In `PingPong` all threads are scheduled; the network may lose everything for ever,
and `LoopRecovers` speaks of the behaviours in which it becomes `punctual`:
messages arrive, and an answer that is on its way comes within the second that
the host waits. In `SineWave` the manager and the firmware go through their
cycles and a command that is published again and again arrives now and then
(strong fairness of its delivery). In
`HardwareInterface` the control loop goes on calling `read()`, as the manager does
at its update rate, and a callback that was entered goes on; nothing makes
messages arrive.

### Where code and documentation differ

* `destroy_after_failed_init`: `destroy()` returns early if `init()` did not
  complete; session, tasks and a publisher slot remain, and each further failure
  takes another slot of the pool.
* `init_without_thread`: `init(0)` reports an error but leaves the client
  initialized, so the next `init(50)` returns 0 and starts no thread.
* `template_overrun`: `init()` writes the templates into the slots before
  `init_base()` compares sizes, so long names or a long `frame_id` are written past
  the end of a slot ("Maximum size of state message"); only then is the client
  refused, which is what `OverrunIsRefused` shows.

Noted while modelling, without a run of their own (no run is needed to see them,
or the part is not modelled):

* `doc/architecture.rst:47` says that both sides "use the same schema to ensure
  wire-format compatibility". A component or field whose key occurs twice is laid
  out twice by the host and once by the firmware, and neither reports it;
  `WireCompatible` without its condition `~Repeated(doc)` is violated by it.
* `zenoh_transport.c:96`: the receive handler drops Tier 2 payloads above 64 bytes
  although the client accepts command layouts up to 256 (configurable to 2048).
* `zenbedded_tier2_transport_test/zephyr/src/main.cpp:16` heads `g_latest_cmd`
  with "LOCK-FREE BUFFERING", but there is a single copy: on a 32-bit board a
  velocity may mix the words of two commands. It is computed again from the whole
  command afterwards (`LastCommandIsAnswered`).
* `ros2/tests/test.py:112` sends a command "to kick-start loop alignment"; the
  loop goes on (`LoopRecovers`), but a late answer is counted for the next
  command, since nothing in a state says which command it answers.
* `demos/sine_wave/README.md:7` calls the demo state-only; the controller that
  its launch file spawns sets the amplitude of the firmware.
* `demos/rcl_cpp_test/README.md:46` says that the node exits on bad credentials;
  `main.cpp:66` waits for an IPv4 address without a limit.
* `mock_pendulum_hardware.hpp:77` describes an angle from upright; the gravity
  term pulls it to zero.

## Proofs

The theorems hold for every value of the constants that the named assumptions of
the modules allow. They are mostly types, and that `NaN` and `NULL` are no
numbers; the few that say more are named below. Each proof module defines `IInv`,
shows `Init => IInv` and `IInv /\ [Next]_vars => IInv'` action by action, and
derives the properties; TLC has checked every `IInv` on the instance of the run
first. None of the properties below is inductive as it stands.

**`DoubleBufferProofs`**, for every set of readers and bytes, every number of
writes and every counter width (`LapAssumption`: `MaxLap < VersionMod`):
`TypeCorrect`, `NeverTorn`, `AlwaysFresh`, `CountIsHonest`, `LockFree` and
`Refinement` (`Spec => AR!Spec`). The invariant adds what the algorithm relies on:

* `WriterInv`: the active slot holds the latest payload in all bytes and the
  writer is in the other one;
* `VersionTracksLap`: the version of a reader's slot is the loaded one plus the
  number of laps, modulo the width. As laps stay below the modulus, an equal
  version means no lap (`UnchangedVersionIsNoLap`);
* `CopyIsCurrent`: unless the writer is filling the reader's slot, the bytes
  copied from a slot without lap are still in it. At the moment the index is
  found unchanged the writer is in the other slot, so the copy equals the latest
  payload, which is the linearization point;
* a reader whose attempt no commit has overlapped still has the active index and
  no lap, which gives `LockFree`.

`TypePreserved`, `WriterPreserved` and three lemmas for the readers (a step of
the writer, of the reader itself, of another reader) prove that it is inductive.

**`ClientProofs`**, for both tiers and every size of pools and payloads:
`FlagsAreTruthful`, `NeverDividesByZero`, `ResetIsSafe`, `Complete`, and as action
properties `ThreadObjectFree`, `DestroyLeavesNothing` and `SlotsGivenOnce` (no
declaration takes a slot in use; not the property of a run). `ThreadInv` says what
the flags mean at each position, in particular during the join, when they do
not tell the truth; `CallInv` carries the checks at the head of a call to its
later steps; `PoolInv` ties slots and tokens to the session, and subscribers to
the initialized flag, which is why a callback cannot meet `reset_buffers()`.
That the slot found is free rests on the existence of a smallest free one
(`SmallestExists`, from the well-foundedness of `<`).

**`PublishCallProofs`**, for every number of callers, calls and words:
`AloneCallIsExact`, `WireIsOrdered`. `AloneCall` says how far a call that nobody
overlaps has come; `WireIsOlder` that since the last overlap no number on the wire
is above the attachment's or above what the call under way found. Nothing is
assumed of the clock.

**`PendulumProofs`**, for every time-out and every set of velocities and positions:
`StaleStops`, `CommandWins`. `Watchdog` relates, per
position in the loop, the quiet cycles to the counter of the code, and is where
the three cycles of the bound come from; `CountsAgree` and `SourceIsNew` say that
the read task counts what it has stored, so a read after a count is as new as the
count.

**`HardwareProofs`**, for every schema and any number of messages and sessions:
`OneMessage`, `CommandNumbers`, `PublisherAlive`, and the action property
`NeverBack`. `BufferInv` is what `RealtimeBuffer` keeps: the reader's copy is
whole, and so is the writer's when it is new and unlocked; `ReadInv` describes the
middle of `read()`, where old and new fields stand side by side. Callbacks of
different sessions may overtake each other: `FromInv` says that messages arrive in
the order of the sessions, `CallbackInv` that a callback is behind all of its own
session that has been stored, and `Follows` is the order that is left, "not
older, or of an earlier session". Sections
without fields are included: the code does not refuse them.

**`PingPongProofs`**: `NoLostWakeUp`, because (`LoadedIsCurrent`) the words the motor
thread has loaded are current unless a wake-up is still to come. **`SineWaveProofs`**:
`PhaseFollows`, `LastComputed`, `DefaultKept`, for every history of activations
and restarts.

**`WireFormatProofs`** has both wire formats, because both rest on loops over
sequences.

Tier 2, for every document and every sequence of writes: `SameWire`,
`CommandsAreFound`, `StatesAreFound`. `SchemaAssumption` says that floats are
doubles and doubles numbers (counted in halves), and that the limits of each type
include 0; widths and numbers are free. `SameWire` and what rests on it speak of
documents without repeated keys, and say of keys without a mapping that the
generator fails. Four arguments meet in it:

* loops: `InductionTo` is induction over a set of rounds, from the absence of a
  smallest counterexample; with it `LoopExists` shows that the recursive functions
  of the model are defined, `ParsedIsPacked` that the parser's loop yields the
  packed struct, and `SumAscends` that its members do not overlap
  (`PackedLayout`);
* keys: without repeated keys PyYAML keeps every pair where it stands
  (`LoadedIsSame`), so that the generator lays out what the parser does
  (`GeneratedIsLaid`);
* numbers: different numbers of one type have different bytes (`BytesTellValues`),
  after every conversion, out of range ones included (`CastType`); the double that is
  read has no other between it and what the field holds (`NearestShows`,
  `ReadShows`), so it is the same where there is one;
* writes: a `memcpy` into a field inside the buffer is found again and disturbs
  nothing beside it (`StoreIsLocal`). `IInv` says that each field holds the bytes
  of what it was given.

Tier 1, for all names, frames and interfaces, any number of joints, every slot size
and every sequence of messages: `JointStatesConform`, `JointCommandsConform`,
`ReadsFindValues`, `OverrunsAreRefused`. `CdrAssumption` says that strings are
sequences of numbers, that sizes are natural numbers, and that the null pointer
is neither a string nor a message. The argument:

* `Image(t, s, H)`: the template `t` has the bytes of the reference `s` at every
  address but those in `H`, which the code leaves open (stamp and elements), and
  zeros behind it; `Exact` adds that the cursor is at the end of `s`. Each step of
  `serialization.c` is matched with one of CDR: `ExactPut`, `ExactAlign` (both count
  from behind the header), `ExactSkip`, and the loop over the names (`ExactStrings`);
* the reference aligns before every double, the code once before the array.
  `RefDoublesAlignOnce` shows that this is the same, as long as there is a first
  double. Without joints it is not: the cursor runs ahead of the reference and
  never comes back (`CountOfNone`), which is why `Joined` asks for an exact cursor
  only when there are joints, and why `JointStateConforms` then asks for a prefix;
* the offsets do not overlap and end at the payload size (`StateOffsets`,
  `CommandOffsets`), so a patch changes one part of a slot (`PatchState`), and a
  template or message that fits stays inside of it (`TemplateIsSlot`);
* in any command the values are the last bytes (`CommandEnds`). A payload of the
  agreed size with the agreed number of joints therefore has them at the agreed
  offset, whatever strings are before them: this is what makes the comparison of
  sizes in `on_transport_cmd_cb()` enough.

`CdrIInv` is inductive: offsets and status stay what `init()` made of them; if it
accepted, a state slot is its template with the message it stands for patched
in (`StateKept`), and a command slot is empty or has stamp and values of the
payload it came from (`CommandKept`). The lemmas on patching hold for any numbers;
the specification writes those of `Array`, which tell all messages apart.

`TypeCorrect` is proved for each of the models that state `TypeOK`.

So every invariant and every action property of the passing runs has a theorem. Only
model-checked is liveness (`ReadReturns`, `CallReturns`, `KeepsPublishing`,
`EventuallyStops`, `StateFollowsRig`, `StoredIsShown`, `LoopRecovers`,
`BoardFollows`): fairness and
ENABLED are beyond the prover.

## Not modelled

* the destructor of the hardware interface: the manager deactivates a component
  before it destroys it, and then no callback is left to meet a dead member (its
  clock, the last member, goes before the subscriber);
* the age of a state on the host: nothing in the code or its documents bounds it;
* `demos/rcl_e2e`: two firmwares with a single loop at 100 Hz that calls `init`,
  `write_state` and `read_command`, and a pytest that reads their logs; `Client`,
  `DoubleBuffer`, `CdrMessages` and `InterfaceSchema` have these calls;
* `demos/zenoh_e2e`: a start-up in a straight line that opens a zenoh-pico session of
  its own, without the transport of this repository, and a subscriber that
  prints; `Transport` has the same steps;
* `demos/rcl_cpp_test`: one thread that makes the calls of `Client` in a fixed
  order and prints a verdict;
* the simulated pendulum of `inverted_pendulum_ros` and its controller: floating
  point integration in one thread, within the life cycle that `SineWave` has;
* `demos/zenbedded_test_node`: a single loop that serializes and publishes, and a
  callback that deserializes and prints a rate; the two share nothing, and
  `Transport` and `CdrMessages` have the calls they make;
* zenoh-pico and its patches (third party), Kconfig and container files, YAML
  parsing and formatting, the type hash table (a constant), the empty
  `hardware_component` files.
