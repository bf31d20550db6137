# Zephyr applications: verification

The repository collects Zephyr RTOS applications and two Zephyr modules for
small boards: an MQTT sensor node, sensor loggers driven from a shell, an LCD
driver, an MQTT adapter with an Arduino-style interface, and exercises with
threads and semaphores. This directory holds TLA+ models of the parts in which
threads, callbacks, devices and failures meet, the TLC runs that check them,
TLAPS proofs of everything the models check that is a safety property, and two
abstract specifications with three refinements, checked and proved.

- `tlc -config X.cfg MCX.tla` runs a model (the pairs are in `PROJECT.json`).
- `tlapm X_proof.tla` checks the proofs about module `X`; `RtosTasks_proof` those about
  `OrderTask` and `PingPong`.

`PROJECT.json` lists the components, the runs, the mutants that show each
property to depend on the code, the source lines of every definition, the
hazards and the theorems.

## 1. Inventory

| Component | State it keeps | Operations | What is hard |
|---|---|---|---|
| `wifi/sensor_mqtt` | `mqtt_connected`, poll set `fds`/`nfds`, delayable work item, network semaphore, two LEDs; in the library, the client and its mutex | network events; `app_mqtt_init`, `_connect`, `_subscribe`, `_run`, `_process`, `_publish`; event callback; `publish_work_handler` | three contexts share one flag; callbacks run in whichever context called the library; the link fails silently or with a reset; keep-alive |
| `sensor_task/mem_log` | `g_sd` under `g_sd_mtx`, four semaphores, four thread ids, the log file | three workers and a coordinator that hand one turn round; `start_sensors`, `stop_sensors`, `clear_logs` | `k_thread_abort` of a thread at any point, also with the mutex in its hands; restart; sensors that fail |
| `sensor_task/logger` | `g_period_ms` under `g_rate_lock`, the CSV file, last samples | sampler thread; `sens rate`, `clear`, `cat`, `show`, `live` | a mutex that every access initialises; clear against an open handle; power cut |
| `modules/my_hd44780_pcf8574_mod` | control byte, mutex; outside, the expander's pins and the controller's interface width and half-received byte | `hd44780_init`, `fn_clear`, `_home`, `_set_cursor`, `_control`, `_write` | four bus writes a byte, each of which may fail; the controller cannot be read; it keeps its state over a reset of the microcontroller |
| `modules/adafruit_mqtt_zephyr` | `connected`, `msg_id`; in the library, client and sockets | init, connect, publish, subscribe, yield, disconnect; `mqtt_event_cb` | one flag stands for the library's state; connect times out; a message whose payload nobody reads |
| `rtos_tasks/order_task` | `ready`, a mutex, a condition variable | three threads that print in turn | a signal that wakes one waiter, whoever's turn it is |
| `rtos_tasks/ping_pong` | two binary semaphores, loop counters | two threads that print in turn | alternation and termination |
| `wifi/prv_mqtt` | `wifi_ready`, `mqtt_connected`, the one `payload_buf`; in the library, the client, its mutex and the payload bytes not yet read | main connects, then composes and publishes every 10 s; `mqtt_thread` calls `mqtt_input` and `mqtt_live` every second; `mqtt_event_handler`, `wifi_event_handler` | both threads use the buffer without a lock of its own; a subscription that fails inside the CONNACK callback; unread bytes make `mqtt_input` fail for ever |
| `wifi/wifi_con` | Wi-Fi status, semaphores | connect, wait, ping, one HTTP request | an address that nobody waits for |
| `sensor_task/lcd_sens` | the display's contents | read sensors, print | leftovers of longer strings |
| `sem_task`, `sig_task`, `rtos_blinky`, `uart_task/*`, LED, button, PWM and random-number demos | next to none | loops over I/O | nothing beyond what the parts above show |

How they interact. In `sensor_mqtt`, main calls the library and polls its
socket; the library calls `mqtt_event_handler` back, in main or, when a publish
of the work queue fails, in the work queue; both write `mqtt_connected`, the LED
and the poll set. `prv_mqtt` is the same triangle with other hands: main
publishes, a thread polls, and the callback of an inbound message reads into the
buffer of the outbound ones, holding the library's mutex for the read but not
for the terminator. In `mem_log` the shell thread creates and aborts the others,
which meet in semaphores, in `g_sd` and in the file system. The LCD driver is
called by any number of threads, and talks to a controller that only counts
falling edges. The adapter is called by one thread and calls the library.

What makes each part correct: the flag is the library's state, a session is
served, publishes, and is given up when its link is dead (`sensor_mqtt`); one
turn, a snapshot under its lock, lines that tell the truth about their own
cycle, a schedule that does not drift, and a clean state after every stop
(`mem_log`); a buffer that is always a string, and main's text sent as composed
(`prv_mqtt`); what is cleared stays cleared and what was logged survives a boot
(`logger`); driver and controller agree which half of a byte comes next (LCD);
the caller is told the truth about the connection, and must know what to ask for it
(adapter); order and progress (`rtos_tasks`).

## 2. The modules

Each component `X` has a module `X`, an `MCX` that TLC runs, and a proof module. A definition after a comment beginning with "Variant:"
is a wrong form of the definition after it and is used by no
specification: `PROJECT.json` puts it in the place of the right one to show that
a property notices.

**SensorMqtt.** `main` is the point main has reached, one value per library
call, poll or test; `evt` is a library event whose callback has not run.
`ConnectEnter` .. `ConnCheck` are `app_mqtt_connect`, `RunLoop` .. `RunLive` and
`MqttDisconnect` are `app_mqtt_run` with `app_mqtt_process` and
`poll_mqtt_socket`; `OnConnackFlag`, `OnConnackLed`, `OnDisconnect`,
`OnPublish` are the branches of `mqtt_event_handler`, CONNACK's in two steps,
since the work queue can run in between. `wq`, `timer` and `queued` are
`publish_work_handler` and its work item. `lib`, `owner`, `link` stand for the
library's client, its mutex and the TCP connection: `good`, silently `dead`,
`unacked` (data was sent into it), or `reset`. The library holds its mutex in a
call that blocks and releases it around the callback. Priorities are modelled:
the work queue's thread is cooperative and above main, so main moves only where
the handler waits (`MainMayRun`); that is the difference between the two runs of
section 3. A message received may be acknowledged from within its
callback (`AckSent`), and a failure there drops the connection (`AckFails`). TLS, DNS,
topics, JSON and commands are reduced to their outcomes.

**MemLog.** Workers and coordinator are numbered along the chain, so that
`sem[i]` is the semaphore thread `i` waits for. One action per call that can
suspend. `Create` and `Abort` handle one thread at a time, as the code does, and
any thread may run between two of them. A value is `zero`, `old`, `fresh` or, for
sensor code that ignores channel errors, `garbage`: `WorkerUpdate` stores it,
`CoordGive` makes the older ones old. Priorities matter in one place: the shell is
the lowest of all and the driver of the internal flash does not suspend its caller,
so `StopCmd` does not find the coordinator between `fs_open` and `fs_close`. All
else holds for any scheduler.

**SensorLog** is what `mem_log` promises, without threads: a session is a sequence of
cycles, each measures every sensor once and in order, then reports just that; it may
be stopped at any moment. `MemLog` implements it: `phaseBar` is the coordinator's
control state, `resultBar` the snapshot entries of the workers that have had the turn
in this cycle, and then the copy the line is made of. `RefinesSensorLog` is
`SensorLog`'s specification under that mapping.

**SampleClock** is the coordinator's schedule alone, on a clock that may tick between
any two of its steps, also between `k_uptime_get` and the sleep computed from it. A
cycle is the time it takes: up to `Work`, or now and then up to `Long`. Uptime and
`next_deadline` grow without bound, so the model keeps their difference (`ahead`) and,
for the properties, what has elapsed in whole periods less the cycles begun
(`missing`) and the rest (`phase`). `MemLog`, which has no time, and `SampleClock`,
which has no threads, meet in the coordinator's sleep.

**LcdDriver.** A thread is at a nibble (`op`, `k`), and each nibble is two
actions, E up and E down; `Latch` and `Widths` are the controller, which latches
at a falling edge, in 8-bit mode whole instructions and in 4-bit mode halves.
`prev`, `missed`, `garbled`, `faulty` are history variables used by properties
only. An I2C write that fails changes nothing; `strobe` then returns, and E may
stay high. `Reset` stops all threads and keeps expander and controller. Waiting
times and characters are left out.

**Logger.** The console is main until the sampler exists, then the shell; a main that
finds a sensor missing returns at once, and leaves a shell without a sampler and a
volume that nobody has mounted (`Starts`, `mounted`). Every
call on the mutex or on the file system is an action and may fail. A handle
works on the contents it found; a commit happens when a written handle is closed
and its file has not been removed. `k_mutex_init` forgets owner and waiters.
The priorities are not used; with those of the code the sampler is hardly ever caught
between open and close, which `ClearForgets` does not rely on.

**AdafruitMqtt.** Calls of one thread, in any order: nothing in the code keeps the caller
from calling connect, or init, over a live client, so nothing in the model does. The
broker's next packet is `peer`, and can change between any two steps. A library call
that fails in the socket drops the connection and runs the callback; one that cannot
encode its packet, or finds no session, returns an error and changes nothing. `again`
is a history variable: connect was called with the flag set, and the flag has been set
ever since. It marks what the caller has to avoid for the flag to be true, and ends
when connected() is false.

**PrvMqtt.** Three contexts: `main`, `thread` (mqtt_thread) and the network manager,
whose only effect is `wifi_ready`. `buf` holds for every byte of `payload_buf` who
wrote it: `hello` (main's text), `rx` (received) or `nul`. main's snprintf is one step,
as mqtt_thread cannot run within it; the callback is three steps, since its read may
block in the socket (`ReadEnter`, `ReadChunk` or `ReadFails`), returns as many bytes as
have arrived, and stores the terminator after the library has released its mutex
(`Terminate`). `mqtt_thread` is below main: it runs only while main sleeps, sends, or
waits for the mutex (`MainBlocked`), and hands the mutex straight to a waiting main
(`Released`). `after` is where it goes on after a callback that reports a loss.

**MqttSession** is what `sensor_mqtt` and `prv_mqtt` both promise, without threads,
priorities, mutex, poll set or buffer. A session is dialled, opened, accepted, served,
lost, and its loss noticed, in that order (`phase`); a publish (`publishing`) goes into a
session that is served, and while it lasts no one else ends that session; a publish that
fails ends it and the application knows at once. Both modules define `phaseBar` from
`lib`, `mqtt_connected` and main's control state, and take for `publishing` the call that
has the socket: `wq = "sending"` in the one, `main = "sending"` in the other.
`RefinesSession` is `MqttSession`'s specification under that mapping. The adapter does not
implement it: a connect that times out leaves its connection behind.

**OrderTask.** One action per kernel call. `runq`, `waitq` and `sleepq` are the
kernel's queues; `Without` takes a thread out of one. `fifo`, fixed at the start, says whether the kernel runs threads
of equal priority in the order in which they became ready, without time slices.
**PingPong.** One action per kernel call, both loops to their end. Its `PingPongInit`,
`PingPongNext` and `PingPongSpec` bear its name so that one proof module can extend both.

The library, the network stack, the kernel, LittleFS and the display's
controller are not in the repository: their definitions are marked external in
the map and say what the calls of the code rely on.

## 3. The runs

Passing:

| Run | Instance | Shows |
|---|---|---|
| `sensor_mqtt` | two losses, sensor read that does not suspend | `FlagAccurate`, `ConnectOnlyWhenIdle`, `PublisherArmed`, `LedLitInSession`; `RefinesSession`, the refinement of `MqttSession`; `DeadLinkDetected`, `SessionPublishes`, `Reconnects` |
| `mem_log` | three workers, one of them unchecked, two open files | `OneTurn`, `LineFresh`, `MutexLive`, `WholeSession`, `NoFileLeft`; `RefinesSensorLog`, the refinement of `SensorLog`; `CycleCompletes` |
| `sample_clock` | period of six ticks, cycles of up to two, jitter of one, two overruns of up to twenty | `NeverEarly`, `NoDrift`; `LinesMadeUp` |
| `prv_mqtt` | buffer of four bytes, text of two, payloads of zero to five, three polls | `BufTerminated`, `FlagAccurate`, `ComposedIntact`; `RefinesSession`; `KeepaliveServed` |
| `lcd_driver` | two callers (symmetric), texts of two characters, failing writes, one reset | `InStep`, `WholeBytes`, `TextContiguous`, `SuccessMeansLatched` |
| `logger` | two requests, one below the minimum, three lines, one power cut | `ClearForgets`, `NoWaiterLost`, `BootKeepsLog`; `PeriodApplied` |
| `order_task` | the code's sizes, both schedulers | `PrintsInOrder`; with `fifo`, `NobodyWaits` and `SequenceRepeats` |
| `ping_pong` | the code's 100 iterations | `Alternates`; `BothFinish` |
| `adafruit_mqtt` | two sockets, ids modulo 4 | `FlagTrusted`, `ConnectTellsOutcome` |

Three of these make exceptions that the code does not let them do without. `LineFresh`
leaves out sensor code that ignores channel errors (the IMU's). `ComposedIntact` leaves
out publishes while the callback of an inbound message runs: there received bytes do
reach main's text. `FlagTrusted` and `ConnectTellsOutcome` hold without
condition where the flag is false and where connect fails; a true flag and a 0 of
connect mean a session only to a caller who does not call connect while connected() is
true. The adapter's header does not ask that of the caller (section 5).
`LedLitInSession` says only that the LED is lit in a session; that it is dark without one
does not hold (section 5).

`lcd_driver` and `logger` also check `TypeOK`. Type correctness of every module is
proved, as a part of its inductive invariant.

Runs in which the code does not do what a comment or README says:

| Run | What happens |
|---|---|
| `sensor_mqtt_reconnect` | If reading the sensor suspends the handler, it may publish into a connection that main has made in the meantime; a failure there leaves flag and client apart, and main waits for ever. (`RefinesSession` fails on this instance too: that publish goes into a session which is not served yet.) |
| `sensor_mqtt_keeps_healthy` | A publish during main's poll makes `mqtt_live` return -EAGAIN, taken for an error: a healthy session is closed. |
| `lcd_driver_lock_leak` | `fn_write` returns from a failed character with the mutex locked. |

Bounds. Two losses reach every pair of failures, of the new session as well as
of the old one; a third finds the same situations again, as nothing but the bound counts losses.
Three workers and the coordinator are the code's chain, and a chain of any
length is proved. Two callers are enough for every interleaving of the bus,
since the mutex lets one in; two characters have an in-between; after one reset
the controller is found in any state that a driver can leave it in, also with E
high. One power cut gives a log of the run before; three lines let a line
follow a header and another line. Ids modulo 4 wrap; two sockets show one left
over. The counters of `order_task` and `ping_pong` are the code's own. In
`prv_mqtt` a payload is empty, shorter than the buffer, as long, or longer, and
shorter or longer than main's text; the code's 100 polls for CONNACK differ from
three in number only, and losses are not bounded. In `sample_clock` an overrun
lasts three periods and more, and a second one may begin before the first is made
up for; a period of six ticks is the least in which work, slack and jitter all
have their place. Nothing else in the models counts.

`CHECK_DEADLOCK FALSE` is set for `ping_pong`, whose threads end, and for
`order_task`, whose threads may all wait when threads of equal priority run in
any order; that is what `fifo` in `SequenceRepeats` and `NobodyWaits` is about. Elsewhere deadlock
is checked, and the one intended stop (main returns when there is no
network interface or the broker's name cannot be resolved; a device that was not
initialised) is an explicit stuttering step.

Fairness. The kernel runs a thread that can run: weak fairness for each thread.
- `SensorMqtt`: `SF(MainStep)`, because the handler pre-empts main again and
  again; it runs once per publish interval of seconds, and main's steps take
  milliseconds. `WF` of the timer, of TCP's noticing of unacknowledged data, and
  of the return of connectivity. `Reconnects` also needs a broker that, asked
  again and again, accepts: `SF` of the accepting outcomes only. No fairness is
  put on failures or on anything main may choose.
- `MemLog`, `Logger`: a command need not be typed, but one that was begun is
  carried through; sensors, files and sleeps return.
- `LcdDriver`: the mutex is handed over in turn, hence `SF(Lock)`.
- `PrvMqtt`: `WF(Loop)`, main runs when it can and the socket accepts or refuses
  what it sends. `SF(ThreadRuns)` and `SF(Pings)`: mqtt_thread loses the processor to
  main again and again, but main's sleeps of 10 s leave it for much longer than its
  steps take. Nothing is assumed of a blocking read of a payload (`Reads`), as TCP does
  not notice a peer that falls silent while nothing is sent to it; `KeepaliveServed`
  names that case.
- `SampleClock`: time passes and the thread goes on. `LinesMadeUp` holds because
  a session has boundedly many overruns; with overruns for ever it could not.
- `OrderTask`, `PingPong`: threads run, sleeps end.

The safety properties of `Logger`, `LcdDriver` and `PingPong` hold for any
scheduler, so for the priorities of the code too; those of `MemLog` do but for
`NoFileLeft`, which needs the guard of `StopCmd`. `SensorMqtt` and `PrvMqtt` use the
priorities.

## 4. The proofs

All are about the specification without fairness (`Spec`, `PingPongSpec`), for all
values of the constants, from the named assumptions on the constants in the modules and
nothing else. Every invariant and every action property that a passing run checks is
stated by a theorem.

- `SensorMqtt_proof`: `TypeCorrect` always; `SessionCorrect`, `FlagIsAccurate`,
  `PublisherStaysArmed`, `NoConnectionLost` under `~SensorBlocks`, for any number
  of losses. The invariant `SessionInv` adds to the properties who is inside the
  library at each control point (`OwnerFollowsControl`) and what the client's
  state is there (`LibFollowsControl`). It is needed: `FlagAccurate` alone does
  not survive a publish that fails, unless one knows that a handler in the library
  found the client connected and that main had not yet run the CONNACK callback.
  The run `sensor_mqtt_reconnect` shows that the assumption cannot be dropped.
  `LedIsLit` does without it: the LED has an invariant of its own.
  `SessionRefined`, `Spec => RefinesSession`, has a lemma for each group of steps:
  those that leave client, flag and publish alone are stutters (`QuietSteps`); connect,
  serve, callbacks and publish each take the session's step of that name. `DropIsLoss`
  is the heart of it: wherever main can make the client drop its connection, the mutex
  keeps the handler out of the library, so that no publish loses its session.
- `PrvMqtt_proof`: for buffers, texts and payloads of any length. `BufTerminated`
  is not inductive; that the last byte is never written but with the terminator
  (`LastByte`) is. `FlagAccurate` and `ComposedIntact` need who holds the mutex at
  every point of main and of the thread (`OwnerInv`), and that there is no session
  before CONNACK (`SetupInv`). `PrvRefinesSession` shows that these hands, too, implement
  `MqttSession`; it adds that bytes remain to be read, and threads are blocked in calls,
  only while there is a session (`CallsInSession`).
- `MemLog_proof`: for a chain of any length, any unchecked workers and any number
  of files. `ChainInv` adds which threads exist at each step of a command
  (`ThreadsFollowCommand`) and that the entries of workers who have had the turn
  are of this cycle (`MeasuredFresh`). The proof goes from type correctness over
  the threads to the turn (`TurnStep`), the mutex (`MutexStep`) and the values
  (`FreshStep`), each lemma using the ones before. `OneTurn`, `TurnNotLost`,
  `MutexLive`, `LineFresh`, `WholeSession` and `NoFileLeft` follow.
  `MemLogRefines` is `Spec => RefinesSensorLog`. Under `ChainInv`
  the initial state maps to `SensorLog`'s, and every step maps to a step or to a
  stutter: `CoordGive` to `Begin`, `WorkerUpdate` to `Measure`, the coordinator's copy to
  `Report`, the first step of a stop to `Stop`; whatever else a worker does, and the
  rest of a stop, to stutters. `OneTurn` gives the order of the measurements,
  `MeasuredFresh` that the mapped entries stay put while others are written.
- `SampleClock_proof`: `NeverEarly` and `NoDrift` for any period, work, jitter and number
  and length of overruns. The invariant adds that a sleep is never shorter than the way
  to the deadline (`DueWhenAwake`), that the part of its budget which a cycle has used
  bounds how far behind the deadline is (`OnTime`), and `ScheduleKept`, which turns
  both into statements about lines and periods. `SlackAssumption`
  (2 Work + Jitter < Period) is what makes lateness of one cycle vanish in the next.
- `LcdDriver_proof`: for any number of callers, texts of any length, any failures and
  resets. `LcdInv` says that one thread at a time is between the lock and its release, or
  initialises, and is the only one to strobe; that the pins carry the nibble it raised;
  and that until a write fails the controller is where that thread is: in step within a
  byte, with the half it has latched. The step from nothing known to in step is the
  initialisation sequence: from whatever width and half-received byte, three lone 3s
  leave the controller in 8-bit mode and the lone 2 in 4-bit mode, one case for each
  state it can be found in. `InStep`, `WholeBytes`, `TextContiguous` and
  `SuccessMeansLatched` follow.
- `Logger_proof`: `NoWaiterLost` from an invariant about the mutex alone, `ClearForgets`
  and `BootKeepsLog` from one about handles and file, for any number of lines,
  failures and power cuts; and `LoggerTypeOK`, where the bound on the log's length needs
  what each handle may add to it.
- `RtosTasks_proof`: for any number of threads, and numbers to print. Of `order_task`,
  `OrderInv`: whoever is between lock and unlock owns the mutex (`Held`), the turn follows
  the number printed last (`TurnFollows`), every thread is exactly once in one of the
  kernel's three queues and the owner is ready (`Queued`), and, with `fifo`, the queues
  laid end to end are the threads in rotation, beginning with the one whose turn it is
  (`RoundInv`). `PrintsInOrder` needs the first two; `NobodyWaits`, that in the kernel's
  order no thread ever finds it is not its turn, needs them all. Of `ping_pong`:
  exactly one of five places has the turn (`PingPongInv`); alternation and numbering of
  the lines follow.
- `AdafruitMqtt_proof`: for any number of sockets and any width of the ids. The
  invariant `ClientInv` holds `FlagTrusted` and `ConnectTellsOutcome` together, as connect
  reports the flag, and adds that a client in use owns a socket, so that a loss has one to
  close, and that after a failed init there is no client.

Model-checked only: what needs fairness, as liveness is beyond the prover
(`DeadLinkDetected`, `SessionPublishes`, `Reconnects`, `CycleCompletes`,
`KeepaliveServed`, `LinesMadeUp`, `PeriodApplied`, `SequenceRepeats`, `BothFinish`), and
the three violations, which are counterexamples.

## 5. What is not modelled

- Real time other than the sampling deadline: poll and keep-alive lengths, the
  waiting times of the display.
- The contents of topics and log lines, DDRAM addresses, the shell's output; of payloads,
  all but the lengths in `PrvMqtt`.
- `wifi/wifi_con` (with `ping.c`, `http_get.c`, `wifi.c`): main runs once from top to
  bottom, and its requests keep no state.
- `lcd_sens`: one loop in one thread over the LCD driver, modelled itself.
- `sem_task`, `sig_task`, `rtos_blinky`, `uart_task/*`, the I/O demos: they share nothing,
  or share it as `ping_pong` does.
- `prv_mqtt/src/main_self_attempt.c`, which the build does not use.
- Mounting at start in `mem_log`; of `logger`, the mount is modelled as a call that
  succeeds or fails, and that its `fs_data` is not set (`fs_log.c:14`) is left out.
- The read-only commands of the two loggers.

`PROJECT.json` lists among the hazards what this leaves uncovered. Some defects are in
the models, and can be reached there, but no run is spent on them, because a few steps of
one thread show them or because little depends on them:

- `adafruit_mqtt_zephyr_connect` does not look at the flag. Called while connected, it
  begins a second connection over the first, or fails and resets the client, and the flag
  stays set either way; its wait is then over at once and it returns 0 without a CONNACK,
  although the header says of connected() "Returns true if currently connected to
  broker". `again` and the exceptions of `FlagTrusted` and `ConnectTellsOutcome` are
  about just this.
- A connect that times out leaves its socket open, and a message of the adapter whose
  payload nobody reads makes every later yield fail on a live connection.
- In `sensor_mqtt`, a publish on the work queue that fails after CONNACK's callback has set
  the flag, and before it has lit the network LED, puts the LED out; main then lights it,
  and it stays lit while main finds the session lost and connects again.
- In `logger`, `fslog_clear` takes -ENOENT for "no such file". Where main has returned for
  want of a sensor nobody has mounted the volume: clear then mounts it, opens the old log,
  and reports "cleared".
- A payload that was never initialised is published after a failed sensor read
  (`sensor_mqtt`), and IMU channels are logged without having been read (`mem_log`).

## 6. Plan

1. Abstract specifications for the other components: a display that shows whole texts,
   for `LcdDriver`; a log that only grows or is cleared, for `Logger`; a ring of threads
   for `OrderTask`, with the refinements proved from the invariants of section 4.
2. What of the liveness properties can be said as safety: a measure that every step of a
   stop, of a cycle or of a connect attempt brings down.
3. `KeepAlive`, with time as a bounded counter: how late a dead link is noticed by
   `sensor_mqtt`, and by `prv_mqtt`, whose poll is a second long.
4. The display's addresses: injectivity of row and column, and what a shorter string of
   `lcd_sens` leaves behind.
5. `wifi_con` and `sem_task`, if a change gives them state worth a model.
