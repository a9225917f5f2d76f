# RestessbarKSreporter in TLA+

The program runs on a LinkIt ONE board: it measures a load cell through an
HX711 converter, condenses the measurements, and reports them over GPRS to a
PHP page that stores them. This directory holds a model of it, the TLC
configurations that check the model on small instances, and proofs of the most
important properties for every size.

## 1. Inventory

| Part | Source | State it keeps | Operations |
|---|---|---|---|
| afifo | `report.c:21-131` | batch (`bin`), ring with two indices, mutex | create, destroy, write, read |
| reporter | `report.c:35-42, 134-395` | `reporter_busy`, `current_report_filename`, `report_http`, the files in `C:\tmp\` | report timer, resend (`send_delayed_report`), two completions, settings |
| telecom | `telecom.c` | `url`, `headers`, `body`, `method`, `http_status`, `done_cb`, `channel`: one set for everybody | `http_get`, `http_post`, the https callbacks |
| measuring | `measure.c` | `open_handles`, a task slot with its mutex per handle, each thread's copy of its task | open, close, set_*, the thread |
| HX711 protocol | `measure.c:56-140, 169-178` | two GPIO lines | standby, wait, read, set up |
| start and end | `main.c` | `adc_handle_a`, `result_buffer_a`, blink counter | VM_EVENT_CREATE, VM_EVENT_QUIT, watchdog, resend timer, boot blink, key conversion |
| console | `console.c` | command line, request strings, `m_handle`, `result_buffer` | line editor, 17 commands |
| configuration | `conf.c`, `conf_defaults.h` | an open file | read a string or an integer by its key |
| log, LEDs | `log.c`, `leds.c` | a handle each | output only |
| web server | `web/index.php` | table `measurements` | verify and store a report, draw the graph |
| vendor | `include`, `lib`, `tools`, `web/libchart` | | third-party |

How they interact:

- The **measuring thread** calls `afifo_write` on the buffer named in its task;
  the **report timer** drains the same buffer with `afifo_read`. The afifo's
  mutex is all they share.
- Everything else runs in the **main thread**, one callback at a time: timers,
  https callbacks, the USB console, system events. (The SDK header
  `include/vmtimer.h:156-158` says so of timers.) Interleaving there is
  between whole handlers.
- The reporter leaves a callback with telecom and learns of the end of an
  exchange through it. `reporter_busy` keeps the report timer and the resend
  timer apart; the console asks nobody.
- A report is written to a file before it is posted. The file is deleted by
  the completion, through a static that was set when the exchange began. After
  a failed first attempt the device reboots and the resend timer tries again.

What is hard about it: handlers of several users interleaving on one set of
statics; static state read long after it was set; callbacks that never come;
power cuts and reboots between any two steps; lost answers and repeated
deliveries; a thread that uses a copy of its task after its session was
closed; memory freed by another thread than the one that made it; a full
ring; a low-priority thread that drives a protocol with a deadline.

What makes each part correct:

- afifo: what is read is the median of each complete batch, in order; only the
  oldest is lost, only when the ring is full.
- reporter with telecom: a stored report is not lost before the server has
  answered it; the file deleted is the one that was sent; one exchange at a
  time; the reporter is not left busy for ever; no needless repetition.
- measuring: no use of a freed buffer, no buffer freed twice or never, an open
  handle has a thread that listens if one could be created, a closed one's thread ends.
- HX711: the value delivered is the one converted, from the input asked for.
- configuration: the defaults complete a partial file; a bad line harms no more
  than the next one, unless it has the name asked for; a number is the one that was written.
- start: device and server get the same key from the same digits; a start that
  failed is seen to have failed.
- console: a command that arrives in time is run as it was typed or not at all, whatever the line before
  it was; no line beyond its buffer.
- LEDs: each tells one thing, although several handlers switch it.
- web server: the table holds what was sent, at its place; a value that was
  answered `ok` appears in the chart of its time; a spike filter lowers spikes only.

## 2. Modules

| Module | Models | |
|---|---|---|
| `BoundedQueue` | abstract | a queue that drops its oldest element |
| `MedianQueue` | abstract | batches replaced by their medians, in a `BoundedQueue` |
| `Outbox` | abstract | at-least-once delivery of reports |
| `Afifo` | `report.c:21-131` | one action per operation; implements the two queues |
| `AfifoLocked` | `report.c:78-131` | one action per statement, with the mutex; implements `Afifo` |
| `AfifoProofs`, `AfifoLockedProofs` | | theorems about `Afifo`, and about `AfifoLocked` |
| `Telecom` | `telecom.c` | operations and callbacks, the https service as external |
| `Report` | `report.c:134-355` | on top of `Telecom` |
| `Delivery` | composition | `Report` with the timers of `main.c`, the console, the server, restarts, faults; implements `Outbox` |
| `DeliveryProofs` | | theorems about `Delivery`, and that it implements `Outbox` |
| `Measure` | `measure.c:37-54, 142-308`, sessions of `main.c` and `console.c` | handles, threads, ownership of buffers |
| `MeasureProofs` | | theorems about `Measure` |
| `Hx711` | `measure.c:56-140` | one thread with its converter |
| `Hx711Proofs` | | theorems about `Hx711` |
| `ReportDrain` | `report.c:205-248` | the report timer's loop on a `BoundedQueue` that is written to meanwhile |
| `Console` | `console.c:308-373` | the line editor |
| `Compose` | `telecom.c:52-97, 178-270` | how long `url`, `headers` and `body` get |
| `Lights` | `leds.c`, and who switches them in `main.c` and `report.c` | the three LEDs |
| `MainThread` | composition | `ReportDrain`, `Console`, `Compose` and `Lights` |
| `MainThreadProofs` | | theorems about the four |
| `Conf`, `ConfInt` | `conf.c` | a key's value as a string; the string as an integer |
| `HmacKey` | `main.c:35-82` | the conversion of the key |
| `Startup` | composition | `Conf`, and `ConfInt` or `HmacKey` on the string it found |
| `StartupProofs` | | theorems about what is found, about numbers, and about the key |
| `Server`, `Graph` | `web/index.php` | storing a report; drawing a chart of what was stored |
| `GraphProofs` | | theorems about the two |
| `MC*` | | the instances that TLC checks |

Operators whose comment begins with "mutant" are variants of a definition with
a plausible bug. No specification uses them; they are there to see that
each property notices when the definition is replaced by the variant.

### How the models correspond to the code

**Afifo.** Variables have the names of the struct's fields. Each of
`afifo_write` and `afifo_read` holds the mutex from the first access of a field
to the last, so it is one step. The scan of the insertion sort is described by
where it stops (`StopsAt`), the moves by their result (`Inserted`). `out` is
what `afifo_read` handed out, `None` for FALSE.

**Telecom and Report.** `url`, `headers` and `body` are filled together and
overwritten together and are one variable, `body`. An exchange of the https
service goes through `opening` (between `vm_https_set_channel` and its
callback), `sent`, `answered` and, if the reply has more, `reading`. `message`
is the body it was sent with: the code takes it from the statics in
`https_set_channel_cb`, not when `http_post` is called. A report is a number,
and its body and file contents are that number; a file cut short is `Torn`. A
file's name is the second it was named after, and any of them may be drawn
again: the clock can be set, and a restart fits into a second.

**Delivery** adds who calls the handlers. Every fault has a name, and `Budget`
bounds how often it may happen:

| Fault | What happens | Where |
|---|---|---|
| `torn`, `unopened` | a report's file is cut short, or not written | `report.c:257-262` |
| `unreadable` | a delayed report cannot be read | `report.c:313-319` |
| `refused` | the service does not take the request | `telecom.c:27` |
| `terminated` | the service's agent ends, the exchanges with it | `telecom.c:47` |
| `failed` | the exchange fails, before or after the server stored the report | `telecom.c:89-97` |
| `undeleted` | `vm_fs_delete` fails | `report.c:151, 181` |
| `rejected` | the server answers 404 | `web/index.php` |
| `power` | a power cut | anywhere |

Three history variables say when a property's promise is off: `mixed` (the
console used telecom during an exchange, or the other way round), `clashed`
(the reports that had to share a name with another one), `stored` (the reports
that made it to a file whole).

**Measure.** A handler of the main thread is one step, and so is each stretch
of a measuring thread between two looks at what it shares: taking the copy of
the task (under the mutex), delivering a measurement through that copy, and
leaving. `handle_details` and afifos are drawn from small sets; an afifo is
never reused, so that a use after its end can be seen. When memory is misused
(`misused`) the model stops: nothing can be said any more. `oddities` records
what was out of the ordinary before. The report timer's drain of an afifo and
the console's view only matter for whether the afifo is alive.

**Hx711.** The converter is modelled after its data sheet: asleep while the
clock is high, gain 128 on waking up, data line low when a conversion is
ready, one bit per pulse, the pulses beyond the last bit select what to convert
next. A conversion may end whenever the converter is awake, also between two pulses of a
reading or of the setup, where the clock is low (`measure.c:93`): the thread has the lowest
priority and may be kept waiting there. What is clocked out from then on are bits of another value.
`spoilt` records that this measurement ran into the ignored timeout of
`wait_result`, or was kept waiting with the clock high, or with the clock low until a conversion was over. `result` is the exact
integer; the code's `int` holds 24 bits with room to spare.

**AfifoLocked** has the writer and the reader as two processes with a `pc` each;
`local` holds the variables of the C functions. The refinement mapping shows
the fields as they were when the mutex was taken until it is released, so each
operation of `Afifo` happens at an unlock. The writer's thread ends with `afifo_destroy`, which takes the mutex
and frees it with the rest (`report.c:76-82`). It asks for nothing else: the reader, which stands for the report timer and
for command V, may be waiting for the mutex then, or come later.

**ReportDrain.** A value is its number, so that "lost", "twice" and "out of
order" can be told. The fifo is the abstract queue that `Afifo` implements; the
values of `BoundedQueue` here are the medians. `Fires`, `ReadsValue` and
`Reports` are `report_timer_callback` before, in and after its loop: a write
may fall between any two of them. What happens with the body from there on is
`Report`'s part.

**Compose** knows strings by their lengths only. The two requests that may be
under way overlap as in `Delivery`; the reply's three copies are one step. The
numbers 46 and 65 are the lengths of the two fixed header texts in `telecom.c`.

**Lights.** One action for each handler that switches an LED. `settled` is a
history variable: the LEDs that were switched by somebody after the boot blink
(which overwrites whatever it finds).

**MainThread** puts the last four side by side. They have no variable in common,
so what one of them does among the others is what it does alone: `chosen` says in the
initial state which one moves, and the others stand still. This keeps the
instance as small as the sum of the four, not their product.

**Conf.** A text is a sequence of characters of which only `=` and the end of a
line are told from the rest, because `strtok` tells no others. Each call of
`strtok` with what the code does with its token is one step. **ConfInt** takes
over where a string was found; it has characters because `strtol` looks at them.
**HmacKey** works on pairs of characters, as the loop in the code does. **Startup**
runs them in the order of `VM_EVENT_CREATE`: `output_buffer` of `Conf` is the text that
`ConfInt` or `HmacKey` converts, depending on the key's name; so does the size of the buffer it is read into (`conf.c:78`, `main.c:156`).

**Console.** One step per callback, with the text that has arrived from USB by
then; the callback reads it in pieces of `Chunk`. `typed` and `last` follow the
person at the keyboard, `garbled` says that part of a line arrived in a way in
which the code loses characters, or that characters nobody typed got in: if the first `vm_dcl_read` fails or has
nothing, the code goes on with a `recv` that was never written (`console.c:344-354`), and `Received` is then any text.

**Server** and **Graph** are the two halves of `index.php`. A request to the
first is a signed or unsigned list of values with a time; each insert may
fail. The second (`GraphSpec`) starts from whatever table those requests left, selects
the rows of a span of time in the order of the table, and walks through them with the
loop's look-ahead; `page` says how far it is.

**Outbox** is what somebody may expect who only sees reports made and reports
answered. `Delivery!Place` says where a report is: `kept` if it was written
whole, under a name of its own, and its file is there; `adrift` if it was torn, not
written, or shares its name; `gone` if its file was deleted. `Answers` counts
what the server answered.

## 3. Runs

| Run | Instance | States | Shows |
|---|---|---|---|
| `afifo` (`MCAfifo.cfg`) | batches of 3, ring of 3, values {-1, 1, 2} | 15 thousand | type, sortedness, only measurements are handed out, refinement of both abstract queues |
| `afifo_single` (`MCAfifoSingle.cfg`) | batches of 1, ring of 4 | 3.5 thousand | the other arm of `afifo_write` |
| `afifo_locked` (`AfifoLocked.cfg`) | batches of 3, ring of 3, two threads | 58 thousand | refinement of `Afifo`; nobody is in the middle of an operation when it is freed; a reader gets through |
| `delivery_faults` (`DeliveryFaults.cfg`) | 2 reports, 2 names, 2 exchanges, every fault once | 288 thousand | the six safety properties, and refinement of `Outbox` |
| `delivery_console` (`DeliveryConsole.cfg`) | the same with a console, faults `failed` and `rejected` | 853 thousand | `NoSilentLoss` with a console |
| `delivery_live` (`DeliveryLive.cfg`) | the faults that pass, once each | 68 thousand | every report on disk is answered in the end |
| `delivery_termination` (`DeliveryTermination.cfg`) | one termination | | violated: see section 5 |
| `measure_sessions` (`MeasureSessions.cfg`) | 2 slots, 2 threads at a time, 3 buffers | 54 thousand | memory, handles, threads |
| `hx711_measurement` (`Hx711Measurement.cfg`) | 4 bits, 2 polls | 906 thousand | every value and input, with timeouts and delays at every pulse |
| `main_thread` (`MainThread.cfg`) | ring of 3, bodies of 3, 9 measurements; lines of up to 5 characters, room for 3, pieces of 3, or a read that fails and up to 4 characters on the stack; lengths at and around each limit, 2 requests at a time; the program's own 21 steps of blinking | 92 thousand | what reaches a report, a command, a request and the LEDs |
| `web` (`Graph.cfg`) | 2 times, values {-3, 0, 1, 4}, up to 2 in a report, 2 posts, 1 insert that fails, a limit of 3 rows | 980 thousand | what is stored, what `ok` says, and what the chart makes of it |
| `startup` (`Startup.cfg`) | files of up to 4 lines of 10 kinds, and each value of up to 4 characters; defaults of two lines, room for 4 characters in the key and 5 in a number, a long of 12 bits | 567 thousand | `strtok` finds what a reading by lines finds; which texts are integers; the device's key is the server's |

Why the bounds are enough. *Afifo*: three elements are the fewest with a middle
that is neither first nor last; negative, positive and repeated values occur; a
ring of three wraps with one or two elements in it. The proofs cover all
sizes. *Delivery*: the reporter handles one report at a time, so two reports
give every relation of a report to "another one", and with two names they
share one or do not; a third exchange could only be the console's once more.
The proofs cover any number. *Measure*: two users, each with one
session at a time; a second thread of the same user needs a second
`handle_details`; the third buffer is for a session after one that was closed.
*Hx711*: the protocol treats bits alike except the first and last; four bits
have two in between, and values of both signs and both bounds.
*ReportDrain*: ring and body are equally long in the instance, as good as in the
program (12 or 60 against 79, where the ring is the narrower); nine values fill
the ring three times, over several reports. *Console*: a line takes two
callbacks or more to overflow, and four characters at once are more than a piece.
*Compose*: the lengths of each part lie on both sides of each `if`, and a report
has 0, 1, 79, 80 or more values of the shortest and longest kind; the proofs cover
any length. *Lights* has no bound. *Startup*: with four lines a bad one can stand before, between and after
good ones; the kinds of lines are every way to lack a key, a value or `=`, one
with a second `=`, one with a `=` in front and one whose value is too long for each buffer; the characters of values stand for
every class `strtol` tells apart; four characters overflow a long of 12 bits
and are a key of two bytes, a fifth is one too many. *Web*: a report may be posted
again whole, after a partial failure, or together with another one of the same time; four values
exceed the limit of rows; a peak may stand in the middle, at the end or at the beginning of a report.

Deadlock is checked in the other runs, but not where the system may stop. In Delivery
and Measure the reports are used up, the reporter is wedged, or the program has
ended; in `AfifoLocked` the afifo is destroyed; in `MainThread` the measurements are used
up, or nothing happens after a start that failed before there was a console; `Startup` and `Graph` are a
conversion and a page that end.

Fairness. `Delivery`: weak fairness of the resend timer, which `main.c:239-242`
starts when `resend_interval` is positive (62 s by default) and which fires for
ever; of the https service for each exchange it accepted; and of the reboot
after `vm_pwr_reboot`. Nothing is assumed of the report timer or of the
console. Weak fairness suffices for the resend timer because the report
timer cannot keep the reporter busy for ever: it fires `MaxReports` times in the
model, and in the program only every ten minutes. `Measure`: weak
fairness of each thread, none of which waits for anybody for longer than the
few assignments under its mutex. `AfifoLocked`: weak fairness of both threads
inside an operation, and strong fairness of the main thread's taking the mutex,
since it has the higher priority of the two and the mutex is free between any
two writes; neither has to begin an operation.

What the less obvious properties say:

- `NoSilentLoss`: as long as the console's requests do not overlap with the
  reporter's, a report completely written to a file is on disk or was answered
  by the server, unless its name was given to two of them. Answered includes
  404: the code does not look at the status (`report.c:149, 179`).
- `WedgedOnlyByFault`: `reporter_busy` without an exchange that will end it
  comes about in three ways only. Each of them stops all reporting until the
  next restart, and none is handled in the code.
- `NoNeedlessRepeat`: the server sees a report twice only after a lost
  answer, a failed delete or a restart. It has no way to recognise it
  (`web/index.php:85`).
- `OneLateMeasurement`: after `close_hx711` returned, the old callback is called
  at most once more. That is why the buffer may not be freed by the caller.
- `MisuseExplained`: freed or absent memory is used only after an unchecked
  failure of command O, a command out of turn (C before O, O before the last
  session's thread has ended, ...), or VM_EVENT_QUIT after a start that failed.
- `DeliversConversion`: what a measurement hands to its callback is the
  converter's last conversion, of the input asked for, unless this very
  measurement was spoilt; a spoilt one may deliver any value. It does not harm the next, because
  standby resets the converter.
- `ImplementsAfifo`: whatever the two threads do, what the other one sees at the
  next lock is what one operation of `Afifo` after the other would have left.
- `FreedUnused`: when `afifo_destroy` frees the fifo, no reader is in the middle of `afifo_read`. One that waits for the
  mutex waits for ever, on freed memory, and one that comes later uses it: this the mutex cannot
  prevent, and `MisuseExplained` says which commands out of turn lead to it.
- `ReadReturns`: a reader that waits for the mutex gets through, unless the fifo is freed.
- `OpenMeansServed`: an open handle has a thread that looks at its task again, unless `vm_thread_create` failed, whose
  result `open_hx711` ignores (`measure.c:254`, `no_thread`): that handle is open and never measures.
- `NoLeak`: as long as nothing went out of turn, each live buffer belongs to a session, or to a thread that will free *this*
  buffer by its last callback.
- `NothingLost`: the values reported, those read by a loop under way and those
  waiting are all values measured, unless (`lossy`) an interval brought more
  than the ring or a body takes, or reports were switched off. In those cases
  values do get lost, without a trace.
- `ImplementsOutbox`: a kept report goes only after it was answered, is never
  heard of again once it is gone, and becomes adrift in no other way than by
  a later report of its name. Without a console only: one that uses telecom during an
  exchange has the file deleted on its own answer.
- `ContentLengthTrue` and `ReportsWhole` speak of requests that no reply was
  copied over before they were passed on (`own`); the code does not prevent
  that, but it takes an overlap of two requests.
- `BlueTellsBusy`, `RedTellsSim`: from the first time somebody switches that LED after
  the boot blink. Before that a report may be on its way with the blue LED dark.
- `FileThenDefaults`: for a file of proper lines, ended or not. The last line, if it is
  not ended, and the first default become one line whose value is the rest of both.
- `DamageIsLocal`: given a proper line with the name and a value that fits, below a proper line or the first of the
  file, the value found is that of this line or of such a one above it, whatever damage stands further up: `strtok` gets back
  into step after one line. Excepted is a damaged line that has the name itself: after `k=` the next line, whatever it is,
  becomes the value of `k` (`conf.c:59`), and `k=3` further down is not looked at. This the code does not prevent.
- `IntAsWritten`: plain decimal numbers mean what they say, up to the size of a
  long, and nothing may follow a number, so that a file with CR LF is refused. A
  leading zero makes a number octal.
- `SameAsServer`: for keys made of digits. `strtol` also takes a blank or a sign for
  the first of two digits, which `hex2bin` does not: those keys are accepted here and useless.
- `RunAsTyped`: lines of which no part came together with a piece or more of
  others, or in a callback whose first read failed (`garbled`); `usb_receive_callback` only looks at the last piece
  (`console.c:352`). The lines after a garbled one are run as typed.
- `OkMeansShown`: a chart without the filter, of rows that the limit did not cut, has a point for
  each value of its span that was answered `ok`, except for zeroes, which are never stored, and for inserts that
  failed (`failed`), whose result nobody looks at.
- `LabelsEndReports`: given that each report has its row 0. One whose first
  value was zero has none, and the label before it is missing.

## 4. Proofs

All are checked by TLAPS, for every value of the constants that the named assumptions allow; the
runs of section 3 evaluate each of them for their instance.

| Assumption | Says |
|---|---|
| `SizeAssumption`, `ValuesAssumption`, `LockedAssumption` | batches and rings of at least one, measurements are integers |
| `TelecomAssumption`, `ReportAssumption`, `DeliveryAssumption` | the special values are none of the others, counts are natural numbers |
| `MeasureAssumption` | `NULL` is neither a thread's data nor a buffer; there is at least one slot |
| `DrainAssumption`, `MainThreadAssumption` | limits and sizes are positive; a value of a report takes up to nine characters: a sign, seven digits for 24 bits, and what separates it from the next (`ComposeAssumption`) |
| `Hx711Assumption` | a value has at least one bit |
| `ConfAssumption`, `StartupAssumption` | texts are made of characters, names of such that are neither `=` nor the end of a line; the buffer for the key has room for its digits and the zero |
| `ServerAssumption`, `GraphAssumption` | values are integers, bounds, times asked for and the zero are natural numbers, the scale is at least one |
| `DefaultsAssumption` | the lines of `conf_defaults.h`, but not those of the file, are proper |

Most invariants need no induction but the one over steps. Where a recursive function or a
minimum is involved (`Power`, `FlattenSeq`, `Selected`, the worth of digits, the first line that answers, the first character
of a token) the proof is by the least counterexample: `<` is well-founded on the natural numbers (`NatLessThanWellFounded`, `WFMin`), so a property
that fails somewhere has a first place where it fails, and that place is examined.

**AfifoProofs.** `TypeCorrect`, `AlwaysSorted`, `AlwaysMeasurements` follow from
one inductive invariant: the type invariant, the sorted part of the bin, and
"every filled bin cell and every waiting slot holds a member of Values".
`BinSorted` alone is preserved, given that the scan stopped where `StopsAt` says;
that what is read was measured needs the others, since a median is taken from
the bin into the ring and from the ring to the reader. Lemmas describe
`Waiting` and `WaitingSlot` without the modulus. `RingIsBoundedQueue` shows,
step by step, that `afifo_write` is `Put` of a measured value or a stutter, and
`afifo_read` is `Get` or `GetNothing`, with `Contents` as the queue; a ring of
one slot (capacity 0) is included.

`AfifoIsMedianQueue` goes further: what is put is the median of the batch that it completes. The abstract queue
collects a bag, which knows no order, the code a sorted array. `TimesIsPlaces` leads the one back to the
other: the copies of some values in the bag are as many as the places of the array that hold one of them. `InsertedCounts`
says that an insertion adds one to the count of its own value, wherever the scan stopped, and
`MiddleIsMedian` that in a sorted array at most `bin_size \div 2` places hold less than the middle element and more than
that hold no more than it, of no other value: which is what `MedianQueue` calls the median, duplicates included.

**DeliveryProofs.** `NoSilentLoss` is not inductive: that a completion may
delete the file rests on its being the file that was sent
(`DeletesWhatItSent`), that rests on there being one exchange at a time
(`OneAtATime`), and that a sent report was heard of needs a connection between
the exchange's stage and the server. The inductive invariant `IInv` joins

- `TypeOK`,
- `AnsweredIsHeard`: an exchange that is answered has its report stored or
  rejected by the server,
- `Attended`: while an exchange is under way `done_cb` is one of the known
  callbacks, and if it is the reporter's, `current_report_filename` is a name,
- `OneAtATime`, `DeletesWhatItSent`, `NoSilentLoss`, `WedgedOnlyByFault`.

Each action has a lemma; the composition is in `Invariance`, and the theorems
`TypeCorrect`, `ReportsNotLost`, `RightFileDeleted`, `ReporterExclusive` and
`WedgesExplained` follow.

`DeliveryIsOutbox`: without a console (`~Console`), `Delivery`
implements `Outbox`, for any number of reports, names, exchanges and faults. Step by step:
each action is mapped to `Make`, `Hear`, `Discard` or a stutter. `IInv` does not suffice:
that a discarded report was *kept* until then, and that nothing is heard of a
report that is gone, needs three more parts, joined to it in `OInv`:

- `OnlyMade`: files, bodies and messages hold only reports that were made, so a report
  being made is in none of them;
- `SendsWhatIsKept`: a stored report that is being sent is on disk still, so
  no answer comes for one that is gone;
- `Undisturbed`: nobody mixes requests, and telecom's callback is never the
  console's. This is where `~Console` is needed: with overlapping requests the refinement is
  false, and the program does lose reports.

`SentOnce` adds to this that nothing is sent twice (`NoNeedlessRepeat`). As long as none of the repeating faults
happened (`Steady`), `Once` holds: the device is not about to reboot, a report is in at most one file
(`OneFileEach`), and one the server has stored is stored once, and if its file is still there, then
only because the exchange that carried it is not over (`StoredOnce`). So no later exchange can pick it up.

**AfifoLockedProofs.** `LockedIsAfifo` is the refinement of `Afifo` by two threads that go statement by statement.
The invariant `LockedInv` says that the mutex is held by whoever stands between lock and unlock
(`Exclusive`), so that only one of them can be in the middle of something; and for each `pc` how the fields differ from
`before`, what they were at the lock (`WriteUnderWay`, `ReadUnderWay`). During the insertion this is `MovedUp`: the part of
the bin above the gap has moved up by one and is greater than the value. Where the loop ends, the gap is where `StopsAt` of `Afifo`
puts the value, so at the unlock `fields` is what the one step of `Afifo` makes of `before`. With `RingIsBoundedQueue`,
`LockedIsBoundedQueue` follows, and with `AfifoIsMedianQueue` `LockedIsMedianQueue`. `NoReaderInFreed` comes from `Exclusive` as well: who
frees the fifo holds its mutex, and never gives it back.

**MeasureProofs.** For any number of slots, threads and buffers. `OpenMeansServed` is inductive as `OpenListens` and
`MissingTold`: only a thread that was never created is missing, and that was noted. `OneLateMeasurement` is
inductive only as `LateLeaves`: a thread that was late once has TERMINATE for its task, and is between two measurements or leaving.
The deepest is `MisuseExplained`, that nothing is used after it was freed as long as nothing was
out of the ordinary: `Orderly` describes such a history completely. The main program and the console share no slot, thread or
buffer (`Apart`, `OneThreadEach`), a thread that may still deliver has a buffer that is alive (`AliveWhileUsed`), a thread leaves
with TERMINATE and with the callback that goes with it (`LastTaskTaken`), the report timer runs only on
an open session (`TimersOfOpen`), and a live buffer has an owner (`AliveIsOwned`), from which `NoLeak` follows.

**Hx711Proofs.** For values of any width and any patience. `HxInv` counts for the code and for the converter: while the
measurement is not spoilt, bits read and pulses given agree (`InStep`), what has been read is the beginning of the value, as
a number (`OnItsWay`), and what is being converted is the input asked for. A conversion that ends under way (`UnderWay`) breaks each of these, and spoils. `FreshStart` says that a spoilt measurement leaves nothing behind, since
standby resets the converter. That shifting in `Width` bits and taking off the sign gives the
value back is arithmetic about `Power`.

**MainThreadProofs.** Each step of `MainThread` is a step of one of its four parts and leaves the others alone,
so an invariant of the part is one of the whole.

- `CInv`, requests: `TypeOK`, the two properties of `sent`, and `Composed`: what lies in the buffers belongs together unless a
  reply replaced it. `sent` is a copy of the buffers, so its properties need `Composed` one step earlier.
- `LInv`, LEDs: the three properties and `Quiet`: nothing is switched before the start, and nothing counts as
  settled while the blinking goes on. So no step of the blinking touches an LED that somebody else has switched.
- `DrainInv`, values on their way: read as one sequence (`Journey`: reported, being read, waiting), they are in ascending
  order (`Sorted`), for `InOrder`. For `NothingLost`: either something was too much (`lossy`), or there is room
  for what the interval brought (`RoomLeft`) and the journey is all numbers from 1 on (`Complete`).
- `EditorInv`, the line: what has been collected is what was typed, unless it was garbled or the line was found to be too long (`LineKept`).

**StartupProofs.** For files and defaults of any number of lines of any length. The property speaks of lines, the code of
tokens; the invariant has to relate where `strtok` stands to the lines. `Searched`: in a text of proper lines the search always
stands between two lines, and no line it has passed answers. `NotMissed`, for damaged files: the search never passes over a proper line with the name (`Goal`) that is
the first or follows a proper one, because a token that begins in the line above ends there; and if what it took for the key is the
name, it stands in a proper line (`NamedProperly`). The latter is where damaged lines with the name have to be excepted: a name has
no newline in it, so what `strtok` takes for it stands in one line, behind nothing but `=`s, and this line is proper or `HasName`
(`NameInLine`). So what is found at last is the value of a proper line (`FoundUpTo`). `Token` and
`TakesProper` say what the two calls of `strtok` do with a proper line, and `JoinedProper` what lines the file and the
defaults form together, where the last line of the file may not be ended. `KeyInv`: the bytes converted
so far are the first bytes of what `hex2bin` makes of the digits.

`PlainNumbersAreRead`: `strtol` goes from the left and multiplies what it has by the base (`Number`), a reader adds up what each
digit is worth at its place (`DecimalValue`). `Horner` shows by the places that the two agree: what the first `n` digits
make, times the place of the `n`-th, is what they are worth. `PlainIsDecimal` takes `strtol` apart for a text
with no blank, sign or zero in front, `EndsWithDigit` for any other: each part that it works on is an end of the text (`EndOf`), so
that a number that goes to the end of its part goes to the end of the text.

**GraphProofs.** `SelectedPicks` says of the recursive `Selected` that it keeps what is wanted, all of it, and in order: there
is an increasing map from the places of the result to those of the argument. `TableInv` is the correspondence behind both
properties of the data: a one-to-one map (`Matches`) between the rows of the table and the values that an answer `ok` stands for
(`Stored`: signed, not zero, insert not failed), in which a row has the time, the place and the number of its value. A post that is answered
extends it by the rows of its report (`RowsOfReport`), any other leaves it alone (`PostKeepsTable`). `RowsAsSent` follows by
counting along the map in one direction, `OkMeansShown` in the other, then along `SelectedPicks` to the rows that the query
found and along `PageInv` to the points. `PageInv`: the query has found what was asked for, and
the points drawn so far are those of the first rows (`Point`), each by what the rows beside it say; the last is added after the loop.
`LabelsAreTrue` reads the labels off `Point`. `FilterLowersPeaks` needs that `calibrate` keeps the order of values (`CalibrateGrows`,
the division cuts off towards zero on both sides of it) and that the mean of two neighbours lies between them.

Only model-checked: liveness (`EventuallyAnswered`, `ClosedEnds`, `ReadReturns`), since fairness is about
what is enabled, and ENABLED is out of this prover's reach. All the other properties of the passing runs are theorems.

## 5. What the model showed about the code

`include/vmhttps.h:284` says that on an https termination "the application
should clear all information at termination, and start again".
`https_termination_cb` (`telecom.c:47-49`) is empty: after a termination during
an exchange `reporter_busy` stays TRUE, and nothing is sent until the device is
restarted (run `delivery_termination`).

The hazards that a property only excepts, and that do happen in the code, are
described in `PROJECT.json`: overlapping console requests, reports of the same
second, commands out of turn, QUIT after a failed start, unchecked results.

## 6. Not modelled

- Nine tenths of the repository's lines are third-party: the SDK's headers in `include`,
  libraries, `tools` and `web/libchart`. They are declarations, or have nothing to do with
  what the device does. What the program sees of them (the https service, timers,
  files, threads, the mutex, the converter, `strtok`, `strtol`, the database) is
  modelled where it is used, and marked external.
- Undefined behaviour at sizes below one (`measurement_aggregation`,
  `measurement_buffer_size`): assumed positive.
- The characters of reports, signatures and URLs (their lengths are in `Compose`); the
  status code, which only goes to the console.
- Running out of memory in `read_conf_string`; which keys of the configuration
  `main.c` reads in which order. Any of them missing fails the start (`Lights!Create`).
- The console commands that only show something or set what is shown or posted
  from the console: H, P, B, N, S, I, E, T, M, R c. That command O redirects the
  reports to another server (`console.c:235`): `Delivery` has one server. All
  of Q is a reboot (`console.c:281`), which is in `Delivery`.
- `set_report_http_host`, `_path` and `_hmac_key`, which only store what they are given.
- What the zero does that `append_cmdline` writes behind `recv` (`console.c:328`) when a whole piece arrives without a newline,
  or wherever the text on the stack ends when nothing could be read (`console.c:352`): it is on the stack, and not part of any state
  that outlives the callback.
- `log.c` and `report_console`: output only. What VM_EVENT_QUIT does with LEDs, console
  and log: the program is over then.
- The telephone and SMS callbacks of `telecom.c`: never registered.
- How `index.php` draws: libchart's part, from the points on. A scale of zero (`index.php:118`), which
  divides by zero. The query has no ORDER BY (`index.php:184`): a report that was delayed appears
  after newer ones, as in the model, whose table keeps the order of the inserts.
- What the reader of a reply makes of a body of exactly 1024 bytes, which has no zero at its end
  (`telecom.c:80`): `Compose!TypeOK` lets it happen, the console would print on behind it.
- A key in the file that is too long for its buffer: `read_conf_string` goes on to the next line, so that the default
  key is used without a word. `FileThenDefaults` has it, as one of the lines that are not proper.

## 7. Plan

What is left, the most useful first:

1. In `Delivery`, a second server for command O (`console.c:235`).
2. Of the three liveness properties, the safety parts of their arguments: that what each step counts down never goes up.
