# TLA+ models of the maystorm kernel

This directory holds TLA+ models of parts of the maystorm kernel, the TLC
configurations that check them, and `PROJECT.json`, which records:

- the components and what is modelled of each;
- the runs;
- the mutants that show each property can fail;
- the map from each definition to the source lines it translates;
- the findings and the hazards.

The core is the preemptive multi-CPU scheduler in `src/src/myos/scheduler.rs`.

## The system

### The scheduler (`src/src/myos/scheduler.rs`)

**ThreadQueue**

- A ring of `ThreadHandle`s whose capacity is a power of two.
- `read` and `write` run inside a spinlock.
- `write` refuses when the slot after `write` is the `read` slot, so a queue holds `capacity - 1` handles.
- `write` then claims the slot with a compare-exchange from NULL.
- `read` swaps NULL into the slot and advances.

**GlobalScheduler**

- Three queues: `urgent`, `ready` and `retired` (each of capacity 512).
- The `LocalScheduler`s, one per CPU, and `is_enabled`.
- `start` creates one idle thread per CPU, then 30 `scheduler_thread`s and the entry thread. It retires all of them and enables the timer.
- `reschedule` runs from the timer interrupt. It consumes the current thread's `Quantum` and switches when the quantum expires.
- `wait_for(object, d)`:
  1. registers the thread in a `SignallingObject` (`set().unwrap()`);
  2. sets its deadline;
  3. switches.
- `signal(object)` unboxes the object.
- `next` is the dispatch decision:
  - It takes `urgent` first, then scans `ready`.
  - During the scan, threads still sleeping go back to `retired`.
  - When `ready` is empty it moves all of `retired` into `ready` and returns `None`, so the idle thread runs.

**LocalScheduler::next_thread** performs the switch:

1. It parks the outgoing thread in the CPU's `retired` slot.
2. It resets the outgoing thread's quantum.
3. It calls `sch_switch_context`.
4. When the thread is resumed, possibly on another CPU, it fetches that CPU's local scheduler again, clears its own deadline and retires the thread that CPU parked.

A thread's first run goes through `sch_setup_new_thread` instead, which does the same retire.

### The USB hub drivers (`src/system/kernel/src/bus/usb/drivers/usb_hub.rs`)

`Usb2HubDriver` and `Usb3HubDriver` each run two async tasks per hub:

- the **hub task** (`_usb_hub_task`) schedules `init_hub`, waits for it, then loops on the hub's status-change endpoint; for each changed port it reads the status, and on a connection change sleeps `power_on_to_power_good`, clears `C_PORT_CONNECTION` and calls `attach_device`, which schedules `_attach_device` and waits for it;
- the **configuration task** (in `UsbManager`, shared by all hubs) runs the scheduled futures one at a time: `init_hub` (power the ports, attach what is connected) and `_attach_device` (reset the port, read and clear its changes, hand the device to the host).

They hand off through the hub's `AsyncSharedLockTemp`: `lock_shared` before scheduling, a guard from `unlock_shared` dropped when the future ends, and `wait()` returning when no share is held. USB3 differs in `init_hub` (it configures the hub in the host, which can fail, and reads each port's status before powering it) and in `_attach_device` (a warm reset, then a poll until the link is up or a deadline passes, and a fresh status read before attaching).

### The HID report parser (`src/system/kernel/src/bus/usb/drivers/usb_hid.rs`)

`parse_report` reads the report descriptor item by item, keeping a collection stack, a Push/Pop stack of global states, the local usage list and the current application. Main items become entries of the current application; applications are stored under their report id (`tagged`) or as `primary`. The report loop of `_usb_hid_task` later picks the application for each report with `app_by_report_id(buffer[0])` or `primary_app()` and walks its entries to find each field's bit offset.

### The device filesystem (`src/system/kernel/src/fs/devfs.rs`)

`install_minor_device` takes a minor number from an atomic counter (`fetch_update`, bounded by `MAX_MINOR_DEVICE`) and then inserts the entry in a mutex-protected `BTreeMap`. `read_dir(ROOT, index)` returns the index'th entry, taking the mutex anew on each call; `find_file`, `open` and `stat` look entries up by name or by inode.

`PROJECT.json` lists every component with its status.

### What is hard

**Preemption, migration and the parked thread**

- A thread must never be in a queue while its context is still live on a CPU.
- The resumed side must find the thread the *switching* CPU parked. It may not be the CPU the thread left.

**Several CPUs on shared queues**

- Every queue call is atomic.
- `next` is a loop of many such calls. The other CPUs interleave with it.

**Lazy deadlines**

- Sleeping is only checked while `ready` is scanned.

**Bounded queues with `unwrap`**

- Any overflow panics the kernel.

## Modules

**`ThreadQueue`**

- Pure operators: `WithCapacity`, `Read` and `Write`.
- A queue is a record `[buf, read, write]`, with the counters kept modulo the capacity. This is exact for a power-of-two capacity.
- `Read` and `Write` return the new queue together with the method's result, so one module can apply them to several queue variables.

**`BoundedFifo`**

- The abstract specification of a queue: a FIFO of at most `Cap` handles, with the value each call returns.

**`ThreadQueueClients`**

- One queue under arbitrary concurrent readers and writers.
- A refinement mapping (`Contents(q)`) shows it implements `BoundedFifo` with `Cap = Capacity - 1`.
- It is checked against `Cap = Capacity`, the capacity spec.md states.

**`Scheduler`**

The whole scheduler. The table lists how its state corresponds to the code.

| variable | code |
|---|---|
| `urgent`, `ready`, `retired` | the three `ThreadQueue`s of `GlobalScheduler` |
| `current[c]` | `LocalScheduler.current` |
| `pending[c]` | `LocalScheduler.retired` (the parked thread) |
| `pc[c]` | where CPU `c` is in `next`/`next_thread` (interrupts masked) |
| `hand[c]` | the handle `next` holds between two queue calls |
| `fault[c]` | why CPU `c` panicked (an `unwrap` or `expect` that failed) |
| `quantum[t]`, `deadline[t]`, `fresh[t]` | `NativeThread.quantum`, `.deadline`, and "not run yet" |
| `slot[o]` | the handle inside `SignallingObject` `o` |
| `woken` | threads whose object was signalled since they last ran (history for a property) |

Modelling choices:

- Each step of `next` that calls a queue is one action, so CPUs interleave at queue-lock granularity. Examples are `NextReady`, `NextSleeping`, `RetireSleeping`, `RefillTake` and `RefillPut`.
- The switch (`SwitchTo`) is part of the action that chose the thread. `Resume` and `SetupNewThread` are the code after the switch.
- A deadline is `"null"`, `"future"` or `"past"`. `Expire` is the clock passing it.
- A panic halts its CPU, which then only stutters (`Halted`).

**`UsbHub2`, `UsbHub3`**

One hub each. Hardware variables (`present`, `powered`, `enabled` for USB3, `chg`, `resetting`) change concurrently with the tasks through `Hotplug`, `ResetDone` and, for USB3, `LinkUp`. `shared` is the lock's share count, `jobs` the configuration task's queue of futures (tagged with their hub), `hpc` and `cpc` the two tasks' positions. Every await ends a step, and so does a status read. A status read and the feature clears that follow it are separate steps wherever a hardware event between them can be lost:
- USB2 `_attach_device` reads the status (`AttachStatus`) and then clears the bits it showed (`AttachClear`). A hot-plug in between sets C_PORT_CONNECTION again, and the clear erases it.
- Consecutive clears of different bits are one step. So are a read and its clears where the only bit cleared is one that nothing else can set in between: the hub task's non-connection changes, and USB3 `_attach_device`, which clears the reset changes and leaves C_PORT_CONNECTION set. `host.attach_device` is not in the repository: for a device that left since the status was read, it may return `Err` (the `unwrap` panics, `cpc = "panic"`) or `Ok`.

**`UsbHubs`**

Composes a USB2 and a USB3 hub by `INSTANCE ... WITH`, renaming each hub's own variables and sharing `jobs` and `cpc`: one configuration task serves both.

**`HidReport`**

`parse_report` over descriptors given as decoded items (`App`, `Phys`, `End`, `Input`, `Output`, `Rid`, `Usage`, `Count`, `Push`, `Pop`); one action per arm of the tag match. The reference definitions (`Unbalanced`, `CtxBefore`, `GlobalsBefore`, `RidAt`) are RECURSIVE operators stating what the HID specification gives each item.

**`HidBits`**

`write_bits`, `read_bits` and `read_bits_signed` as operators, and the report loop's walks over an application's entries: the keyboard LED flash (`LedFlash`), and the keyboard and mouse decoding (`DecodeKeyboard`, `DecodeMouse`). Each walk accumulates `bit_position` exactly as the task does. `write_bits` gives a set of outcomes: `size - position7` is a `usize` subtraction, so a build with overflow checks panics and a build without them wraps. Reads past the slice (`get_unchecked`) see the buffer's next byte, or a stray byte past its end. The reference definitions (`Bit`, `FieldValue`, `Offset`) give the HID report format bit by bit.

These checks are constant-level: TLC evaluates them once. `MC_HidReport` states them as invariants that hold once `parse_report` has returned Ok, the point where `_usb_hid_task` starts using the helpers.

**`Fonts`**

The Hershey font code of `src/src/kernel/src/io/fonts/font.rs` as pure operators: `search_for_glyph` (`SearchFrom`, `RecordEnd`), `HersheyFont::new` (`HersheyNew`), `glyph_for`, `width_of`, `draw_char` with `draw_data`'s walk over the stroke pairs (`Strokes`, `Vertex`, with Rust's truncating division), `FixedFontDriver::new`, `FontManager::init` (`FontManagerInit`, the family table in insertion order), `driver_for`, `system_font`, `title_font`, `label_font` (`FallbackFont`), and `FontDescriptor::new` and `draw_char`. A panic is the value `Panic`; `glyph_for` of a control character is a set, `{Panic, NoGlyph}`, for the two builds. The Hershey files are `include_bytes!` of files that are not in the repository, so the font data is a parameter; `MC_HidReport` supplies six files built from five glyph records. Drawing returns the list of line segments instead of touching pixels. The references (`Records`, `Malformed`, `GlyphTable`, `Segments`) read the record format directly: line-separated records, a five-byte id, a three-digit pair count, left and right bounds, then coordinate pairs offset by `R`, with ` R` lifting the pen.

**`DevFs`**

Installers (drivers) allocate and insert in two steps; a directory listing calls `ReadDir` by index. `FindFile`, `Open`, `Stat` and the inode conversions are operators.

**MC modules**

They fix the CPUs, workers, capacity, objects, ports, events, installers and descriptors for TLC. `MC_Scheduler` adds a history variable, `owed`: for each worker, the runnable workers that were in the ready queue at its last dispatch and have not run since. `RoundRobin` is stated over it.

## Runs

| run | cfg | expect | what it shows |
|---|---|---|---|
| queue_fifo | MC_ThreadQueue.cfg | pass | The ring stays well formed and implements a FIFO of `C-1` handles, returns included. |
| queue_capacity | MC_ThreadQueue_full.cfg | violation | The queue does not hold `C` handles (spec.md §8). |
| sched_safety | MC_Scheduler.cfg | pass | See the list below. |
| sched_uni_live | MC_SchedulerUni.cfg | pass | On one CPU, with the entry thread waiting on and signalling an object, threads stay conserved and every worker runs infinitely often unless the kernel panics. |
| sched_smp_live | MC_SchedulerLive.cfg | violation | On two CPUs a worker can starve (the refill loop). |
| sched_signal_next | MC_SchedulerSignal_next.cfg | violation | A signalled waiter is not dispatched next: `signal` drops the handle. |
| sched_wait_panic | MC_SchedulerSignal_panic.cfg | violation | Waiting again on an object after a timed-out wait panics. |
| hub_handoff | MC_UsbHubs.cfg | pass | A USB2 and a USB3 hub on one configuration task: each hub task resumes only when its own futures are done (`WaitMeansDone`), always resumes (`WaitReturns`), and every change bit is eventually cleared (`ChangesAcknowledged`). |
| hub_lost_connection | MC_UsbHub2_lost.cfg | violation | A device unplugged and plugged back during the debounce sleep is never attached (`IdleHubUpToDate`). |
| devfs_registry | MC_DevFs.cfg | pass | Concurrent installs with the numbers running out: every installed device is found by name and opens and stats by its inode; a listing shows every device present when it began. |
| hid_parse | MC_HidReport.cfg | pass | `parse_report` fails exactly at the first unbalanced End Collection or Pop (`ParseErrorsExact`), and the report loop finds each report id's items in its application (`ItemsKept`). It also checks three things against the bit-level report format. `read_bits` and `read_bits_signed` give every field that fits, whatever byte follows the buffer (`ReadBitsExact`). The LED flash lights exactly the LED fields when it does not panic (`LedBitsExact`). Keyboard and mouse reports decode to the fields their layout places in them (`ReportDecoded`). |
| hid_parse (fonts) | MC_HidReport.cfg | pass | Same run. `FontManager::init` builds exactly the glyph table of a well-formed font file and panics on an unterminated last record, CR LF line ends or a short record (`GlyphTableExact`). Every descriptor the manager hands out, the title and label fonts included, draws each printable character as the strokes its record encodes at its point size (`StrokesDrawn`). |
| hid_field_count | MC_HidReport_fields.cfg | violation | A usage list that does not divide the report count gives the item fewer fields (`FieldsCounted`). |

`sched_safety` checks that:

- every worker is in exactly one place and idle threads never enter a queue (`ThreadsConserved`);
- no queue overflows;
- round-robin (`RoundRobin`, spec.md "Round-robin fairness"): a worker waiting, runnable, in the ready queue when another worker is dispatched runs before that worker runs again, whichever CPUs scan, retire and refill;
- every dispatch starts a full quantum.

### Bounds

All runs use queues of capacity 4, so 3 handles fit. This is small enough to explore and still large enough for the interesting cases:

- With three workers on two CPUs (`MC_Scheduler`), the `retired` queue reaches its full three entries, every ring index wraps, and migration happens: a thread parked by one CPU is resumed by the other.
- `sched_safety` gives the priorities time slices of 4, 3, 2 and 1 ticks (`MCQuantumOf`) instead of the code's 25, 10, 5 and 1. The order is the same and a slice still expires at 1. No property there counts ticks, and each extra tick of a running thread's slice only multiplies the states.
- Two workers are enough for the refill livelock.
- One object and the entry thread are enough for a wait, a timeout, a signal and a second wait.

The code runs 31 threads in queues of 512. The model keeps the property that matters: the threads fit in `capacity - 1` slots.

- **Hubs.** The composed run has one port and one plug or unplug per hub: enough for each hub's `init_hub`, a hot-plug attach, a panic on a vanished device, a USB3 poll timeout, and both hubs' futures queued on the one task together. Two ports or two events per hub take too long with the liveness properties. The lost-connection run uses the USB2 hub alone with two ports and three events.
- **DevFs.** Four installers and `MAX_MINOR_DEVICE = 5`: numbers 2, 3 and 4 are handed out and the fourth installer finds the counter exhausted, the same boundary as `0xFFFF`. Symmetry over the installers is sound: the properties treat them alike.
- **HID.** Every descriptor of up to three items (all error positions of End and Pop), one application with a body of up to three items, and two applications with bodies of up to two: report id switches, resumes, Push/Pop around counts, physical collections inside applications.
- **HID bits.** `read_bits` is checked on all three-byte buffers over four byte patterns, at every bit position, with widths from 1 to 16 bits, including the widths that end on a byte boundary, where the extra byte is read. The decoders are checked on six applications, each as `parse_report` gives it:
  - two boot keyboards, one with padding before its LEDs;
  - a keyboard with report ids;
  - a boot mouse;
  - a report-id mouse with unaligned 12-bit axes;
  - an absolute tablet.

  Each is decoded from three 64-byte reports.

- **Fonts.** Six font files: a well-formed one of five glyphs (one empty, one with a pen lift, one with negative offsets, one with a tens digit in the pair count), the same with CR LF line ends, without its final line end, with a trailing short record, an empty file, and 96 records followed by a short 97th (the table stops after 96 glyphs and never reads the 97th). Point sizes 16, 21, 32 and 45 cover scaling down, up and by non-integer factors, where truncation toward zero matters for negative offsets. Every printable character is drawn.

### Fairness

The liveness runs assume:

- weak fairness of each CPU's masked dispatch steps (`Dispatch(c)`): a CPU in `next` keeps executing it;
- weak fairness of the timer interrupt (`Reschedule(c)`): the timer keeps firing;
- weak fairness of the clock passing each deadline (`Expire(t)`).

Threads are not assumed to wait, and nobody is assumed to signal.

The hub runs assume weak fairness of each hub task and of the configuration task (an async task whose await has completed is polled again by the executor), of each started port reset completing and of a connected USB3 port's link training (the hardware does both), and of the USB3 poll deadline passing (time advances). Plugging is never assumed.

## Findings

1. **Queue capacity.** `ThreadQueue` holds `C-1` handles, not the `C` that spec.md §8 states.
2. **Refill livelock.** On several CPUs, `next`'s refill loop can run forever while another CPU keeps retiring threads. A worker then starves (scheduler.rs:271).
3. **Lost wake-up.** `signal` discards the handle it unboxes. Nothing ever writes `urgent`, so a signalled waiter only wakes at its deadline (scheduler.rs:246).
4. **Panic on a second wait.** A timed-out wait leaves the handle in the object, so the next `wait_for` on it panics in `set().unwrap()` (scheduler.rs:236).
5. **Lost connection.** The hub task acts on the port status it read before the debounce sleep after clearing the change; a device re-plugged during the sleep is never attached (usb_hub.rs:148; the USB3 hub has the same code at 378).
6. **Field count.** `ParsedReportMainItem::parse` splits the report count evenly among the usages; HID 1.11 gives the remaining fields to the last usage. Later fields are read at the wrong offset (usb_hid.rs:712).

## Not modelled

- **Irql**: a stub with no state.
- **Context save and restore**: the assembly is not in `src/`. The model assumes `sch_setup_new_thread` runs with interrupts masked.
- **TimeMeasure arithmetic, and `Timer::sleep` before the scheduler is enabled**: not modelled yet.
- **Font pixels and bitmap fonts.** `draw_line`, the pixel updates and blending, and the layout offsets are drawing, not state; `FixedFontDriver::glyph_for` and `draw_char` read bitmap data that is not in the repository. `FontManager` has no caller in the repository, so nothing runs it concurrently; `draw_data` holds its lock for the whole draw.
- **Syscall wrappers, x64 initialisation and module declarations**: they have no concurrent state.
- **Outside the repository**: `AsyncSharedLockTemp`, `UsbManager` and the host controller (modelled from their call sites), and the HID item decoding in megstd (the model starts from decoded items).
- **Hub transfer errors**: `read_slice` failing on the status-change endpoint (the hub task stops) and a control transfer failing (its `unwrap` panics) need a failing device. The modelled hardware never fails a transfer.
- **The HID task's transfers and sleeps, and the keyboard and mouse state** (`KeyboardState`, `MouseState` in megstd): device I/O and code outside the repository. `write_bits` panics on most LED bits in a build with overflow checks. That outcome is kept in the model, and `LedBitsExact` judges the others; the panic itself is a hazard.
- **Assumptions on descriptors.** `ItemsKept` is claimed only for descriptors whose collections are closed and whose applications each open with their own report ids; the code accepts others (open collections return `Ok`), which are hazards.

## Plan

1. **TimeMeasure**: the unit conversions and their overflow edges. Runs are at their limit, so this would join an existing constant-level run as the fonts did.
2. **Fonts**: `FontDescriptor::width_of` scaling, and a model of the three-digit pair count once a glyph file is available.
