# TLA+ models of the RIOT64 RISC-V port

These modules model the RISC-V port of RIOT in `src/` so that TLC can check it.

- Every definition is written from the C source.
- The `map` in `PROJECT.json` names the lines behind every definition.
- Code that is not in the repository is modelled from the specification and marked `spec_modelled`. That covers the assembly context switch (`trap_entry`), thread creation and exit, and the vendor `encoding.h` constants.

## The system

| Part | Source | Module |
|---|---|---|
| Trap dispatcher, interrupt arm | `cpu/riscv_common/riscv_cpu.c` `handle_trap` | `LazyFpu`, `CoreTimer`, `Plic` |
| Trap dispatcher, exception arm (jump tables) | same | `InsnDecode` |
| Lazy FPU | same: `fpu_insn_trap`, `fpu_init`, `thread_fpu_context_init` | `LazyFpu` |
| Thread bootstrap and FPU context layout | same: `thread_stack_init`, the FP stores/loads of `fpu_insn_trap`; `context_frame.h`, `fpu_context.h` | `StackInit` |
| IRQ enable/disable/restore, kernel start-up | same: `irq_disable`, `irq_restore`, `cpu_switch_context_exit`; `core/kernel_init.c` | `LazyFpu` |
| Core timer, 64-bit build | `cpu/riscv_common/periph/timer.c` | `CoreTimer`, refining `Alarm` |
| Core timer, 32-bit access paths | same, the `__riscv_xlen != 64` branch | `Timer32` |
| Both timer builds, one run | the above | `MC_Timer` |
| PLIC router | `cpu/sifive_common/plic/riscv_plic.c` | `Plic` |
| rocketDMX driver | `drivers/rocketDMX/rocketDMX.c` | `RocketDmx` (with `Plic`) |
| rocketif Ethernet driver | `drivers/rocketif/rocketif.c` | `RocketIf` |
| SHTC3 sensor driver | `drivers/shtc3/shtc3.c` | `Shtc3` |
| HotSnot configuration EEPROM | `drivers/hotsnot_conf/hotsnot_conf.c` | `HotsnotConf` |
| HoTSNoT board init | `boards/hotsnot/board.c` | `HotsnotConf` |
| Both I2C drivers on one bus | the above, sharing `I2C_DEV(0)` | `HotsnotBoard` |

### How the parts interact

`kernel_init` runs with interrupts disabled. `cpu_switch_context_exit` enables them and starts the first thread. After that, threads run with interrupts enabled, except inside `irq_disable` / `irq_restore` sections.

- A timer or external interrupt enters `handle_trap`. While the handler runs, the FPU is off.
- The timer handler is `timer_isr`.
- The external handler is the PLIC router. It claims the source, calls the callback a driver registered (rocketDMX, rocketif), and completes the claim.
- A callback can wake a thread. The thread then calls `thread_yield_higher`, and the software interrupt switches context in assembly.
- The first FP instruction of a thread after a switch traps as illegal. `handle_trap`'s exception arm decodes it, and `fpu_insn_trap` moves the FP state from the previous owner to the thread.
- On the HoTSNoT board, `board_init` reads the configuration EEPROM over I2C before the other threads start. Afterwards the application writes the configuration and the SHTC3 driver measures over the same bus, serialised by `i2c_acquire`.

Each MC module (`MC_<Module>`) gives the constants their values. Each `.cfg` names the specification, the constants and the properties of one run.

## Modules

### `LazyFpu`

State:

| Variables | What they stand for |
|---|---|
| `alive`, `hasCtx`, `active` | the live threads, which of them have an `fpucontext`, and `sched_active_thread` |
| `fsOn` | mstatus.FS. It is only ever Off or Dirty, because `RV_FPU_ENABLE` sets both bits. |
| `owner` | `fpu_owner_thread` |
| `hwF` / `hwCsr` | the FP register bank (one abstract value, since the 32 registers move together) and fcsr |
| `ctxF` / `ctxCsr` | the saved contexts |
| `handler`, `inIsr`, `fpuStat` | the interrupt arm of `handle_trap` |
| `msip` | a pending context switch |
| `fault` | `core_panic` |
| `lF` / `lCsr` | history variables: the values each thread last wrote |
| `booted` | `cpu_switch_context_exit` has run |
| `mie`, `mpie` | mstatus.MIE and MPIE |
| `reading`, `prev`, `saved` | per context (each thread, and the handler): `irq_disable` has read mstatus but not yet cleared MIE, the value it read, and the stack of `previous_state` values of the open sections |

Actions:

- `FpuInsnTrap` is the whole of `fpu_insn_trap`. Its two panics come first, then the save of the old owner, then the load.
- `HandleTrapIsrEnter` and `HandleTrapIsrExit` are the interrupt arm. It is split at the handler call, so that a handler's FP instruction, yield or critical section can happen in between. The trap is taken only with MIE set. Entry moves MIE to MPIE and clears it, and the exit (`mret`) moves it back.
- `IrqDisableRead` and `IrqDisableClear` are the two CSR accesses of `irq_disable`. An interrupt, and the switch it may request, can come between them. `IrqRestore` is `irq_restore`. Threads and handlers nest sections up to `MaxNest` deep.
- `CpuSwitchContextExit` is the end of `kernel_init`: `irq_enable`, then the switch to the first thread. No thread or interrupt runs before it.
- `SwitchContext` is the software interrupt. Like the others, it is taken only with MIE set, so a yield inside a critical section waits for the `irq_restore`.
- `SwitchContext`, `ThreadExit` and `ThreadCreate` are spec_modelled.
- The constant `SwitchClearsFs` says whether the assembly switch turns the FPU off. The runs set it TRUE, as the specification describes the switch.
- `Misuse` allows FP code in handlers and in threads without a context, and FP words the core does not implement.

`Init` is the state `kernel_init` reaches before `cpu_switch_context_exit`. Interrupts are disabled, idle has no FPU context, main has `main_fpu_ctxt` (a zeroed static), FS is off and there is no owner. `Returns` is the guard of thread exit: `idle_thread` loops on `pm_set_lowest` for ever, while `main_trampoline` returns when `main` does.

### `CoreTimer`

State:

- `mtime` (bounded by `MaxTime`), `mtimecmp` and `mtie`;
- `cbSet` (`isr_cb`);
- the program counter and locals of `timer_isr`;
- the client's position in `timer_set`.

History variables record the deadline, how often it was served, and whether the client stopped the timer.

Actions:

- `timer_set` is two steps: the read of mtime, then the masked write.
- `timer_isr` is its entry, one loop turn per spin, the fire (`set_max_mtimecmp`), the callback (which may re-arm) and the tail that re-enables MTIE.
- MTIP is level-sensitive. `SpuriousTimerIrq` is a trap without MTIP pending, which is the case the driver's spin loop exists for.

The refinement to `Alarm` is stated in `MC_Timer` (below).

### `Alarm`

This module states what the timer API of `periph/timer.h` promises a client, with no hardware in it. It has one alarm, which `Arm` sets (and which starts the timer), and `Stop` and `Start` actions. `Fire` happens only for an armed, due alarm of a running timer, and it disarms the alarm. Time ticks. `Tick` and `Fire` are weakly fair. The counter's value at boot is any time, since nothing resets it.

### `Timer32`

On 32-bit cores the 64-bit counter and comparator are two halves, and each access is one step. The counter ticks between any two steps.

- `read_time_csr` is the hi/lo/hi loop.
- The comparator writes are the three stores: `lo = all ones`, then `hi`, then `lo`.
- A half is `W` bits wide.
- A call's locals are reset when it returns (they are dead C locals), so states differ only in what the next step can read.

### `MC_Timer`

The RV64 and RV32 builds of `timer.c` are alternatives, chosen once in the initial state by `build`. Each build's steps leave the other's variables alone. `CoreTimer`'s fairness is applied to the RV64 steps only. `AlarmAbs` instantiates `Alarm` with a refinement mapping:

- on RV64, the alarm's time is `mtime`; its armed time is the last programmed deadline, until `timer_isr` takes the deadline path for it; it is enabled unless `timer_stop` was the last call;
- on RV32, where the run has only the counter and comparator access paths, the alarm is a clock at its bound `MaxTime` with no deadline, so every RV32 step is a stutter of `Alarm`.

### `Plic`

The router and a PLIC with priorities, gateways and enable bits.

- A request is pending until it is claimed, and in service until its completion.
- `Dispatch` reads `_ext_isrs` only when the id is inside the table; `Complete` completes the id whatever its value.
- Sources outside `_ext_isrs[PLIC_NUM_INTERRUPTS]` exist in the model on purpose.

### `RocketDmx`

The DMX driver instantiates `Plic`: the driver registers `rdmx_interrupt_callback` for its source, and the router's `Dispatch` runs it.

- The API (`rdmx_init`, begin single/double buffered, `rdmx_flip_page`, `rdmx_shutdown`, the channel setters) is one client serialised by `hwMutex`.
- `rdmx_init` and the two halves of flip and shutdown are split where the interrupt can come between stores.
- `win` is the device's channel window and `asked` a history of the value the client last set each channel to. `PageSize` channels stand for the 512; `rdmx_init` leaves the window as it was.
- The device is an environment. It finishes a frame, flips at the end of a frame, stops with the busy bit until then, and raises the interrupt if it is unmasked.

### `InsnDecode`

The exception arm's decoding, written as pure operators over the two halfwords at `mepc`:

- the 32-bit `illegal_insn_jumptable`;
- the 16-bit `illegal_insn16_jumptable`;
- the CSR masks;
- the assembly of a misaligned instruction from two halfwords.

`IsaFp` is an independent reference classification written from the RISC-V manual: F/D loads, stores and arithmetic, compressed FP loads and stores per XLEN, and CSR instructions on fflags/frm/fcsr. A small state machine fetches a candidate word, and the trap is taken.

### `StackInit`

A thread's two context areas, followed through their life: `new`, `stack`, `created`, `running`, then `fp_owner` and `fp_saved` in turn.

- `ThreadStackInit` is `thread_stack_init`. It writes the marker at the region's top word, aligns down to 16, reserves `sizeof(struct context_switch_frame)` (the C layout, with two pad words first on RV32) and stores the register defaults.
- `FpuContextZero` is the `memset` of `thread_fpu_context_init`.
- `ContextRestore` is the first switch to the thread (assembly, spec_modelled). It loads every register from `sp + r_OFFSET`, using the hand-written macro tables of `context_frame.h`, and pops `CONTEXT_FRAME_SIZE`.
- `FpuSave` and `FpuLoad` are the register stores and loads of `fpu_insn_trap`, through the `rX_OFFSET_IASM` strings of `fpu_context.h`. Each access is `RV_FPU_REG_ALIGN` bytes wide. A later store wins a byte, and a load returns a register's own value only if all its bytes still hold it.
- The FPU context holds one byte per offset. Its layout is the packed `struct fpu_context`: 32 registers, then `unsigned long fcsr`, with sizeof rounded up to the alignment.
- Every FP register holds its own name as a distinct pattern, so a load shows which store each byte came from.
- `Xlen` and `Flen` are chosen per behaviour, over RV64 and RV32 and over double and single precision.

### `RocketIf`

The netif thread (`rif_init`, `rif_send`, `rif_isr` with `update_input_buffer`, `rif_recv` inside the event callback), the PLIC callback, and the MAC.

- `txMutex` is taken in `rif_send` and released by `rif_isr` once the TX interrupt has left the outcome in `txStatus`.
- Received frames are numbered in arrival order and are "ok" or "bad".
- `NETDEV_EVENT_ISR` is a flag.

### `Shtc3`

Every driver call is split at each `i2c_acquire` and each transfer. What a call does before its first `i2c_acquire` is the call's first step, and taking the bus is a step of its own (the `Acquiring` pcs). So a call blocked on the bus is visible as such:

- `shtc3_init`: reset, read ID, sleep;
- `shtc3_deinit`;
- `shtc3_do_measurement`: wake-up with release and re-acquire, command, read, sleep;
- `shtc3_set_power_mode`: the requested `power_conf` is stored when the call starts rather than at its end. Only this thread reads `dev->params`, and it is blocked in `i2c_acquire` until the call returns;
- `shtc3_set_clock_mode`.

The sensor is an environment that sleeps and wakes. A transfer can NACK, fail on the bus, or flip a bit, with at most `MaxFaults` faults per run.

- The received frame is `SampleFrame`, a real measurement frame with its two CRC bytes.
- `CrcResult` uses the driver's 256-entry lookup table.
- An `ASSUME` checks that table entry by entry against a bitwise CRC-8 (`Crc8Bits`, polynomial 0x31, init 0xFF). It checks the sample frame against `Crc8Ref` too.

### `HotsnotConf`

Covers `hotsnot_conf_init` (address, read, verify), `force_features_enabled/_disabed`, and `hotsnot_conf_write`: its `conf_data` copy before `i2c_acquire`, the acquire and first poll, then page by page. It also covers `board_init`'s use of the result: DCDCEN and `board_hall_init`, plus `board_hall_sense_enable/_disable`.

- A 32-bit word is the set of its one bits. XOR is the symmetric difference, and a mask test is `\subseteq`. This keeps the parity fold (`hotsnot_conf_verify`) a set computation.
- Five words stand for the fifteen of the 60-byte struct:
  - the id;
  - a word of each page;
  - the features;
  - the parity.
- The two write pages are `Pages`, so a reset between them tears a write.
- `Images`, `Factory` and `Blank` are EEPROM contents:
  - a good image and one with a foreign id;
  - the factory configuration;
  - an erased chip (all ones).

### `HotsnotBoard`

Composes `Shtc3` and `HotsnotConf` on one `bus`.

- The sensor thread starts once `board_init` has returned (`Booted`).
- `Crash` is a reset, at most `MaxCrashes` times:
  - the drivers' static state, the GPIOs and DCDCEN are lost;
  - the EEPROM and the sensor keep their state;
  - `board_init` runs again.

## Runs

| Run | Module / cfg | Expect | Shows |
|---|---|---|---|
| `lazy_fpu` | `MC_LazyFpu` / `LazyFpu.cfg` | pass | See below. |
| `fcsr_lost` | `MC_LazyFpu` / `LazyFpu_fcsr.cfg` | violation | **Bug**, `riscv_cpu.c:121`: see below. |
| `dead_owner_save` | `MC_LazyFpu` / `LazyFpu_dead_owner.cfg` | violation | **Bug**, `riscv_cpu.c:87`: see below. |
| `timer` | `MC_Timer` / `Timer.cfg` | pass | RV64: `AtMostOneCallback`, `NoEarlyCallback` and `DeadlineServed`: a deadline is served once, never early even on a spurious trap, and eventually unless the client stops or re-arms the timer. `AlarmRefined`: both builds implement the abstract `Alarm` under the mapping above. RV32: `ReadNotTorn`: the hi/lo/hi read never returns a torn value across a carry. `WriteRaisesNoMtip`: the three-store comparator write never passes through a value the counter has reached. |
| `plic_dmx` | `MC_RocketDmx` / `RocketDmx.cfg` | pass | See below. |
| `dmx_set_channels` | `MC_RocketDmx` / `RocketDmx_channels.cfg` | violation | **Bug**, `rocketDMX.c:238`: see below. |
| `insn_decode` | `MC_InsnDecode` / `InsnDecode.cfg` | pass | `DecodeMatchesIsa` on RV64GC: exactly the F/D instructions and FP CSR accesses reach `fpu_insn_trap`, at either length and alignment. |
| `insn_decode_rv32` | `MC_InsnDecode` / `InsnDecode_rv32.cfg` | violation | **Divergence**, `riscv_cpu.c:222`: see below. |
| `stack_init` | `MC_StackInit` / `StackInit.cfg` | pass | `FrameWellFormed`: on RV64 and RV32 every frame is 16-byte aligned, inside its region, and just below the marker. `FirstSwitchStartsThread`: the first restore, through the macro offsets, loads exactly the values `thread_stack_init` stored and leaves sp aligned just below the marker. `FpuContextRoundTrip`: on every XLEN/FLEN build, loading the FPU context gives back each register as last saved (or zero), and no access leaves the struct. |
| `rocketif` | `MC_RocketIf` / `RocketIf.cfg` | pass | See below. |
| `hotsnot_i2c` | `MC_HotsnotBoard` / `HotsnotBoard.cfg` | pass | See below. |
| `shtc3_awake_desync` | `MC_HotsnotBoard` / `HotsnotBoard_desync.cfg` | violation | **Bug**, `shtc3.c:341/344`: see below. |

What the longer rows check:

- **`lazy_fpu`** runs with misuse on.
  - `FpStateIntact`: every thread finds its last-written FP registers, through lazy switches, interrupts, thread exit and pid reuse.
  - `OwnerHasContext`: the owner always has a context.
  - `SwitchServed` (liveness): a switch requested by `thread_yield_higher` is eventually taken, unless the core has panicked. This holds for a request from a thread, from inside its critical section, or from a handler.
  - `IrqStateConsistent`: MIE is clear exactly while the running thread has an open `irq_disable` section, and always in a handler; no switched-out thread holds an open section; and a value read by a half-done `irq_disable` is still the current MIE.
- **`plic_dmx`** checks the router and the driver together.
  - `DispatchBounded`: a callback runs at most once per request, and never outside the table.
  - `NothingLeftInService`: every claim is completed.
  - `RequestDelivered`: every request of an enabled source is delivered.
  - `StatusTracksDevice`: the DMX `status`, written by the API and by the callback, matches the device.
  - `DmxSettles`: the status never stays busy.
- **`rocketif`**:
  - `TxMutexTracksStatus`: `txMutex` is held exactly while a frame is in flight or its outcome is unreported.
  - `NoFrameAborted`: `rif_send` never resets a transmitter that is still sending.
  - `TxReported`: every outcome is reported.
  - `RxDrained`: every received frame is drained, including frames queued behind an invalid one.
- **`hotsnot_i2c`** runs with faults, bit flips and a reset that tears a write.
  - `CrcCheckSound`: the CRC check accepts exactly the frames with right CRCs.
  - `BusHeldOnlyInCall`: the bus is held only inside a call.
  - `CallsReturn`: every call returns, including one blocked in its first `i2c_acquire`. A bus that either driver leaves held blocks the other thread's next call, or its own, for ever, and this fails it.
  - `MeasurementSound`: an OK measurement carries the sensor's bytes, and the awake state matches.
  - `ConfReadSound`: the boot read accepts exactly the whole images with the board's id.
  - `WriteDurable`: a successful write is durable.
  - `DcdcOnlyIfConfigured`: DC/DC is enabled only by a verified configuration with that feature.
  - `ConfServedVerified`: once boot is done, `conf_data` (the features word aside, which the force calls change) is only ever a configuration that was read and verified, the built-in invalid one, or zeros. It is never the buffer of a write that was not read back.

The violation runs:

- **`fcsr_lost`.** The save is `asm("frcsr %0" : : "r"(ctx->fcsr))`: fcsr is read into an input operand, so it is never stored. Trace:
  1. main writes fcsr;
  2. p1 takes the FPU;
  3. main's next trap restores the zero fcsr.
- **`dead_owner_save`.** `fpu_owner_thread` is not cleared when the owner exits. Trace:
  1. main takes the FPU, creates p1 and exits;
  2. p1's first FP instruction stores the registers into main's dead context.
- **`insn_decode_rv32`.** The 16-bit table routes only C.FLD/C.FSD/C.FLDSP/C.FSDSP. On RV32FC, C.FLW, C.FSW, C.FLWSP and C.FSWSP panic.
- **`shtc3_awake_desync`.** `dev->awake` is set whatever `shtc3_send_command` returned. Trace:
  1. init in ALWAYS_AWAKE;
  2. `set_power_mode(NORMAL)`, whose SLEEP NACKs.

  The sensor is then awake while the driver believes it asleep. In the mirror case, a failed WAKEUP makes every later measurement fail.
- **`dmx_set_channels`.** `rdmx_set_channels` checks `start + count <= 512` but stores `values[i]` to `baseaddr[i]`, ignoring `start`. The native driver (`nativeDMX.c:245`) writes from `start`. Trace: `rdmx_init`, then `rdmx_set_channels(1, {0})` on an idle device writes channel 0 and leaves channel 1 as it was.

Deadlock is checked for `timer`, whose counter always ticks, and for `stack_init`, whose thread goes on saving and loading its FPU context. The other cfgs turn it off, each with its reason:

- `core_panic` halts (`lazy_fpu`, `insn_decode`);
- the bounded client has nothing more to ask;
- the netif thread waits in `msg_receive`.

`PROJECT.json` lists a mutant for every property of every passing run: a plausible bug in the mapped code that TLC must catch under that run's cfg. Examples:

- loading the new FP context before saving the old one;
- not clearing the comparator in `timer_isr`;
- a CRC table with two entries transposed;
- the ID-mismatch path of `shtc3_init` keeping the bus;
- a parity check that skips the id;
- a write whose failure path keeps the bus.

## Bounds, and why they are enough

- **`LazyFpu`:** three pids (idle, main, p1), two FP values and two fcsr values. That is enough for an owner, a second FP thread, pid reuse, and a lost save that is visible. `MaxNest = 2` allows a nested `irq_disable` section, and a section opened in a handler while the thread's is half done.
- **`timer` (RV64, `CoreTimer`):** `MaxTime = 5`, `Spin = 1`, timeouts {0, 1, 3}. With these, a spurious trap is either far from the deadline (and returns) or within the spin budget (and spins). A deadline can be already due, and the callback can re-arm.
- **`timer` (RV32, `Timer32`):** `W = 2`, so the counter runs 0..15 and crosses three carries from the low into the high half. A read or write can straddle each of them, which is the only case the hi/lo/hi protocol exists for.
- **`Plic` / `RocketDmx`:** sources 1 and 5 inside a 6-entry table and 6 outside it; two priorities; two requests per source; three DMX calls after init; two channels and two channel values, enough for a write with a non-zero start to land on the wrong channel. That is enough for a flip and a shutdown to race the callback and a second request.
- **`InsnDecode`:** every opcode (bits 0-6) combined with every value of bits 12-15 (funct3, and the compressed quadrant bits). The CSR field takes fflags, frm, fcsr, two non-FP CSRs and the extremes. Every row of both jump tables is reached, at aligned and misaligned `mepc`.
- **`StackInit`:** 32 start addresses, aligned and 4 off, and 16 sizes. Together they cover every residue modulo 16 that the alignment step can meet. `Xlens` and `Flens` are both {32, 64}, so every register width of the frame and of the FPU context is checked.
- **`RocketIf`:** three sends and three received frames. That is enough for a send to poll `rif_isr` with the previous frame in flight, and for an invalid frame to sit between two valid ones.
- **`HotsnotBoard`:**
  - one fault: enough for one NACK, bus error or flipped bit;
  - one reset: enough to tear a write between its two pages;
  - three sensor calls: init, a mode change and a measurement;
  - one configuration call.

  One more configuration call multiplies the state space without adding a new interleaving. The write is already split at both pages, and the boot read after the reset sees the torn image.

## Fairness

- **`Alarm`:** weak fairness on `Tick` and `Fire`. Under the refinement mapping they are the counter and `timer_isr`'s deadline path, which `CoreTimer` keeps weakly fair. The RV32 build maps to stuttering steps, where neither `Tick` nor `Fire` is enabled.
- **`CoreTimer`:** weak fairness on the counter, on taking a pending enabled interrupt (thread code runs with interrupts on), on the steps of `timer_isr`, and on the write of `timer_set`. The client has none. In `MC_Timer` each of these applies to the RV64 build's steps only.
- **`LazyFpu`:**
  - weak fairness on the boot hand-over, on the clear of a started `irq_disable` and on `irq_restore`;
  - strong fairness on closing the outermost section. RIOT's critical sections are short, so an outer section ends even while inner ones keep opening and closing;
  - strong fairness on a handler's exit (a handler runs to its end, even if it opens sections of its own);
  - strong fairness on the software-interrupt switch. The core takes an enabled pending interrupt at once, but MIE may be set only now and then.

  Threads owe nothing else: no FP code, yield, creation or exit. With weak fairness on the handler's exit, a handler that opens and closes a section for ever starves the switch.
- **`Plic`:** weak fairness on the core taking MEIP while a claimable request exists (thread code runs with interrupts on), on dispatch and on completion. A trap handler that has started runs to its end. Devices owe no requests.
- **`RocketDmx`:**
  - `ClientContinues` (the second half of a flip or shutdown) is strongly fair, because the interrupt can disable it again and again.
  - `DeviceFinishes` (the device finishing its frame) is strongly fair as well: hardware finishes a frame in bounded time.
- **`RocketIf`:** weak fairness on the netif thread's steps, on the two interrupt callbacks and on the MAC finishing a frame.
- **`Shtc3`, `HotsnotConf`, `HotsnotBoard`:** weak fairness on each thread's continuation: a call that has started runs to its end. Nothing forces a thread to start a call. The continuation includes a call's first `i2c_acquire`, so a call blocked there is a started call. `mutex_unlock` hands the bus to a waiting thread. In the model the other thread's calls and the resets are finitely many, so a released bus stays free long enough for weak fairness to take it. `CallsReturn` is therefore a statement about the code's release paths.

## Not modelled

- **`SwitchClearsFs`.** The assembly switch (`trap_entry`) is not in `src/`. The runs assume it clears mstatus.FS, as the specification describes. `handle_trap` restores FS after a handler (line 402), so a switch that kept FS on would let the next thread use another thread's registers.
- **`timer_clear`, `timer_read`, `hotsnot_conf_get`, `rif_get`/`rif_set`.** These change no state the properties see, or they are single CSR bit writes.
- **The SHTC3 raw-value conversions.** They are pure arithmetic and change no state.
- **nativeDMX.** The X11 emulation of the DMX API, built with `USE_DMX_EMULATION`. Nothing in the repository calls it, and its only output is the window `_updateDisplay` draws, so it has no run. Reading it shows:
  - `rdmx_begin_single_buffered` and `rdmx_begin_double_buffered` assign `MODE_SB` / `MODE_DB` to `dev->curPage` instead of `dev->mode`, so the mode stays undefined;
  - `mode` is a `uint8_t`, so `MODE_UNDEFINED` (-1) is stored as 255, and the `curPage == -1` guards of the channel setters can never be true: channels are accepted before `begin` and after `rdmx_shutdown`;
  - `_getCurPage` gives both the page the setters write and the page `_updateDisplay` draws. After `rdmx_flip_page` the window shows the page that was *not* written since the previous flip, in either mode.
- **lwIP glue, boards other than HoTSNoT, cpuid, pm, auto_init, tests and examples.** These are initialisation sequences with no concurrency or state machine of their own.
- **The unsigned wrap of `start + count` in `rdmx_set_channels`.** A start near `UINT_MAX` wraps the sum below 512, and the loop then stores into `baseaddr[512]`, the control register. The model's starts stay inside the window, and the control register and its shadow `controlRegInt` are one variable, so the wrap is not reached.
- **Stack overflow for small stacks.** `thread_create` decides the minimum stack size and is not in the repository, so `StackInit` takes the sizes RIOT's defaults allow.
