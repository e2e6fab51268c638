# Verification of the kernel-module examples

TLA+ models of the Linux modules under `src/` (kernel 4.4), TLC
configurations that check them on small instances, and TLAPS proofs of what
matters most in them for every value of the constants. `PROJECT.json` lists the
components, the runs, the source lines behind every definition, the hazards,
and the findings.

## The system

The repository is a set of independent modules. They share only kernel
facilities, with one exception: `netlink` and `netctrl` both open
`NETLINK_USERSOCK`.

| part | state | operations | what is hard about it |
|---|---|---|---|
| `netlink/netlink.c`, `user_client.c` | port, user table, command mutex, buffer free list, skb queue, kcapd, wait queue, skb references | the hook, kcapd, commands of clients, insmod, rmmod | hooks on several cpus, kcapd, commands and dying clients interleave; sleep and wake-up; a stale port; reference counts |
| `netctrl/netctrl.c`, `app.c` | port 0 of the protocol, mutex, parsed command | command line, message, insmod, rmmod | concurrent commands, failures under the mutex, a protocol shared with another module |
| `kthread/kthread_sema.c` | rwsem, number, two threads | read, write, insmod, rmmod | starvation, order of stopping |
| `kthread/mythread.c` | one thread | insmod, rmmod | a failed `kthread_run` |
| `tasklet_workqueue/myworkqueue.c` | three work items | queue, handle, flush | handlers that free their item while `wq_init` goes on |
| `timer/*.c`, `tasklet_workqueue/tasklet.c` | timer or tasklet, counter | fire, cancel | a callback that runs while it is cancelled |
| `notifierchain/*.c` | the chain, a walk | register, unregister, send | an unlocked list that changes under a walk |
| `mon/mon.c`, `nic/nic.c` | device, irq, hooks, two ioctl values | ioctls, insmod, rmmod | ignored failures, order of release, an irq they share |
| `nic/tcp.c`, `udp.c`, `garp.c` | device references, an skb's layout | build and send a packet | error paths while the device goes; headers that must fit |
| `proc/foobar.c` | two values, five entries | read, write, insmod, rmmod | reads during a write, partial failure |
| `kprobe/kprobe.c` | four kinds of probes | plant, hit, remove | partial failure, removal during a hit |
| `funcexectime/funcexectime.c` | a pool of instances, a counter | entry, return, remove | concurrent calls, an exhausted pool |
| `tty`, `usermode_helper`, `multifile` | none | print, start a program | nothing |

## Modules

| module | models |
|---|---|
| `Capture` | `netlink.c` and `user_client.c` after `app_init` |
| `CapChannel`, `CaptureRefines` | what the capture path promises, and the mapping from `Capture` |
| `CapLifecycle` | `app_init` and `app_exit` around the processes of `Capture` |
| `RateCheck` | `cap_rate_check` |
| `NetCtrl` | `app.c` and `netctrl.c`, and who has port 0 |
| `KthreadSema`, `MyThread`, `WorkQueue`, `Timers`, `NotifierChain`, `ProcFoobar`, `Probes`, `FuncExecTime` | the files named in their headers |
| `NetDevs` | loading and unloading of `mon.c` and `nic.c`, side by side |
| `MonIoctl` | the private ioctls of `mon.c` |
| `SkbFrames`, `Senders` | the packets `tcp.c`, `udp.c`, `garp.c` build; how they hold and release eth0 |
| `Examples`, `Drivers` | the sample modules put together: `Examples` those with liveness, `Drivers` those without |
| `MCCapture`, `MCCapLifecycle`, `MCNetCtrl`, `MCExamples` | instances for TLC |
| `CaptureProofs`, `CaptureSkbProofs`, `CaptureChannelProofs` | theorems about `Capture` |
| `NetlinkProofs` | theorems about `CapLifecycle` and `RateCheck` |
| `InterfaceProofs` | theorems about `NetCtrl` and `ProcFoobar`, which user space talks to |
| `ExamplesProofs` | theorems about `Examples` and its other samples |
| `NetDevsProofs` | theorems about `NetDevs` and `MonIoctl` |
| `HooksProofs` | theorems about `NotifierChain`, `Probes` and `FuncExecTime` |

Variables and actions have the names of the source where there is one. An
action is the code between two accesses to shared state; a `pc` variable
(`hpc`, `kpc`, `rpc`, `upc`, ...) says where each thread is.

**Capture.** `hook_func_queue(h)` is an invocation on cpu `h`: test the port,
take a buffer from the free list or from kmalloc, build the skb, queue it, wake
kcapd, give the buffer back. `kcapd_thread` dequeues, sends, and sleeps;
`wait_event_freezable` is four steps (test, set the task state, test again,
sleep), because the wake-up races it. `cap_receive(r)` is a command under
`cap_cmd_mutex`: start kcapd, write the port, update the table. A `user_client`
sends CAP_ADD, receives, sends CAP_DEL and exits, and may be killed while it
waits. Port 0 is also the address of the module's own socket, so a packet sent
after the port was cleared re-enters `cap_receive`. What `netlink_unicast`,
`kmalloc` and closing a socket do is modelled from how the code uses them.

**CapLifecycle** adds the steps of `app_init`, between which commands and hooks
already run, and of `app_exit`. It follows kcapd only up to a send through a
released socket.

**NetCtrl.** A text is a sequence of bytes; `atoi` gives the number of some, and
`strncpy` cuts an address to the `IP_LEN` bytes of its array, without a NUL if
it has that many. The module copies four bytes (`NLMSG_ALIGNTO`) more than the
message has, so that it reads such an address on into whatever lay behind
(`Copied`). `HandledAsAsked` therefore promises an address whole only if it is
shorter than the array, and otherwise the bytes that fit. A message runs
`netctrl_receive` in the context of its sender. Unloading does not wait for
commands inside; they are then `"lost"`. If registering the hooks was refused,
which nothing tests, `nf_unregister_hooks` takes entries off lists they are not
on and faults: the module then stays for good (`"oops"`). The copy of a message
is never freed; no property depends on that and the model leaves it out.

`Timers` holds three modules because they differ only in what their cancelling
call waits for: `del_timer` for nothing, `hrtimer_cancel` for a running
callback, `tasklet_kill` for a scheduled one too.

**NetDevs.** `mon` and `nic` each allocate and register a device, put a handler
on interrupt 16 and undo it; every call may fail, and the failures the code
ignores are ignored. The handler's cookie is the device's address, which `mon`
frees before `free_irq`: `nic` may get the same address in between. The
properties say what holds in spite of this window (`Window`). As in `netctrl`,
unloading `nic` after its hooks were refused faults, here with the rtnl mutex
held: `nic` is never out again, and no device can be registered or unregistered
after that (`rtnl_lock`).

**Senders.** Each program takes a reference on eth0, builds a packet and sends
it, while eth0 is being unregistered. `SkbFrames` computes where the headers lie
in the buffer from the lengths that the device asks for.

**ProcFoobar.** `value` is an array of `FOOBAR_LEN + 1` bytes that
`copy_from_user` writes and `sprintf` reads one byte at a time; the terminating
zero is a step of its own. After a fault the rest of the bytes to be copied are
zeroed, as the kernel does, and the write returns without the terminating step. `rd[r].alone` says that no write overlapped the
read. `proctest_init` creates its entries one by one and unwinds; removal waits
for calls that are inside. `bar` has the same code as `foo`.

**Probes** plants `kp`, `kp0` and the two arrays one registration at a time, and
hits run on several cpus meanwhile. **FuncExecTime** has tasks in the probed
function, each with an instance of the pool or none; the pool is the kernel's.
The entry time stored in an instance is the task whose call stored it, and it
becomes NONE when that call is over, so that an old time shows even if the same
task calls again. `count++` is a read and a write.

## Runs

Runs that pass:

| run | shows | distinct states |
|---|---|---|
| `capture_safety` | types; no lost wake-up; no capture without kcapd; buffers have one owner; an skb's count is exact while somebody holds it; the count and the table agree; a client that has sent CAP_DEL to the end has no slot left; the port is registered, found the table full, or is being entered; `Capture` implements `CapChannel`: in order, at most once, losses only at the front or with a reader | 1,318,389 |
| `capture_live` | queued packets are taken, a dead target is cleared, commands return | 146,665 |
| `lifecycle` | commands and hooks during loading never overrun the table; afterwards port and table agree | 148,325 |
| `rate_check` | no second sees 2 * limit packets, wrapping jiffies included | 8,200 |
| `netctrl` | what is handled is what was asked, as far as the message holds it, one at a time, and every app ends | 115,695 |
| `examples` | threads, work, timers, `/proc`, senders: rmmod returns and leaves nothing running, and nobody uses eth0 once it is gone; the writer gets in and the printed number is current; work items are freed once; the tasklet has run; the timer's counter is right; a read stays inside `value`, and an undisturbed one returns the text last written; all proc entries are made or none; packets fit their buffer; the senders let eth0 go | 72,946 |
| `drivers` | chain, devices, ioctls, probes: a walk of the chain calls nobody twice or out of turn, and everybody who stays; an unloaded driver has no handler, hook or name left, and took only its own handler, outside the window; `mon` leaks only devices that were refused; an ioctl reads back what was set; no probe is left planted; arrays of probes are whole; durations are a call's own | 39,939 |

`examples` and `drivers` choose one sample in the initial state and run only
that one. Samples share no state (`mon` and `nic`, which share an interrupt, are
one sample), so each does alone what it does beside the others. They are two
runs because liveness makes TLC much slower.

Runs in which TLC refutes what the source says of itself (quoted in the
findings):

| run | what happens |
|---|---|
| `capture_leak` | an skb whose send is refused keeps its extra reference and is on no queue |
| `capture_oops` | a failed allocation dereferences NULL: the test in `cap_buffer_free` is inverted |
| `rate_limit` | more than `cap_rate_limit` packets pass in a second |
| `workqueue_set` | `work->x = 2` writes through a NULL or freed pointer (work2 is meant) |
| `timers_std` | after `del_timer` a running callback arms the timer of a module that is gone |

More statements are in the modules and TLC refutes them too, but no run of the
project keeps them. To see one, name it as the INVARIANT (or PROPERTY) of the
configuration given; "own" means a configuration of its own for that module,
with its specification (`NotifierSpec`, `DevsSpec`, `IoctlSpec`, `ProbesSpec`,
`FetSpec`, `MyThreadSpec`, `SendersSpec`) and the constants that `Examples.cfg`
or `Drivers.cfg` gives it.

| statement | configuration | what happens |
|---|---|---|
| `BacklogBounded` (`MCCapture`) | `Capture_leak.cfg` | nothing enforces `cap_backlog_limit` |
| `RefusalClearsRefuser` (`Capture`) | `Capture_leak.cfg` | a refusal by a dead client clears the port of the client that came after it |
| `UnloadStopsKcapd` (`CapLifecycle`) | `CapLifecycle.cfg` | `app_exit` leaves kcapd behind |
| `HeardByNetctrl` (`NetCtrl`) | `NetCtrl.cfg` | with the capture module loaded, a message of app is taken as CAP_DEL |
| `FinishedIsFinished` (`NotifierChain`) | own | regchain goes while a walk has one of its notifiers in hand |
| `OutIsOutAlways` (`NetDevs`) | own | `nic`, loaded and unloaded inside `mon`'s window, leaves its handler until `mon` takes it |
| `NicFreesDevice` (`NetDevs`) | own | `nic` never frees its device |
| `CookieIsLive` (`NetDevs`) | own | `mon`'s device is freed before its handler |
| `GetIsCut` (`MonIoctl`) | own | a text that fills `g_lover` has no terminator, and the get goes on with the getter's own buffer |
| `KprobesWhole` (`Probes`) | own | `kp` stays planted when `kp0` is refused |
| `NumbersUnique` (`FuncExecTime`) | own | two handlers in `count++` print the same number |
| `SuccessIsThread` (`MyThread`) | own | insmod succeeds though `kthread_run` failed |
| `DeviceCanAlwaysGo` (`Senders`) | own | a failed `alloc_skb` keeps the reference on eth0; garp may lose the in_device under it |
| `FreedByOwner` (`Senders`) | own | when `dev_queue_xmit` fails, the skb it has already consumed is freed again |
| `ChecksumCoversPayload` (`Senders`) | own | `tcp.c` and `udp.c` take the checksum before the payload is there |

Every property of a passing run has a mutant in `PROJECT.json`: an operator
marked "Altered" that changes the code as a plausible bug would. A mutant may
break other properties of its run as well.

### Bounds

- `Skbs` bounds the packets of a behaviour: 2 or 3, enough for one in kcapd's
  hand, one queued and one in a socket.
- Two cpus and two buffers let hooks compete for the free list; `CAP_MAXFREE`
  1 makes the list overflow. The liveness run has one of each.
- `MAX_TAB_SIZE` 1 with two clients fills the table; `lifecycle` has two slots.
  The theorem on the table holds for any size. `RcvBuf` 1 makes kcapd block on
  a client; 2, in `capture_safety`, lets a reply and a packet or two packets
  stand in one socket.
- `cap_backlog_limit` is 1 in `MCCapture`, 64 in the source: nothing reads it
  on the queueing side, so the value does not matter.
- `RateCheck`: `HZ` 3 and 3 bits of jiffies wrap often; `MaxBurst` 6 is above
  the largest burst asserted, 5. Calls stop once `packets`, or the calls passed
  in the last second, reach it.
- `NumberBits`, `NumBits`: counters wrap within the run.
- `NetCtrl`: two apps, each with any of ten command lines. `IP_LEN` 2 with
  addresses of one, two and three bytes, and `NLMSG_ALIGNTO` 1: an address fits,
  fills the array or is cut, and is or is not followed by a byte of something
  else.
- `ProcFoobar`: one reader and two writers, `FOOBAR_LEN` 2, texts of one and
  three bytes, so a text may be cut and two writes may mix.
- `Senders`: a link header of 14 and of 18 bytes, so that the reserved space is
  rounded differently; two addresses on eth0.
- `NetDevs`: three addresses, so that one may be given out again while another
  is leaked. `Probes`: two probes per array and two cpus. `FuncExecTime`: three
  tasks, one a kernel thread, on two instances, so that the pool runs out.

`CHECK_DEADLOCK FALSE` is used where the system may stop: all clients have
exited, the packets are used up, or the module is gone. `rate_check`
and `netctrl` check for deadlock.

Symmetry is used in `capture_safety`, whose one temporal property has no
liveness part, in `lifecycle`, `capture_leak` and `capture_oops`. It is not
used in `capture_live`.

### Fairness

All fairness is weak and stands for the scheduler: a thread that can run does.
In `capture_live` a hook that has started goes on, kcapd runs, some command in
the kernel advances, and some client that can receive or exit does. Nobody has
to start, send, load, unload or be killed. An rmmod that has begun goes on, and
armed callbacks fire. In `KthreadSema` the rwsem hands itself to its waiter, as
the kernel's queue does; `WriterGetsIn` depends on that. In `ProcFoobar` a call
that has begun goes on, and so do `proctest_init` and `proctest_exit`; in
`Senders` the programs run, and an unregistration that has begun goes on. In
`MyThread` the thread and a begun rmmod run. `NotifierChain`, `NetDevs`,
`MonIoctl`, `Probes` and `FuncExecTime` are checked for safety only and assume
none.

## Proofs

About `Capture`, for any sets of clients, cpus, buffers and skbs and any sizes:

- `TypeCorrect`: `Spec => []TypeOK`. Inductive with `Locals`, which says what
  the threads' local variables hold where they are used (without it the skb that
  is queued might be NULL).
- `KcapdAlwaysStarted`: `KcapdStarted`. `KInv` adds that hooks past the test of
  the port, and commands past the start of kcapd, also imply a thread; `CInv`,
  mutual exclusion of commands, is proved first.
- `UsersAlwaysCount`, `PortAlwaysRegistered`: `UserCount`, `PortRegistered`.
  `PInv` adds what the port can be while a command stands between the port and
  the table: 0 for CAP_DEL; its own pid, or 0 if kcapd cleared it, for CAP_ADD.
- `LeaversAlwaysLeft` (`CaptureChannelProofs`): `LeaversHaveLeft`. `LInv` says who
  has a slot: nobody twice, nobody before `user_join` or after `user_leave`
  (`Asked`), nobody before kcapd was started. Without the last a CAP_DEL that
  fails to start kcapd would leave its slot behind; and `user_leave` does not
  return at its test of `usrcnt` because `UserCount` holds.
- `WakeupNeverLost`: `NoLostWakeup`, inductive given the types.
- `BuffersOwned`: `BufferOwnership`, with lemmas on taking from and giving to
  the list.
- `HeldAlwaysLive` (`CaptureSkbProofs`): `SkbHeldIsLive`, the exact count. It
  compares cardinalities, so it is not inductive. `SkbInv(s)` says where an skb is: in no place twice
  (`Single`), in one place only, except that kcapd keeps the one it has just
  delivered (`Placed`), and counted for each (`Counted`). `HoldsIsPlaces` then
  turns the cardinalities of `Holds` into these places.
- `ForgottenWasRefused` (`CaptureChannelProofs`): `OnlyRefusedForgotten`, an
  action property. By the invariant above a count exceeds its holders exactly
  when it is one and nobody has the skb (`Forgotten`); one lemma for each process
  shows that its steps make no skb `Forgotten`, save `KcapdRefused` the one in
  kcapd's hand. With `capture_leak` it says that the leak is there, and nowhere
  else. No run keeps this property; TLC finds it true in the instance of
  `capture_safety`.
- `CaptureIsChannel` (`CaptureChannelProofs`): `Spec => ImplementsChannel`. The same
  invariant says that an skb a hook has built is this hook's alone
  (`HookOwns`); with it every step maps to a step of `CapChannel` or to none:
  `HookQueue` to `Capture`, `netlink_unicast` to `Deliver`, a refusal and a
  loopback to `Lose`, a failed start of kcapd to `Reply`, receiving and closing
  to `Read` and `Leave`.

About the rest of `netlink.c` (`NetlinkProofs`):

- `UsersAlwaysCounted`, `LivePortAlwaysRegistered`: `UsersCounted` and
  `LivePortRegistered` of `CapLifecycle`. `usertab_init` may erase a slot that a
  command has counted, so the count is only an upper bound, which is enough:
  `user_join` finds a slot whenever it passes its test. `LInv` has, beside the
  two, the mutual exclusion of commands (`Held`) and what a command finds in the
  port when it comes to the table (`Tabled`); `PortRegistered` itself fails
  during `app_init` and is established by the step that clears the port.
- `BurstAlwaysBounded`: `BurstBounded` of `RateCheck`, for any limit and `HZ` and
  any width of `jiffies` of more than two seconds. `RateInv` says to which count
  a packet of the last second belongs: all to the one now running, which is not
  full (`OneCount`), or the newest d to the one now running, which the d-th
  newest started exactly `Elapsed` jiffies ago, and the others, fewer than the
  limit, to the one before (`TwoCounts`). `ElapsedTicks` is the modular
  arithmetic. Which packets a tick drops is found with the least position that
  is too old (`Least`), as there is no induction over sequences.

About `NetCtrl` and the samples:

| theorem | states, for any constants | inductive invariant |
|---|---|---|
| `AlwaysOneAtATime`, `AlwaysHandledAsAsked` | `OneAtATime`, `HandledAsAsked` | whoever is inside owns the mutex (`Owned`); `g_sys_cmd` is what the last of the options taken so far stored (`Parsed`); what the module may find in its copy is what `Arrives` allows (lemma `CopiedArrives`) |
| `PrintedAlwaysCurrent` | `PrintedIsCurrent` | `KInv`: holder and waiter of the rwsem are the threads that stand there; rmmod has waited for each thread it is past |
| `ItemsFreedOnce` | `FreedOnce` | `WInv`: a worker has its item to itself, an item is freed when it finishes, and one that is live and not queued is the one `wq_init` is filling in |
| `TaskletHasRun`, `NumAlwaysCounts` | `TaskletRan`, `NumCounts` | `TInv`: what is pending or running for each of the three at each step of its exit; the callback's copy is `num` |
| `GoneAlwaysQuiet` (`ExamplesProofs`) | `GoneIsQuiet` of `Examples` | `KInv`, `WInv`, `TInv`, `MInv` for `mythread.c`, and `RInv` for the senders: the count of eth0 is the sum of what each program holds or has kept, so it is 0 only when nobody is between `dev_get_by_name` and `dev_put` |
| `FramesAlwaysFit` | `FramesFit` | `Built`: every frame is one of the three that `SkbFrames` builds; arithmetic lemmas on each |
| `ReadsAlwaysInside`, `ReadsAreQuiet`, `FilesAllOrNothing` | `ReadsInside`, `QuietRead`, `AllOrNothing` | the last byte of `value` is 0 (`Bounded`); nobody is inside before the entry is ready (`Gate`); a lone write has stored a prefix of its text, a lone read has seen one (`Register`); the entries are those made so far, or those not yet removed (`Files`) |
| `AlwaysOncePerEvent`, `StableAlwaysHear` | `OncePerEvent`, `StableHear` | the chain is an interval of notifiers in order, and one unregistered still points to the next (`Chained`); what was called is behind the walk (`Walked`); what stays was called or is ahead of it (`Heard`) |
| `OutIsAlwaysOut`, `OnlyRefusedAreLeaked`, `AlwaysTakenByOwner` | `OutIsOut`, `OnlyRefusedLeak`, `TakenByOwner` | a device has one owner until `mon` frees it (`Owned`); a handler is `mon`'s, `nic`'s, or the stray one `nic` left when it took `mon`'s (`Lined`); of two with one cookie the older is `mon`'s (`Ordered`); what is in the name space or hooked has its device (`Attached`); a device of `mon`'s is refused or will be freed (`Leaked`) |
| `GetIsAlwaysSet` | `GetIsSet` | `Holds`: `g_lover` begins with the text asked for, and its NUL if there is room |
| `GoneAlwaysUnplanted`, `ArraysAlwaysWhole` | `GoneIsUnplanted`, `ArraysWhole` | what is planted at each place of `probe_init` and `probe_exit` (`Progress`); a running handler's probe is planted (`Running`) |
| `DurationsAreOwn`, `GoneAlwaysQuiet` (`HooksProofs`) | `OwnDuration`, `GoneIsQuiet` of `FuncExecTime` | no two calls have one instance (`Pooled`); an instance's stamp is its holder's (`Stamped`); no call has an instance without a probe (`Unprobed`) |

`Examples` and `Drivers` EXTEND their samples, whose names are distinct, so the
runs check the samples' own definitions and the theorems are about each sample's
own specification (`SemaSpec`, `WorkSpec`, `TimersSpec`, `ProcSpec`,
`SendersSpec`, `NotifierSpec`, `DevsSpec`, `IoctlSpec`, `ProbesSpec`,
`FetSpec`). `GoneIsQuiet` of `Examples` speaks of all its samples, and
`GoneAlwaysQuiet` is about the whole: `Moves` says that a step of the whole is,
for each sample, a step of it or none, and then each sample's invariant is kept
by its own steps.

Assumptions, which TLC evaluates in the runs. `Capture`:
`SizesAssumption` (sizes are positive, `CAP_MAXFREE` is a natural) and
`NamesAssumption` (names do not clash). `RateCheck`: `RateAssumption` (limits are
naturals, `HZ` is positive, `jiffies` wraps after more than two seconds).
`NetCtrl`: `CommandLinesAssumption` (an option has an argument exactly if getopt
requires one, and it is a sequence of bytes) and `LengthAssumption` (the array
and the alignment have a length). `ProcFoobar`: a text holds no NUL and the first one fits
(`TextAssumption`). `Senders`: sizes are naturals and there is a device (`SizeAssumption`). `NetDevs`: NULL is
no address and no module. `FuncExecTime`: NONE is no instance. `NotifierChain`:
there is a notifier. `MonIoctl`: `g_lover` is shorter than the bounce buffer and
a text holds no NUL. `Probes`: the arrays have a length. The theorems on `NetCtrl` state theirs: command lines are
sequences over some set and NULL is no app.

Only model-checked: all liveness (`QueuedIsTaken`, `DeadPortCleared`,
`CommandsReturn`, `AppsEnd`, `WriterGetsIn`, `ExitReturns`, `DeviceCanGo`), which
is out of the prover's reach. Every other property of a passing run has a
theorem.

## Not modelled

- `hook_func`, `cap_make_reply` and the kmem cache of `netlink.c`: the hook
  installed is `hook_func_queue`, the cache calls are commented out.
- The over-limit branch of the hook: `cap_rate_limit` is 0 and nothing sets it.
- Lengths and layout of netlink messages, but for the bytes `netctrl` copies too
  many; the hooks of `netctrl` and `nic`,
  which accept everything; interrupt handlers and probe handlers beyond that
  they run, since they only print.
- Addresses, ports and flags in the packets of `tcp.c`, `udp.c` and `garp.c`,
  which are constants.
- `tty`, `usermode_helper`, `multifile`: output, or one call to start a program;
  they have no state and no order of steps to get wrong.
