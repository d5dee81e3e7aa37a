# TLA+ models of the mcast runtime

This directory holds TLA+ models of mcast (`src/src/`), a C++ runtime that
multiplexes user-thread and message-driven *services* (stackful coroutines)
over a pool of worker threads. It also holds the TLC configurations that
check those models.

## The system and its parts

| Part | Code | Role |
|---|---|---|
| Scheduler | `System.cpp` (`Wait_Locked`, `Wakeup_Locked`, `Schedule`, `SwitchTo`, `OnResume`, `UserThreadServiceMain`, `GetReadyService`), `ServiceContext.h` | Per-service context (status, events, wait_events, wakeup_signal, is_swaping_out, stopping). A mutex-protected global run queue. Each worker's idle service loops on `Schedule()`. |
| Runtime façade | `System.cpp`, `System.h` (`LaunchService`, `SleepService`, `WaitSignal`, `Signal`, `InterruptService`, `StopService`, `SendMessage`, `CallMethod`) | The calls services and outside threads make. Each one is a short critical section under the target's mutex that ends in `Wakeup_Locked` or `Wait_Locked`. |
| HandleTable | `System.h` (`services_`, `AddService`, `RemoveService`, `FindService`), `GrabService` | Maps a handle to its service. Index 1 always resolves to the calling worker's own idle service. |
| TimerService | `TimerService.cpp` | A hierarchical timing wheel driven by its own thread. `Update` splices a due slot out under the lock and runs the callbacks outside it. |
| WakeupService | `WakeupService.cpp` | A watchdog service that periodically sends `kInterrupt` to services blocked for longer than their deadline. |
| IOService | `IOService.cpp`, `System::WaitIO`/`OnIOReady` | An epoll reactor thread that wakes services waiting on an fd. |
| Message-driven services | `System::MessageDrivenServiceMain`, `SendMessage` | A per-service mailbox drained by a loop that waits on `kMessage \| kServiceStop`. |
| Utilities, TCP, RPC, logging | `util/`, `Tcp*`, `Rpc*`, `Acceptor*` | Containers, threads and socket/RPC wrappers around the core. |

Every wake path converges on `Wakeup_Locked`. The timer callback, the watchdog, `Signal`, `InterruptService`, `StopService`, `SendMessage` and `OnIOReady` each take the target's mutex and post an event bit. If the target waits on that bit, it is made Ready and pushed on the run queue. The exception is a target still being switched out (`is_swaping_out`): the wake then leaves the sticky `wakeup_signal`, and the `OnResume` of the worker that switched it out enqueues it.

## Modules

### `Scheduler.tla` (with `MC_Scheduler.tla`)

The scheduler core, with user-thread services, the timer's Sleep path and the watchdog.

**State.** Each field of `ServiceContext` the protocol touches is one variable: `status`, `events`, `waitEvents`, `wakeupSignal`, `swapping`, `stopping`. The remaining state:
- `runQueue`: the run queue, as a FIFO sequence. `run_queue_` is a mutex-guarded deque, so each push and pop is one atomic step: `PutReadyService` appends (`System.cpp:602-607`) and `GetReadyService` takes the head, or the worker's idle service when the queue is empty (`System.cpp:592-600`).
- `cur`, `prev`: `PerthreadData::current_service` and `prev_service`.
- `wpc`: where each worker is. The values are `sched` (in `Schedule()`), `resume_prev` and `resume_cur` (the two halves of `OnResume`), and `run`.
- `pc`, `ops`, `revents`: where each service body is, how many primitives it has called, and the result of its last wait.
- `wheel`, `firing`: Sleep timers linked in a wheel slot, and timers spliced out by `Update` whose callbacks have not run yet.
- `wdSeen`, `wdDone`: the watchdog's view of its entries.
- `intrLive`, `sleepFired`: ghost variables that record the cause of the current wait's wake.

The idle service of worker `w` is `w` itself.

**Actions.** Each action is one critical section, or one thread-local step:
- `Launch`: `LaunchService`.
- `Sched`: `Schedule`/`SwitchTo`.
- `ResumePrev`, `ResumeCur`: the two locked halves of `OnResume`.
- `Sleep`, `WaitSignal`: these call `WaitLocked`, which has three branches: the stop shortcut, the fast path, and `Block`.
- `WakeFromWait`: the re-check after `Schedule()` returns.
- `SleepReturn`: `DeleteTimer` on an interrupted sleep.
- `Yield`: `Service::Yield`.
- `Exit`: the end of `UserThreadServiceMain`.
- `Signal`, `InterruptService`, `StopService`: the outside wakers.
- `TimerExpire`, `TimerFire`: the splice under the lock, then one callback.
- `WdObserve`, `WdDrop`, `WdWake`: `WakeupService::Update` on one entry. The status read and the `WakeUp` are separate steps because only `WakeUp` takes the lock.

Because the lock is released between steps, wakers can run between a service's decision to block and its switch-out, and between the switch and either half of `OnResume`. The code's else branch after `Schedule()` in `Wait_Locked` (log, then block again) is not an action. `WokenWaitHasEvent` checks that it is unreachable.

**Abstractions:**
- A Sleep's duration, and the tick its timer falls due on, are left nondeterministic.
- Service bodies are loops that call up to `MaxOps` primitives drawn from `Ops`.
- `IsStopping()` is not a guard on the body's calls, because it is a relaxed load outside the lock.

`PROJECT.json` "map" gives the source lines of every definition.

### `TimingWheelAlgo.tla`, `TimingWheel.tla`, `MC_TimingWheel.tla`

These model the hierarchical timing wheel of `TimerService`. Section 1 has 2^kSection1Bits slots, indexed by the low bits of the expiry tick. The four section-2 arrays have 2^kSection2Bits slots each, indexed by higher bit groups. The code's widths are 8 and 6 bits, which makes the wheel cover exactly the 32-bit tick counter. The models keep that shape with widths B1 = 2 and B2 = 1, giving a 64-tick clock. The slot `<<0, i>>` is `time_slot_section1_[i]` and `<<k+1, i>>` is `time_slot_section2_[k][i]`.

- **`TimingWheelAlgo`** holds the pure operators:
  - `Sec2Index`: `GetSection2Index`.
  - `Place`: `DoAdd`, `AddSection1` and `AddSection2`.
  - `CascadeFrom` and `Cascade`: the `TickSection2` chain at the start of `Update`. It is RECURSIVE over the sections.
  - `FiresAt`: `Update`'s splice.
  - `TicksUntilFire`: the `Run` loop. It is RECURSIVE over the ticks.
- **`TimingWheel`** is the concurrent component. The timer thread's steps are the `fetch_add` (`FetchAdd`), each locked `TickSection2` (`TickSection2`), the locked splice (`Splice`), the callbacks outside the lock (`Fire`) and the end of `Update` (`UpdateDone`). Other threads call `AddTimer` (including its synchronous `timeout == 0` path) and `DeleteTimer` (which only unlinks a timer that still has a slot). The timeouts are given in milliseconds and converted as `AddTimer` does. `due` and `firedAt` are ghost variables recording the tick the caller asked for and the tick whose `Update` ran the callback.
- **`MC_TimingWheel`** instantiates `TimingWheel` for TLC and adds two reference properties. They quantify over every start value of `cur_time_` and every timeout in one turn of the clock (4032 pairs), wrapping included, and check the algorithm against its meaning: a timer fires after exactly its timeout, and no cascade re-adds a timer to the list it is iterating (`TickSection2` clears that list afterwards). They are constant facts, so they are stated as invariants that apply to the state the timer thread starts in (`Init => ...`). TLC evaluates them there and nowhere else, instead of re-evaluating 4032 recursions in each of the run's 2M states.

### `Messaging.tla`

This module `EXTENDS Scheduler` and adds message-driven services ("actors", a subset of `Services`) and a mailbox per service. It reuses the scheduler's switch (`Sched`, `ResumePrev`, `ResumeCur`), `StopService`, `Launch` for user threads, and the operators `WakeupLocked` and `WaitLocked`. The scheduler's actions are conjoined with `UNCHANGED msgVars`.

**New state:**
- `mailbox`: `msg_queue`.
- `handling`: the `msg` held while the lock is dropped.
- `xpc`, `xdone`: each outside thread's position (idle, in `cvar.wait`, returned) and the `done` flags its closure has set.
- Ghost variables: `accepted` (messages `SendMessage` returned OK for) and `handled`.

**Actions:**
- `ActorLaunch`: `LaunchService` for a message-driven service. It leaves the service Blocked with `wait_events = Message|Stop` and no self-wake.
- The loop of `MessageDrivenServiceMain`, one action per branch: `ActorPop`, `ActorHandle` (`MethodCallService::Dispatch` and `Message::Done`, which runs the message's closure: `Done`), `ActorExit`, `ActorWait`, and `ActorWake` (the re-check after `Schedule()`).
- `CallSend`, `CallWait`, `CallWake`: `CallMethod` from inside the runtime (`System.h:343-354`). The send happens under the destination's lock, then `Wait(Response)` under the caller's lock. The caller is a user thread's body or, for an actor in `NestedCallers`, the actor's handler, which then suspends with `handling` held (`MayCall`, `CallerPc`).
- `ExtSend`: `AsyncCallMethod` or `SendStringMessage` from a thread outside the runtime.
- `ExtCall`, `ExtCallReturn`: `CallMethod` from a thread outside the runtime (`System.h:355-371`). The closure sets `done` and notifies; the thread returns once `done` is set.

`SendMessage` is split into `Accept` and `Reject`. The loop's branch that only clears `wakeup_signal` is not an action; `LoopSignalClear` checks that it is dead. A message is a `<<caller, call number>>` pair or a model value. A handler suspends only in a nested `CallMethod`; a nested callee never calls back, so no run contains the call cycle that deadlocks two handlers (see the hazards). `StopService` in the environment targets actors only: a stopped user thread ends its body, which the module does not model as a separate step.

The loop tests the mailbox before `stopping` (`System.cpp:339-352`). After `StopService` it therefore handles every queued message before it exits, while spec 4.3 says a stopped message-driven service exits after the current message. `MailboxConserved` and `AcceptedHandled` check the code's behaviour, draining included.

The messaging run's calls target message-driven services. `SendMessage` also accepts a message for a user-thread service, but only `MessageDrivenServiceMain` ever pops a mailbox (`UserThreadServiceMain` only calls `msg_queue.empty()`, `System.cpp:302`). A `CallMethod` to a user thread therefore never returns. With `Services = {c1, c2}`, `Actors = {}` and `CallTargets = {c2}`, TLC finds `CallReturns` violated.

### `ServiceLifecycle.tla` (abstract)

This module states what the scheduler promises one service, with no workers, locks or switch windows. A service goes Created → Ready ⇄ Running ⇄ Blocked → Dead (spec section 4). Ready services wait in one FIFO queue, and `ADispatch` takes only its head. `pend[s]` means "a wake matching s's wait is pending". `ABlock` requires it false, and `AWake` (Blocked → Ready, queued) requires it true after the step, so the wake may arrive in that same step. `APost` is a wake that arrives while the service cannot run yet.

`MC_Scheduler` instantiates it as `Abs` with a refinement mapping:
- `st` is the context's `status`, except that a service a worker has popped and is switching to counts as Running (`Dispatched`);
- `rq` is `run_queue_`;
- `pend` is `events ∩ wait_events ≠ {}` for a Ready or Blocked service.

`LifecycleRefined == Abs!ASpec` is checked as a `PROPERTY` of the safety run. Under the mapping, `Sched`'s pop is `ADispatch`, `Block` is `ABlock`, and a direct `Wakeup_Locked` or `OnResume`'s sweep is `AWake`. A wake deferred by `is_swaping_out` is `APost`, and `ResumeCur`, fast-path waits and `Yield` are stuttering steps. `Yield` leaving a service Running off every worker is a legal stutter here: that loss is a liveness failure, shown by the yield_loses_service run.

### `Lifecycle.tla`

This module `EXTENDS Scheduler` and adds shutdown. It reuses the scheduler's switch, `WaitSignal`, `Exit`, `Signal`, `InterruptService`, `StopService` and `Launch`; timers and the watchdog are left out.

**New state:**
- `sysStopped`: `System::stopped`.
- `spc`: where the thread inside `System::Stop` is.
- `snap` and `snapAll`: `StopAllService`'s copy of `services_`, still to stop and all of it (the latter is a ghost).
- `interrupted`: the workers whose `ThreadImpl::interrupted_` flag is set. `Stop` sets the flags one thread at a time (`StopInterrupt(w)`), and each idle loop reads only its own flag (`IsInterrupted(w)`, `this_thread::IsInterrupted`).
- `launching`: launches that have passed the test of `stopped`.

**Actions:**
- `StopBegin`, `StopSnapshot`, `StopOne`, `StopInterrupt(w)`, `StopJoin`: the steps of `Stop` and `StopAllService` in code order. The workers are interrupted in any order, and a worker may already be leaving its idle loop while another is still running.
- `IdleExit`: `IdleService::Main`'s loop condition. The loop ends once its own thread is interrupted and `NeedSchedule()` is false, and the worker's wpc becomes `"exited"`.
- `LaunchCheck` and `LaunchCommit`: `LaunchService`'s relaxed load of `stopped`, and the rest of it.

The initial state is the one `System::Start` returns in: the workers are in their idle loops and `stopped` is false. `WakeupLeadsToRun` and `StopLeadsToExit` are stated here, with the proviso that the workers have not all exited, because only this module lets them exit.

### `Reactor.tla`

This module `EXTENDS Scheduler` and composes `System::WaitIO` and `System::OnIOReady` with `IOService::Add`, `Remove`, `Stop` and the whole loop of `IOService::Run`, from the state `Initialize` leaves (the exit pipe registered, level triggered). On the service side it composes the callers of `WaitIO` that the runtime ships: the loops of `TcpConnection::Read`, `ReadSome` and `Write` (`TcpConnection.cpp:10-85`), which call `recv`/`send` until the buffer is done (`ReadSome`: until any bytes arrive) and call `WaitInput`/`WaitOutput` (`WaitIO` with `EPOLLET`) on EAGAIN; the accept loop of `Acceptor::StartAccept` (`Acceptor.cpp:95-126`) on a listening socket; and `TcpConnector::Connect` (`TcpConnector.cpp:8-55`), whose single `WaitIO(fd, EPOLLOUT)` has no `EPOLLET` and so makes a level-triggered registration. The kernel's edge-triggered epoll interest list and each socket's readiness are part of the state. The remote peers (clients connecting, a server answering or refusing a connect, data, FIN, RST, send space) are the environment. The constant `Calls` says which calls a body makes, and `Listeners` which of a service's descriptors are listening sockets; `Accept` is called on those only, the other calls on the others, and `Connect` only on a socket no peer has touched yet (`Fresh`).

**New state:**
- `fdOf`: `ServiceContext::fd`, which `Add` overwrites on every `WaitIO`.
- `ioEvents`: `ServiceContext::io_events`.
- `reg`, `regMask`, `pend`: the interest list (the handle registered for each fd, its mask, and ready bits not yet returned by `epoll_wait`).
- `rbatch`, `rpc`, `rcur`: the IO thread. These are the events returned and not yet dispatched, where the loop is (head, blocked in `epoll_wait`, dispatching, in `OnIOReady`, exited), and the event between its `EPOLL_CTL_DEL` and `OnIOReady`.
- `pipeFull`, `rIntr`: the exit pipe has been written, and the IO thread has been interrupted.
- `ioWant` and `edges` (a bound on the peer's events).
- `rdy`, `fin`, `rst`: per socket, the bytes readable (`IN`) or the send space free (`OUT`), a FIN received, an RST received.
- `conn`, `xop`, `left`: the call in progress (`sockfd_`, which call it is, `read_left`/`write_left`).

**Actions:**
- `XferBegin`: a body step that calls `Read`, `ReadSome` or `Write` for up to `MaxXfer` bytes on one of its connections, or `StartAccept` on its listening socket.
- `Xfer`: one `recv`/`send` of the loop. `Outcome` gives its result as Linux does: queued data first, then the RST's error, then EOF after a FIN, else EAGAIN. Data decrements `left` and ends the call when it reaches 0 (`ReadSome`: at once); an error or EOF ends it; EAGAIN goes to `WaitIO`.
- `Accept`: one turn of the accept loop. The loop returns once `IsStopping()`; otherwise `Accept2` takes a pending connection and hands it to `on_new_conn_`, fails with that connection's network error (Linux's `accept` reports it; the loop then returns), or returns EAGAIN on an empty backlog and the loop goes to `WaitInput`.
- `IOWait`: the entry of `WaitIO` under the service lock. It resets `io_events`, calls `SetServiceFD`, then `EPOLL_CTL_ADD` (`EpollAdd`). The ADD polls the fd, so a socket already ready is pending at once (`Readiness`). The mask (`IOWaitMask`) carries `EPOLLET` for `WaitInput`/`WaitOutput` and not for `Connect`; `epoll_wait` clears what it returns for an edge-triggered registration and leaves a level-triggered one pending while its socket is still ready (`Rearm`). If the ADD fails with EEXIST, `WaitIO` and the loop return the error; otherwise it calls `WaitLocked` on IO|Stop|Interrupt.
- `Connect`: `connect()` succeeds once the peer has answered (send space), fails once it has refused (reset), and otherwise returns EINPROGRESS, after which `Connect` makes one `WaitIO` and returns its status, OK included, without calling `connect` again.
- `IOWake`: the re-check after `Schedule()`.
- `IOReturn`: the rest of `WaitIO`. Unless woken by IO, it calls `Remove` (`EpollDel`) on its fd. The loop retries `recv`/`send` on OK (`if (!s) return s;`) and returns the error otherwise.
- `Peer`: `PeerData`, `PeerFin`, `PeerReset`. The peer sends data or frees send space, closes or resets; on a listening socket `PeerData` is a client's connection entering the backlog; each is one edge of the socket (`Edge`), reported for the bits the socket now has (an RST reports IN, OUT and ERR).
- `LoopHead`: the `IsInterrupted()` test at the loop head.
- `EpollWait`: returns every registration with ready bits, plus the exit pipe's event once it is written (nothing reads the pipe, so it is in every later batch).
- `ReactorDel`: `GrabService` by handle, then `EPOLL_CTL_DEL` of whatever fd the context names now.
- `ReactorNotify`: `OnIOReady`.
- `ReactorExit`: the pipe's event, in any position of the batch; `Run` returns and drops the rest.
- `IOStop`, `IOInterrupt`: `System::Stop`'s `io_srv_.Stop()` and the IO thread's interrupt, which it performs only after `StopAllService` has stopped every service in the table. `Launch` is disabled from then on, because `LaunchService` tests `stopped`; the launch race is `Lifecycle`'s.

A descriptor belongs to the connection and service that opened it (`Fds == Services \X FdNums`). `WaitIO`'s result codes are distinguished only as OK or not OK, which is all the loops test. Byte contents and buffers are left out; `TcpServer` is not modelled (see below).

### `WatchdogTimer.tla`

This module models the watchdog's own periodic timer in `WakeupService.cpp`. `AddService` and `Update` are method calls, so the service runs them one at a time in mailbox order. The timer callback runs on the timer thread and only queues an `Update` (`AsyncCallMethod`). A timer object lives until `TimerService::Update` has run every callback of its batch (`TimerService.cpp:99-113`), and `timer_` is a weak handle to it.

**State:**
- `mbox`: the queued "add" and "update" calls.
- `tstate`: each timer object: unused, linked, firing, held, gone.
- `timerOf`: `timer_`.
- `prevOf`: the handle each callback captured as `tm`.
- `stopping`, `alive`, `adds`.

**Actions:**
- `CallAddService`: `WakeupIfWaitTimeout`.
- `HandleAdd`: arms a timer when `timer_.expired()`.
- `HandleUpdate`: re-arms unless stopping.
- `TimerSplice`, `TimerCallback`, `TimerRelease`: the timer thread. On a refused send, the callback calls `RemoveTimer(tm)` and `StopService`.
- `StopWakeup`, `LoopExit`.

The list of watched services and the interval are left out, because neither decides whether a timer is armed.

## Runs

| Run | cfg | Result | What it shows |
|---|---|---|---|
| scheduler_safety | `SchedulerSafety.cfg` | pass (2.6M states) | Six invariants and one refinement hold: `TypeOK`, `OneStackOneWorker`, `ReadyQueueSound`, `NoLostWakeup`, `AssertionsHold`, `WokenWaitHasEvent` and `LifecycleRefined`. No stack is entered by two workers. The run queue holds exactly the Ready services that no worker has popped. A blocked service with a matching pending event is always in the switch window with `wakeup_signal` set. The CHECKs in `OnResume`, `Wait_Locked` and `UserThreadServiceMain` hold. A service is resumed inside a wait only with a requested event pending. Every step is a step of `ServiceLifecycle`: services are dispatched in FIFO order, and a Blocked service becomes Ready only with an event of its wait pending. |
| lifecycle_liveness | `LifecycleLiveness.cfg` | pass (185k states) | Five properties hold while launches, signals, interrupts and stops race one `System::Stop`. `WakeupLeadsToRun`: a matching wake eventually runs the service, unless every worker has exited first. `StopLeadsToExit`: a stopped service eventually dies, with the same proviso. `StopReturns`: `Stop` returns. `StopEndsServices`: every service in `StopAllService`'s copy of the table is dead when it does. `NoSpuriousInterrupt` (without the watchdog): a wait that returns only `kInterrupt` was interrupted by an `InterruptService` aimed at that wait. |
| timing_wheel | `TimingWheelSafety.cfg` (module `MC_TimingWheel`) | pass (2.1M states) | Five properties hold. While two timers race the timer thread: `TypeOK` holds; `NotLate`: no linked timer stays in the wheel past a spliced tick; `AllFire`: every timer that is not cancelled fires. For every (start, timeout) pair of a whole clock turn: `FiresAfterTimeout`: the timer fires after exactly its timeout; `CascadeLeavesSlot`: no cascade puts a timer back into the slot being iterated. |
| yield_loses_service | `YieldLosesService.cfg` | violation | `Service::Yield` is a bare `Schedule()`. The caller stays Running with no worker and is never resumed. |
| stale_sleep_wakeup | `StaleSleepWakeup.cfg` | violation | An interrupted Sleep cannot cancel a timer that `Update` has already spliced out. The late `kSleep` makes the next Sleep return OK at once. |
| wheel_fires_early | `WheelFiresEarly.cfg` | violation | `FiresOnDue` fails. An `AddTimer` between `Run`'s `fetch_add` and `Update`'s splice reads the already-advanced `cur_time_`. A timeout of kSection1Num−1 ticks (about 2.55 s in the code) then lands in the slot being spliced and fires at once. |
| messaging | `MessagingRun.cfg` | pass (277k states) | Six properties hold. `MTypeOK` holds; it includes that every handled message was accepted by `SendMessage`, so a message pushed on a path that returns `kNotFound` breaks it. `MailboxConserved`: an accepted message is always queued at, or held by, a live service until handled. `MsgWaitsWokenWithEvent`: the CHECKs after the mailbox and reply waits hold. `LoopSignalClear`: the loop's `wakeup_signal` branch is dead. `AcceptedHandled`: every accepted message is handled. `CallReturns`: every accepted call returns, from a user thread, from inside a handler, and from a thread outside the runtime, including when the reply arrives before `Wait(Response)`. |
| launch_after_stop | `LaunchAfterStop.cfg` | violation | `StopCheckHolds` fails. A `LaunchService` passes its test of `stopped`, then `Stop` copies the table, interrupts the worker and the idle loop ends on an empty queue. The launch then commits and pushes its service with no worker left, so `CHECK(run_queue_.empty())` after the joins fails. |
| reactor | `ReactorRun.cfg` | pass (316k states) | Five properties hold. `RTypeOK` holds. `IOReadyLeadsToReturn`: a readiness edge on the fd a service waits on always ends that wait, even when stale events, interrupts, shutdown and an EEXIST from a leaked registration are interleaved. `XferReturns`: a `Read`, `ReadSome`, `Write` or `Connect` whose socket can complete it (enough data or space, a FIN for a read, an answer for a connect, an RST), and any call, the accept loop included, whose service is stopped, always returns, even when the edge arrived before the loop's `EPOLL_CTL_ADD` and would be lost without the ADD-time poll. `AcceptorDrains`: a connection pending on the listening socket is accepted unless the accept loop has returned, even when it arrived between `accept`'s EAGAIN and `WaitInput`'s registration. `ReactorExits`: once `IOService::Stop` has written the pipe, `Run` returns whatever its batch holds, even if the interrupt flag is never set; so `System::Stop`'s join of the IO thread returns. |
| reactor_leaks_registration | `ReactorLeak.cfg` | violation | `OneShotRegistration` fails. The reactor dispatches an event for a wait that an interrupt has already ended. That wait Removes its fd and starts a new `WaitIO`; the stale `OnIOReady` wakes the new wait, and the new registration stays in the interest list after the wait returns. The next `WaitIO` on that fd fails with EEXIST. |
| watchdog_stale_interrupt | `WatchdogStaleInterrupt.cfg` | violation | The watchdog reads the status without the lock, then sends `WakeUp(kInterrupt)` unconditionally. A service that woke in between gets `kInterrupt` from its next Sleep. |
| watchdog_timer_chains | `WatchdogTimerChains.cfg` | violation | `SingleTimerChain` fails. An `AddService` is queued before the watchdog's timer fires and handled after `TimerService::Update` has freed that timer. It sees `timer_` expired and arms a timer, and the fired timer's queued `Update` arms another. Two periodic chains then run for the life of the system, and each such race adds one more. |

PROJECT.json lists every violation as a finding. Every property of a passing run has a mutant in PROJECT.json: a plausible bug in the mapped code that TLC shows breaks the property. Examples are the missing `is_swaping_out` check in `Wakeup_Locked`, the missing fast path in `Wait_Locked`, and `OnResume` re-enqueuing without `wakeup_signal`.

### Bounds

**Safety run.** It uses 2 workers × 2 services with one primitive per service, drawn from all three, and both services watched by the watchdog. This is the smallest configuration in which a waker on one thread races a switch-out on another while a third party holds the queue. With 2 workers:
- one service can block while the other worker pops and wakes;
- both halves of `OnResume` interleave with `Signal`, `StopService`, timers and the watchdog.

`MaxOps = 2` multiplies the state space by about 10 and adds no new interleaving of the protocol, since every wait starts from the same state shape. The safety run uses symmetry over workers and over services, which is sound because every action treats their members uniformly.

**Liveness run.** It uses 1 worker × 2 services with one `WaitSignal` each, no watchdog, and one `System::Stop`. It runs without symmetry (unsound for liveness in TLC). Outside signals, interrupts and stops still race the worker's switch window, since they are steps of other threads. Two workers with `Stop` give 1.3M states, and the liveness check does not finish in 10 minutes; the two-worker interleavings of the protocol are covered by the safety run. An `InterruptService` sent before a service's first wait is enough to show a stale interrupt, so one wait per service suffices for `NoSpuriousInterrupt`.

**Timing-wheel runs.** The reference run is exhaustive over the scaled clock. The concurrent wheel run uses 2 timers, a 40-tick horizon, and timeouts of 0, 1, 3, 4, 9, 17 and 33 ticks, which start a timer in every section. Some of these timers are moved by the cascade of each section-2 level, since the run reaches tick 32, where all four cascade. The horizon keeps the concurrent run below one turn of the clock; wrapping is covered by the reference run.

**Messaging run.** It uses 2 workers, one calling user thread with one call to `a2`, and two actors; `a1`'s handler may itself call `a2`. One outside thread sends `a1` a message, either asynchronously or by a blocking `CallMethod`, and either actor may be stopped. This covers several scenarios:
- a reply before the caller's wait;
- a message into a mailbox whose loop is about to wait;
- a stop with mail queued;
- a send racing the loop's exit;
- a handler suspended in a nested call while its own mailbox fills, or while it is stopped;
- an outside blocking call whose callee is stopped with the call queued.

A second call or a second outside message multiplies the state space by more than 10 and adds no new branch. Letting every service be a call target or be stopped took the run past 1.2M states and 11 minutes; the restricted targets still reach every branch of every action.

**Reactor runs.** The pass run uses one worker, one service with a connection and a listening socket, two calls of up to 2 bytes each drawn from all five kinds, and one event of the peers, plus the shutdown. A 2-byte call takes two `recv`s when the peer sends one byte, so one call waits, is interrupted, re-waits on a registration that leaks, and meets EEXIST within its own loop. A third call, a second connection or a second service takes the run past 5 minutes (a second connection: 1.06M states in 6 minutes); none adds a reactor case, since the reactor treats every registration alike. The leak run uses one service, two sockets, reads only, and two calls of one byte.

**Violation runs.** Each uses the smallest configuration that exhibits the bug.

### Fairness

Weak fairness is assumed per worker. A worker is an OS thread that loops forever in its idle service or runs the service it switched to, and a service body always reaches its next suspension point. Weak fairness is also assumed on timer expiry and firing in `Scheduler`, on the timer thread's steps in `TimingWheel` (`TimerService::Run` wakes every half period and processes every elapsed tick), on the IO thread in `Reactor` (it blocks in `epoll_wait` with no timeout and dispatches every returned event), on the thread inside `System::Stop` once it has begun (a bounded loop and joins), and on an outside `CallMethod` thread's return once `done` is set (the closure sets it under the mutex and calls `notify_one`, and the predicate wait returns). Outside callers (`Launch`, `Signal`, `InterruptService`, `StopService`) and the watchdog get no fairness: nothing obliges them to act. `System::Stop` itself is an outside call and is never forced. The liveness runs use no symmetry.

## What is not modelled, and the plan

`Sleep(ms)` with `ms < 5` is not modelled. `AddTimer` then runs its callback synchronously (`(ms + 5) / 10 == 0`, `TimerService.cpp:12-16`). That callback is `WakeUp`, which locks the mutex `SleepService` already holds: a self-deadlock of the worker, listed among the hazards. It needs no interleaving to show, because a single call of `Sleep(1)` hangs.

A message-driven service is launched Blocked, not Ready (`System.h:312-323`), so the refinement onto `ServiceLifecycle` is checked for user-thread services only.

The TCP layer is modelled for `TcpConnection::Read`, `ReadSome`, `Write`, `Acceptor::StartAccept` and `TcpConnector::Connect` with a service. `Connect` returns OK after `WaitIO(EPOLLOUT)` without reading `SO_ERROR`, so a refused asynchronous connect (reported as EPOLLOUT|EPOLLERR|EPOLLHUP) returns OK. The model reaches that step; since it tells WaitIO's results apart only as OK or not, and nothing in the spec, a comment or a test states what `Connect` should return, it is recorded as a hazard. `Connect` without a service is a blocking `connect` outside the runtime. `TcpServer` only launches a service per accepted connection inside `on_new_conn_`, a `LaunchService` that `Scheduler` and `Lifecycle` model. That one bad pending connection (or an interrupt) ends the accept loop and the server for good is listed among the hazards: no spec text, comment or test says what the server should do then. The RPC layer is protobuf framing over a `TcpConnection`; its state is a byte buffer, and the spec leaves it out. Reading it shows a header mismatch that no run checks: `DefaultRpcCodec::WriteMessage` stores the length's low byte in `buffer_[1]` and bits 16-23 in `buffer_[2]` (`RpcCodec.cpp:68-69`), while both readers take bits 8-23 of the little-endian head as the length (`RpcCodec.cpp:16`, `43`). So a message of 256 bytes or more is read back with length `len & 0xFF`. This is pure arithmetic on one buffer, with no interleaving, and a unit test that round-trips a 256-byte message shows it; a model checker adds nothing here. The protobuf layer, logging, the example programs and the generic containers are out of scope. They are wrappers or data structures whose state the core does not depend on, and the spec treats them as such. The lock-free `MPSCQueue` is a candidate for a later module. `util/ThreadPool` and `util/Timer` are used only by the tests and examples, never by `System`, so the Threads component is modelled only for the part the runtime uses: a `Thread` per worker with its own interrupt flag. Two hazards are recorded without a property: the watchdog's relaxed read of `blocked_time`, stored in `SwitchTo` after `Wait_Locked` has already published `Blocked` (`System.cpp:192`, `424-430`), so a diagnostic may report a stale duration; and the `DurationSince` assertion (`TimerService.h:72`) once the 32-bit millisecond clock wraps. Both concern timing data that the models abstract away. `Initialize`'s failure paths and `epoll_wait`'s EINTR return are not modelled; the model sends no signal to the IO thread.
