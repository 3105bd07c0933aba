# TLA+ models of the BK7253 SDK

The SDK (`bk7253_sdk_release_3.2/`) is Beken's Wi-Fi/audio SoC software on RT-Thread: the
kernel in `rt-thread/`, Beken's code in `beken378/` (applications, Wi-Fi glue, drivers and the
`rtos_` wrapper API), board glue in `drivers/`, `function/` and `components/`, third-party
packages in `packages/`.  This directory holds TLA+ models of the parts whose correctness
depends on interleavings, on timeouts and on full queues, the TLC runs that check them and the
proofs that TLAPS checks.  Paths below are relative to `bk7253_sdk_release_3.2/`.

Run a check with `tlc -config MCSoftTimer.cfg MCSoftTimer`, the proofs with
`tlapm RtosQueueProofs.tla`, and so on for `MailboxProofs`, `WifiCoreProofs`, `HostMsgProofs`,
`SoftTimerProofs`, `RoleLaunchProofs`, `MutexProofs` and `ListLemmas`.

## The system

One core, preemptive priorities (`beken378/app/config/sys_config.h:19-31`): core thread 2, kmsg 3,
lwIP, init and media 4, supplicant 5, RT-Thread's timer thread 6, everything else below.
Interrupts preempt all of them.  Components, what they keep and how they touch each other:

| component | state | operations | who else touches it |
|---|---|---|---|
| threads and wait lists (`thread.c`, `ipc.c`) | status, error, wait list, timer | suspend, resume, time out | every blocking call; the tick interrupt |
| kernel mailbox (`ipc.c:1325-1680`) | ring of words, offsets, two wait lists | send (wait), receive | senders in threads and interrupts |
| memory pool (`mempool.c`) | free list, two counters, wait list | alloc, free | both ends of a queue |
| beken queue (`rtos_pub.c:186-368`) | a mailbox and a pool | push = alloc, copy, post; pop = take, copy, free | core, audio, video, voice, BLE, supplicant threads |
| Wi-Fi core thread (`app.c`) | io_queue, `bmsg_rx_count`, packet references | one handler per message type, then the MAC's event scheduler | receive interrupt, lwIP, everyone who sends to the MAC |
| host messages (`rw_msg_tx.c`, `rw_msg_rx.c`) | list of waiting calls, list of confirmations | `rw_msg_send` (5 s), forward, `rwnx_recv_msg` | API threads, core thread, kmsg thread |
| soft timers (`timer.c`) | sorted list, flags, the timer thread's loop | start, stop, check; functions that start timers | all threads; every `rtos_` timer |
| mutex (`ipc.c:560-864`) | value, owner, hold count, owner's original priority, wait list | take (again, wait, time out), release | lwIP's core lock, drivers and applications; the tick interrupt |
| role launch (`joint_up/role_launch.c`, `wlan_ui.c`) | a socket with one request per role, a previous and a following entity per role, cancel flags and status, two one-shot timers | request, enter, poll, start and stop a role | the application, supplicant, hostapd, DHCP, the MAC and power save report into the status; both handlers run in the timer thread |
| power save (`power_save.c`, `mcu_ps.c`, `manual_ps.c`) | sleep state, votes, four timers | sleep check, wake-up, TIM handling | core thread, timers, interrupts, idle |
| MSDU queue (`rw_msdu.c`) | pending frames per station, timer | enqueue, send, time out | core thread, timer thread |
| video, voice, audio (`video_buffer.c`, `voice_transfer.c`, `audio_intf.c`, `function/`, `drivers/audio`) | frame and ring buffers | fill in interrupts, drain in threads | DMA interrupts, sockets |
| heap, semaphore, event, message queue, devices | kernel objects | RT-Thread's API | everyone |
| lwIP, supplicant, BLE, codecs, file systems, MAC library | third-party or binary | | |

The hard behaviours: a push is three separate steps and can fail at two of them; a thread that
was woken may find nothing; a timed-out call races with its answer; the timer thread unlocks the
scheduler in the middle of its list; ticks wrap around; messages pushed without waiting are
dropped when a queue is full; a launch is replaced by what other threads report of it, which may be
late; a mutex hands over to a waiter whose timeout may be due.  `PROJECT.json` lists each of them at its line under "hazards".

## Modules

| module | models | state and steps |
|---|---|---|
| `Thread` | what a thread is in a blocking call | `pc`, `stat`, `error`, remaining `timeout`; suspend, resume, time out |
| `Mailbox` | `rt_mb_send_wait`, `rt_mb_recv` | ring `msg_pool` with its offsets and both wait lists; a step is a section with interrupts disabled |
| `MailboxProofs` | the theorems about `Mailbox` | and the lemmas about suspending, resuming and timing out that `RtosQueueProofs` uses |
| `MemPool` | `rt_mp_alloc`, `rt_mp_free` | free list, `block_free_count`, `suspend_thread_count`, wait list; the wild resume after a stale count is a step of its own |
| `BoundedQueue` | the promise of a queue | abstract: a FIFO of messages, what each caller wants and got |
| `RtosQueue` | `rtos_push_to_queue`, `rtos_pop_from_queue` | composes the three; block contents are copied outside any lock |
| `RtosQueueProofs` | the theorems about `RtosQueue` | extends `MailboxProofs` |
| `WifiCore` | core thread, RX and TX senders | uses a queue through its specification; counters, packet references |
| `WifiCoreProofs` | the theorems about `WifiCore` | |
| `HostMsg` | `rw_msg_send`, `mr_kmsg_fwd`, `rwnx_recv_msg`, kmsg | extends `WifiCore`, whose queue its requests go through |
| `HostMsgProofs` | the theorems about `HostMsg` | extends `WifiCoreProofs`, whose theorems it carries over |
| `SoftTimer` | `rt_timer_start`, `rt_timer_stop`, timer thread | sorted list, flags, the locals of `rt_soft_timer_check`; modular ticks |
| `SoftTimerProofs` | the theorems about `SoftTimer` | |
| `RoleLaunch` | `rl_enter_handler`, `rl_launch_handler`, `bk_wlan_start*` and `bk_wlan_stop` as they call each other; what power save writes into the station's status | socket, entities, cancel and status of each role, both timers, the power-save mode and its unconfirmed changes; `pc` and the locals of the timer thread |
| `RoleLaunchProofs` | the theorems about `RoleLaunch` | |
| `Mutex` | `rt_mutex_take`, `rt_mutex_release` | extends `Thread`; `value`, `owner`, `hold`, `original_priority`, wait lists, `current_priority`; what each caller holds |
| `MutexProofs` | the theorems about `Mutex` | |
| `ListLemmas` | lemmas about lists without duplicates (appending, inserting, removing, the head), least elements, sizes of sets | used by all proof modules but `WifiCoreProofs` and `RoleLaunchProofs` |
| `MC*` | instances for TLC | |

How steps are cut.  One action is what the code does between two points where another thread can
run: a section under `rt_hw_interrupt_disable`, or under `rt_enter_critical` for the timer list.
Who may run there comes from the priorities: in `HostMsg` kmsg outranks every caller, so no
caller runs between kmsg's finding of a node and its signal (the tick interrupt does), and callers
below one that spins in a failed assertion run no more (`Starved`); in
`SoftTimer` threads above the timer thread finish their call before it continues, threads below
run only while it sleeps or a timer's function blocks (`Blocking`).  In `RoleLaunch` both handlers
are steps of the timer thread (priority 6): the supplicant, lwIP, the core thread and kmsg are above
it and report between any two of its steps (`Reports`), the application is below it and runs while
it sleeps or blocks inside the start of a role (`AppRuns`).  In `Mutex` each call is one step, up to
the point where it waits.  Message contents are model
values; ids, packets and blocks are members of small sets; ticks are integers modulo `Ticks`.
The list functions of the MAC library (`co_list_*`) disable interrupts themselves, so
`rwnx_recv_msg`'s pop is one step although its caller holds no lock.

`stopped`, `linked_twice` (`SoftTimer`), `heap` (`HostMsg`), `rx_failed` (`WifiCore`), `kernel`
(`MemPool`), `starved` and `entities` (`RoleLaunch`) are history variables: they record what happened and no step of the code depends on
them.  After the list is linked twice, or the kernel resumes wild memory that it accepts, the
model stops: the program has no defined behaviour from there.

## Runs

Passing runs:

| run | asks | instance |
|---|---|---|
| `mailbox` | is the ring a bounded FIFO, are wait lists exact, is a wake-up ever lost | 2 senders, 2 receivers, 2 words, all kinds of timeout; enough for two waiters on each list and for a word stolen from a woken thread |
| `rtos_queue` | are allocations woken, are the pool's counter and lists right, is the queue full only of messages, is it a FIFO of intact messages | 2 producers that push without waiting or with a timeout, 1 reader, 2 blocks, 2 messages |
| `rtos_queue_two_readers` | are blocks conserved with two readers, one also a writer, and pushes that may wait forever; the error path after an allocation; delivery; deadlock | 3 threads, 2 blocks, mailbox of 1 (the code makes both sizes equal; the difference is the only way into the error path) |
| `wifi_core` | is `bmsg_rx_count` exact, does each frame have a message ahead, do packet references balance | queue of 4, 2 packets, 2 frames |
| `host_msg` | is a freed node reachable, is the waiting list exact, which confirmation answers which call, does every call return | 3 calls from threads of two priorities, 2 wait for the same id, queue of 2; 0.5 million states |
| `soft_timer` | is the list sorted across the wrap, is an active timer on its way, can a stopped one be listed | 1 one-shot and 1 periodic timer, a thread above and one below, ticks modulo 10; 1.3 million states |
| `soft_timer_live` | does a listed timer fire | 2 one-shots, one started by the other's function and by itself |
| `role_launch` | are entities conserved, is a queued request always polled, does a request in the socket have its timer, can a launch be replaced while the access point changes channel | two uses: connections of the station beside starts and stops of the access point; connections, scans and deletions of a station alone, with a failing allocation; 5.9 million states |
| `role_launch_live` | does a queued request of the station start, although monitor mode refuses launches and power save overwrites the status | a station alone in four uses: connections with monitor mode and DTIM power save; connections and scans with power save; connections and scans with monitor mode; connections, deletions and stops by the application; 1.4 million states |
| `mutex` | is ownership exclusive and exact, is a priority inherited while it is due and restored afterwards, does a take come back | 3 threads of different priorities, the lowest nests; 3 mutexes, one queues by arrival; 113 thousand states |

Runs that end in a violation, each a statement of a comment or an assertion that the code
does not keep (`PROJECT.json`, "findings"):

| run | shows |
|---|---|
| `host_msg_free` | on a full core queue `rw_msg_send` frees the inside of a heap block |
| `soft_timer_stop` | a timer stopped during the function of the timer before it is called over and over: the node the loop saved is its own successor.  The model lets no time pass meanwhile once the bound is reached; in the program it lasts until the timeout is half the tick range away |

Three more departures from what the sources say were met while modelling and are no runs of their own;
the properties that hold are stated around them.  `suspend_thread_count` is not the number of pended
threads (`rtdef.h:766`) after an allocation timed out (`mempool.c:367`): `PendedCounted` is the half
that holds.  A one-shot timer that its own function starts again is in the list without the active flag
that `rtdef.h:417` promises, and `rt_timer_stop` refuses to stop it (`timer.c:619`): `ActiveIsListed`
is the half that holds.  A timer started between the timer thread's look at the list and its suspension
is missed until another one is started (`timer.c:642`): `TimerFires` is checked with the starting
threads below the timer thread.

What the passing properties do not promise: `FramesCovered` and `FramesServed` hold until a push
of `bmsg_rx_sender` fails (its count is never given back, `app.c:366-370`); `ConfirmationsMatch`
says a confirmation has the right id, not that it answers this very call (after a timeout the next
call with the same id gets the late answer); `TimerFires` excepts a timeout equal to
`RT_TICK_MAX`, which the timer thread takes for "no timer" (`timer.c:640`); `StoppedNeverListed`
is checked with a stopping thread that outranks the starting one, because `rt_timer_stop` clears
the flag after it unlocked (`timer.c:440`); `NeverLinkedTwice` and `SortedByTimeout` with one starting
thread per timer: a second start may move the deadline of a timer that is linked (`timer.c:322`).
`FullMeansExhausted` says that a full queue leaves no free block and no thread that holds one; a thread
may still be about to allocate or have just freed.  `EveryCallReturns` excepts a call whose post failed
and all calls from less urgent threads then: `os_free(msg_params)` fails the assertion of
`rt_memheap_free` (`memheap.c:575`, with `RT_DEBUG` of `rtconfig.h:14`), no `rt_assert_set_hook` is
called anywhere, and `rt_assert_handler` spins at the caller's priority (`kservice.c:1337`).
`StaFollowingStarts` excepts connections started in monitor mode: `bk_wlan_start_sta_adv` refuses them
and leaves a status that ends nothing (`wlan_ui.c:824`).  It also excepts a power-save mode that is
changed again and again: every change writes `PS_SETTING` (`power_save.c:600`, `706`), in which
`rl_sta_may_next_launch` neither ends a launch nor lets a cancel end it, until the MAC library confirms
it with `LAUNCHED` (`power_save.c:875`, `952`).  `PostedIsScheduled` excepts requests that
`rl_enter_handler` left behind for lack of memory (`role_launch.c:407`).  `NoSwapDuringSwitch` holds
because a cancel set before the decision keeps `rl_set_csa_switching` from starting a switch; it assumes
that no application thread above the timer thread calls `bk_wlan_stop`, which clears a cancel.  That a
status belongs to the launch in progress is not promised: a late disconnect indication fails the
successor, a late confirmation of a power-save change ends its launch.  `OwnerInherits` is about mutexes that queue by priority and about threads that do not nest
mutexes: with nesting, an inner release drops what the outer mutex still owes, and a boosted waiter is
not moved up in its list.  All of `Mutex` assumes that callers take mutexes in ascending order and
release the last one first, as two mutexes taken crosswise would deadlock and a crosswise release leave
a wrong priority behind.  `FifoTakesReturn` is for mutexes that queue by arrival, and assumes that each thread
again and again holds nothing or waits for another such mutex.

Bounds.  `MaxPended` caps the drifting pool counter (three suffices for one stale count with two
waiters); it stops allocations from suspending, hence no deadlock check in `rtos_queue`.  `InHand` is how many blocks other threads may hold while a push looks for
one; `MaxFrames` the frames in the descriptors.  `MaxLate` bounds how many ticks the timer thread
may be late: the code compares ticks only within half the range, 24 days at the real size, so a
small range needs the bound; `Ticks` is ten or sixteen so that runs wrap around.  `MaxTakes` is how
often a thread takes a mutex it owns again, below `HoldRange`, the range of the `rt_uint8_t` that counts
(256; 3 in the run).  `Priority` gives the three calls of `HostMsg` two priorities, so that a hung call
starves one and not the other.  `Uses` are the uses of role launch a run looks at: a behaviour keeps to one (`use`), that is to the
requests it names for each role and to what else it lets happen (`Extras`: stops by the application,
monitor mode, DTIM power save, a failing allocation).  All of them at once are out of TLC's reach; what no use
combines is seen apart only: in `role_launch_live` deletions with scans or power save, scans in monitor mode
with power save, and power save with the application's own stops (monitor mode stops the station in the same way).  Nothing counts in `RoleLaunch`, so the application may go on for ever.

Fairness.  `RtosQueue`: ready threads are scheduled (each thread's own steps, weakly) and a reader
that may read keeps reading.  `WifiCore`: interrupts complete, the core thread has the highest
priority.  `HostMsg`: a thread runs again and again unless a more urgent one spins in
`rt_assert_handler` (a spinning thread of its own priority shares the time), ticks pass; nothing is
assumed of the firmware, which may never answer.  `SoftTimer`: ticks pass; a thread that may
run runs on; strong fairness for the timer thread, as threads above it may preempt it again and
again but leave it some time.  `RoleLaunch`: the timers fire and the timer thread runs on; strong
fairness for the poll (`LaunchFires`), as every queued request starts its timer afresh; scans and channel
switches end, an access point beacons, the MAC library confirms a change of the power-save mode, a call
of the application returns.  Nothing is assumed of
associations, DHCP or the arrival of indications.  `Mutex`: a thread that was made the owner or gave up runs again;
nobody is made to release.

## Proofs

`MailboxProofs` proves for any threads, words and mailbox size:

- `MbTypeCorrect`: `MbSpec => []MbTypeOK`
- `MbListsCorrect`: `MbSpec => []MbListsExact`
- `MbWakeups`: `MbSpec => []NoLostWakeup`, for a finite set of threads
- `MbRefines`: `MbSpec => MbIsBoundedQueue`, for callers that either send or receive

The argument.  `MbInv` is types, exact lists (a thread is in a list exactly while it is suspended at the
label that list belongs to, and at most once), `SleepsWithoutError` (`RT_EOK` until a resume or a timeout says
otherwise), the role of each caller, and `RingAligned`: `in_offset` is `entry` slots after `out_offset`.
`NoLostWakeup` compares sizes of sets, words in the ring with receivers about to look for one, so it needs
the threads to be finite: a post adds a word and wakes one receiver, a take removes a word and its taker was
about to look, and a timeout takes a thread off its list, so it wakes nobody by mistake.  For `MbRefines`
every step of the code maps to a send, a receive, the start or end of a call, or a stutter of
`BoundedQueue`; a word is the same word in every slot by the ring's arithmetic.

`RtosQueueProofs` proves for every number of blocks and messages, every mailbox size and every
set of threads:

- `TypeCorrect`: `Spec => []TypeOK`
- `Conservation`: `Spec => []BlocksConserved`; every block is free, posted or held by one thread
- `BlocksAddUp`: free blocks, queued messages and threads with a block in hand add up to the pool
- `RoomToPost`: `Spec => []SendNeverFull`, and `FullIsExhausted`: `Spec => []FullMeansExhausted`,
  both when the mailbox has a word per block, as `rtos_init_queue` makes it
- `PendedNeverMissed`: `Spec => []PendedCounted`
- `ListsCorrect`: `Spec => []ListsExact`, the wait lists of the pool and of the mailbox
- `AllocWakeups`: `Spec => []AllocNoLostWakeup`, and `QueueWakeups`: `Spec => []NoLostWakeup`, both for a
  finite set of threads
- `QueueRefines`: `Spec => IsBoundedQueue`

The argument.  `BlocksConserved` is not inductive: that a post does not overwrite a waiting word
needs the offsets, and that a thread does not free a block it no longer has needs to know where it
holds one.  `Inv` adds `HeldWhereUsed` (a thread's `mail` is a block exactly at the labels between
allocation and post, and between receive and free) and `RingOfBlocks` (`in_offset` is `entry`
slots after `out_offset`, and live slots hold blocks).  Each action is one step of the proof; the
ring's modular arithmetic is in lemmas of its own.  `RoomToPost` is counting: the ring's words, the
free blocks and the holder's block are distinct, so a holder leaves fewer than all blocks in the
ring.  `BlocksAddUp` counts the same three places; it is what `WifiCore` rests on when its push without
waiting fails only on a queue that is full but for the blocks in hand (`PushFailed`, `InHand`).
`ListsExact` needs `Settled`: a suspended thread is in one of the three waits and has no error yet.  `AllocNoLostWakeup` needs `PendedCounted`, since `rt_mp_free` asks the counter and not the list
whether somebody waits.  `QueueRefines` needs `Copied`: between the copy into a block and its post
(`memcpy` outside any lock) nobody else writes that block, because it is in no other place
(`BlocksConserved`); the same holds between a receive and the copy out.  Assumptions: those named in the modules (`SizeAssumption`, `BlocksAssumption`,
`NoMailAssumption` and so on), which TLC evaluates in every run.

`WifiCoreProofs` proves for every queue size, every set of packets and any number of frames:

- `CoreTypeCorrect`: `CoreSpec => []CoreTypeOK`
- `RxCounted`: `CoreSpec => []RxCountExact`
- `FramesAlwaysCovered`: `CoreSpec => []FramesCovered`
- `ReferencesExact`: `CoreSpec => []RefsExact`

The argument.  The properties count messages in the queue, so first come lemmas about
`Occurrences` (what appending and taking the head do to it; the second by a bijection that shifts
the positions) and one lemma per kind of step about `Unhandled`.  `CoreInv` conjoins the properties,
the fact that only known messages are queued, and `PacketQueuedOnce`: a packet is queued at
most once and only after its push, without which `ref` has no bound.  `FramesCovered` needs
`RxCountExact`: an interrupt that posts nothing has seen a count of two, and with no failed push that
is two messages ahead.  All of it is stated for any set `M` of messages the queue may carry besides the
core thread's own (`Carries`), so that it can be used where the core thread is composed with others.

`HostMsgProofs` proves for any number of calls, any ids and any set of calls that wait:

- `TxHeadIsExact`: `HmSpec => []TxHeadExact`
- `NodesNeverDangle`: `HmSpec => []NodesAlive`
- `ConfirmedOnceById`: `HmSpec => []ConfirmationsMatch`
- `NoConfirmationForgotten`: `HmSpec => []RxNotForgotten`
- `HostTypeCorrect`: `HmSpec => []HmTypeOK`, for finitely many calls
- `RxCountedWithRequests`, `FramesCoveredWithRequests`, `ReferencesExactWithRequests`: the invariants of
  `WifiCore` hold in the composition, `HmSpec => []RxCountExact` and so on

The argument.  `NodesAlive` is not inductive: that the node kmsg found is live when it signals
needs to know that it still waits then, which holds because kmsg outranks the callers
(`SenderRuns`; with equal priorities the mutant `AnySenderRuns` breaks it).  `HmInv` adds: the
list is the set `Waiting` without duplicates; kmsg's `found` is in it; a call owns its node from
`Call` to `Return`; a semaphore that is set means the answer already took the node off the list.
Two lemmas describe what appending to the list and `co_list_extract` do to its elements.
`ConfirmationsMatch` is about one request's journey: `JourneyInv` says that a request is in one place (not
yet posted, queued, with the core thread, in the MAC library, in `rw_msg_rx_head`, with kmsg, or given to
a call) and once in that place, `AnswersMatch` that kmsg and the calls it answered have a request of
the right id.  `HmTypeOK` bounds `app_sema`, which is raised once per confirmation and taken once for
many: never by more than the requests that are past the library (`SemaBound`).  For the last three, a step
of `HostMsg` is a step of the core thread with a larger set of messages, or posts a request, or leaves
the core's variables alone (`CoreComposes`).

`SoftTimerProofs` proves for any timers, threads, callbacks, periods and tick range:

- `SoftTypeCorrect`: `Spec => []TypeOK`
- `AlwaysSorted`: `Spec => []SortedByTimeout`, where no two threads start the same timer (`OneStarter`)
- `ActiveAlwaysListed`: `Spec => []ActiveIsListed`
- `LinkedOnce`: `Spec => []NeverLinkedTwice`, under the same hypothesis
- `StoppedStaysOut`: `Spec => []StoppedNeverListed`, where moreover only threads above the timer thread stop
  timers (`StoppersOutrank`)

The argument.  Ticks wrap, so an order on timeouts exists only among deadlines that lie close to each
other.  `TimerInv` therefore adds `InWindow`: every deadline in the list, and the one a start in progress
has computed but not linked yet, lies in one window of half the range that begins `MaxLate` ticks ago.
The window and the order (`InOrder`) rest on `OneStarter`: the deadline is set between the two sections
(`StartReads`), when the starter's timer must not be listed.  From the window follow that the comparison
in `rt_timer_start` is a total order, that inserting keeps the list sorted and that a tick keeps both.  `OnceInv` adds `StartsAlone`: between the two sections of a start, its timer is
neither active nor linked, and nobody but the starter would link it.  `StopInv` adds that a stop in progress has its
timer to itself and that a stopped timer is neither linked nor being linked.  `AlwaysSorted` and the last two
theorems have hypotheses about how the timers are used because the code does not promise more: `rt_timer_start` unlocks between
unlinking and linking (`timer.c:313-325`), `rt_timer_stop` clears the flag after it (`timer.c:440`).  `MCSoftTimer` states
both as an ASSUME for its instances; the callers in `beken378` keep them only as far as each timer is
handled by one thread, which nothing enforces.

`RoleLaunchProofs` proves for any set of requests, with and without monitor mode, power save and failing
allocations, in any combination (`Uses`):

- `TypeCorrect`: `Spec => []TypeOK`, with it that no more than four entities exist
- `EntitiesAreConserved`: `Spec => []EntitiesConserved`
- `QueuedAlwaysPolled`: `Spec => []QueuedIsPolled`
- `PostedAlwaysScheduled`: `Spec => []PostedIsScheduled`
- `NeverSwapsDuringSwitch`: `Spec => NoSwapDuringSwitch`, an action property

The argument.  `RlInv` is `TypeOK /\ QueueInv /\ SwitchInv /\ PostedIsScheduled`.  `QueueInv` adds to the
conservation of entities what the handler knows at each label: whoever is queued is polled or about to be
(`PolledInv`), a launch that is cancelled or decided on exists and the second role has its turn only when
nothing waits for the first (`TurnInv`), a first type is set once anything is queued (`FirstInv`).
`SwitchInv` is what `NoSwapDuringSwitch` rests on: from the decision on, a launch with a follower is
cancelled, and once it is decided to replace it no switch is outstanding; `rl_set_csa_switching` keeps it,
because it refuses while a role is cancelled.  Only the timer thread touches queue, poll and launch
(`OthersLeave`), so the steps of all others are one case.

`MutexProofs` proves for any threads, mutexes, flags, priorities and nesting:

- `TypeCorrect`: `Spec => []TypeOK`
- `OwnershipIsExact`: `Spec => []OwnershipExact`, mutual exclusion
- `AvailableIsExact`: `Spec => []AvailableExact`
- `PriorityAlwaysRestored`: `Spec => []PriorityRestored`
- `OwnerAlwaysInherits`: `Spec => []OwnerInherits`

The argument.  `MInv` conjoins the types and seven facts, none inductive by itself.  `CallInv` ties a thread's label,
status and error to what it waits for; `WaitersInv` says whoever is in a wait list is suspended and waits
for this mutex, and is there once; `OwnInv` is ownership and availability.  `PriorityRestored` is about the
moment nothing is owned any more, and the priority restored then is the one saved by the mutex that was taken
first: `FirstInv` says that the first mutex a thread has saved the thread's own priority.  `OwnerInherits` has to survive a hand-over, where the new owner inherits
nothing: `SortedInv` says that those behind it in a list by priority are no more urgent, and `NestInv`
that a thread which does not nest holds one mutex at most and none while it waits, so that what its
release restores is its own.

Assumptions: the named ones of the modules, which TLC evaluates in the runs; the hypotheses a theorem states
besides are in its list above, and the runs' instances satisfy them.

Only model-checked: liveness, that is `FramesServed`, `TimerFires`, `Delivered`, `EveryCallReturns`,
`StaFollowingStarts` and `FifoTakesReturn`.  Liveness under fairness and ENABLED are out of the prover's
reach and stay with TLC; so does the absence of deadlock.  All invariants and the action property that
the passing runs check, and both refinements, are proved.

## Not modelled

Deletion of queues, timers and pools while in use; failures at creation; `rtos_is_queue_empty` and
`rtos_is_queue_full` (reads); hard timers; `rt_timer_control` and `rtos_change_period`; priorities
beyond who may run where; most of `rwnx_handle_recv_msg`'s reactions; `rw_msdu.c`'s frames behind
`bmsg_tx_handler`.  Of the pool: the write of `thread->error` through the wild
pointer (`mempool.c:439`), beyond that it may break the kernel.  Of the soft timers: the calls of
`rt_timer_stop` that timers' functions make.  Of role launch: the AP's `INITING`, which nothing tests;
the waits inside `bk_wlan_start_ap`, which is one step; the sleep state machine of power save, of which
only the reports are modelled (a change is opened while the station is up, the only role and not being
stopped, and closed at any time, which covers disable messages that are deferred or dropped);
`rl_uninit` and `rl_stop`, which nothing calls; `relaunch_limit`, which nothing sets; the record
of the last access point in flash, whose match is a free choice (`fast`); the failing allocation of a
scan request; a beacon for a cancelled launch that is not sent.  Of the mutex: deletion, the order
in which ready threads run, and the retry after a signal, which is not built.  Drivers, calibration, codecs, third-party stacks and the binary MAC library
are left out; where the code calls the library its effect is external in the map.

## Plan

Done: the mailbox, the queue, the core thread, host messages, soft timers, role launch and the mutex, each
with its proofs.  Next, in this order; where a new run replaces an old one, the question that is proved gives way:

1. `PowerSave`: the sleep and wake-up state machine with its timers, the pushes that may be
   dropped, and the test of the core queue outside the lock; `McuPs`: sleep votes and tick compensation.
2. `VideoBuffer`, audio ring buffers: interrupt filling, thread draining, wrap and overrun.
3. `MsduQueue`: pending frames per station and their timer.
4. Semaphore, event and message queue, on `Thread` and `ListLemmas` as the mutex is.
5. Proofs: that `WifiCore`'s queue is the one `RtosQueue` implements, as a refinement instead of the
   counting of `BlocksAddUp`; an abstract timer service (a started timer is called back no earlier than its
   timeout) and that `SoftTimer` implements its safety part.
