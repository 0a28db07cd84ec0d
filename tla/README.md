# nRF51 platform: TLA+ models, checks and proofs

This directory models the firmware of the JUMA nRF51 platform (`src/Platform`):
the run-time that lies between the SoftDevice and an application, with its task
dispatcher, its data warehouse in flash, its over-the-air update, its messages
over the air, its bonds, and the serial port and peripherals an application
drives. The models
are TLA+ modules translated from the C source, checked with TLC on small
instances and, where a property matters most, proved with TLAPS for every
instance.

    tlc -workers 2 -config MCDispatch_lists.cfg MCDispatch     # check a run
    tlapm DispatchProofs.tla                                    # check the proofs

`PROJECT.json` lists the runs, the mutants that show each property can fail, the
source lines of every definition, the hazards and the findings.

## The system

One thread runs the main loop of `device_main.c`: reset the watchdog, run
`dispatch()`, hand received serial bytes to the application, sleep until an
event. Everything else is called from it or from an interrupt.

| component | state | operations | talks to |
|---|---|---|---|
| dispatcher (`dispatch.c`) | pool of 32 blocks; free, timed and idle lists; RTC compare register | `run_when_idle`, `run_at_time`, `dispatch`, RTC interrupt | called by every component, also from interrupts |
| main loop, BLE events (`device_main.c`) | connection handle, system-off flag | start-up, the loop, BLE and system events | all |
| data warehouse (`data_storage.c`) | data area and cache in flash, one buffer, `data_storage_statue` | `data_storage_write`, `data_storage_read`, seven steps of a write, completion callback | dispatcher, flash layer |
| flash layer (`flash_operation.c`) | one completion handler, pstorage's queue of 10 | clear, program, completion | pstorage (external); the last client to set the handler gets every completion |
| update (`ota.c`) | state and step of the update, sum and length, first word held back, copy of the block | message 0x81 (begin, block, end), 0x82 (enter update mode), completion callback | flash layer, dispatcher (delayed reset), data service |
| loader (`loader.c`) | pointer to the application | choose application or update mode; notifications | flash |
| data service (`juma_data_service.c`) | one message buffer and offset | command and bulk writes, notification | system messages (`sysmsg.c`) |
| timer resources (`juma_sys_res_manage.c`) | owner flag and handler of TIMER1 and TIMER2 | apply, free | light, user timer, infrared; the buzzer takes TIMER2 without asking |
| light, user timer, infrared, buzzer, ADC | pins and color, type, four compare channels, note and round, one callback | start, stop, interrupt | timer resources, dispatcher |
| serial port (`serial.c`, `app_uart_fifo_mod.c`) | two FIFOs, transmit state, the byte left in RXD | send, get, interrupt | main loop |
| device manager (`device_manager_peripheral.c`, `_central.c`) | connection, peer, bond and context tables; their copies in flash | link events, setup, deletion, whitelist, start-up | SoftDevice, pstorage; `device_main.c`, `host_main.c` |
| service discovery (`ble_db_discovery.c`) | registered users, waiting events, the service, characteristic and descriptor in progress | register, start, three responses | SoftDevice; the users |
| advertising data (`ble_advdata.c`) | none: encodes into a buffer on the stack | set | `device_main.c` |
| host role (`host_main.c`) | its device handle, scan parameters | scan, reports, device manager events | device manager, discovery |
| watchdog, GPIO, SPI, random, graphics | registers, a frame buffer | | |
| application interface, examples, image converter (`src/Interface`, `src/Product`) | | | |

What is hard in it:

- **interrupts** register operations at any point of the main thread, and the
  processor goes to sleep in between;
- **reused memory**: freed blocks with stale pointers, one buffer for every
  message and every stored value, flash programmed from memory that lives on;
- **flash** is slow, one operation at a time, in the order of the queue, and the
  completion says which kind of operation it was and nothing else;
- **power** may fail at every step; the flash is all that is left;
- **the phone** sends, waits, vanishes and comes back;
- **the clock** is a 24-bit counter that wraps, with a compare register that may
  be passed while it is being set.

What makes each component correct: the dispatcher runs every task once, idle
tasks in order and timed ones when due, and never sleeps through one; the
warehouse reads back what it reported stored, also after a power loss; the
update never boots anything but a whole image, and what it told the phone is
true; timers belong to one client at a time; a message is handed over when it is
complete and not changed while it is used; a bond that was reported is there
after a power loss, and a phone gets its own key or none; a byte passes through
the serial port once and in order.

## Modules

| module | models |
|---|---|
| `Dispatch` | `dispatch.c` and the loop of `main`, down to the `next` pointers |
| `DispatchView` | a view for model checking, which names blocks by their place on the lists |
| `Scheduler`, `DispatchRefines` | what the dispatcher promises, and that `Dispatch` implements it |
| `DispatchFair` | liveness, under a bound on interrupts per pass of the loop |
| `DispatchProofs` | theorems about its lists and tasks, its timed operations, and that it implements `Scheduler` |
| `DataStorage` | `data_storage.c` and `flash_operation.c` |
| `Warehouse` | what the warehouse promises: a value per id, replaced in one step |
| `DataStorageProofs` | theorems about `DataStorage`, and that it implements `Warehouse` |
| `Ota` | `ota.c`, the boot of `loader.c` and `device_main.c`, and a phone |
| `OtaProofs` | its theorems |
| `DeviceLink` | `juma_data_service.c`, the connection events and messages of `device_main.c`, `sysmsg.c` and its answers, `ble_device_send`, and a phone |
| `DeviceLinkProofs` | its theorems |
| `Advertising` | `ble_advdata.c`, and the search of a report in `host_main.c` |
| `DeviceManager` | what the two device managers have in common: tables, flash, start-up |
| `DeviceManagerPeripheral` | the events of `device_manager_peripheral.c` |
| `DeviceManagerCentral` | the events of `device_manager_central.c` under the handlers of `host_main.c` |
| `DeviceManagerProofs` | lemmas about `DeviceManager` that both proofs below use |
| `DeviceManagerPeripheralProofs` | theorems about the bonds of the device build |
| `DbDiscovery` | `ble_db_discovery.c` |
| `HostProofs` | theorems about the bonds of the host build, then about its discovery |
| `Serial` | `serial.c` and `app_uart_fifo_mod.c` under the main loop |
| `Peripherals` | `juma_sys_res_manage.c`, `timer.c`, `light.c`, `infrared/`, `passive_buzzer.c`, `adc.c` |
| `ApplicationProofs` | theorems about `Peripherals`, then about `Serial`, in `MCApplication` |
| `MCDispatch`, `MCDispatchFair`, `MCDataStorage`, `MCOta` | instances for TLC |
| `MCDevice` | `DeviceLink` and `DeviceManagerPeripheral`, the device build |
| `MCHost` | `DeviceManagerCentral` and `DbDiscovery`, the host build |
| `MCApplication` | `Serial` and `Peripherals`, what an application drives |

**Dispatch.** `head`, `tail`, `next`, `func`, `time` are the fields of the queues
and of `operation_t`; `line`, `sel`, `more`, `cur` are the place and the locals of
`dispatch()`. `now` and `cc` are the RTC's counter and compare register, `wake`
is the event latched for `sd_app_evt_wait`. `RunWhenIdle` and `RunAtTime` are the
whole functions, `reset_rtc` included. `PostIdle` and `PostTimed` are calls by an
interrupt (at any time), by a running operation or by the serial callback. Each
statement of `dispatch()` at which something else can happen is an action. A
call is one step: what an interrupt may do between two statements of
`allocate`, which nothing masks, is a hazard this module leaves open.
The walk of a list is the least set closed under its steps rather than a loop.
`pending` is a history variable: tasks registered and not started.

**DataStorage.** A block is an id and a value; `area` and `cache` are the two zones.
`idle` is the queue of `run_when_idle` operations of this component, `flash`
pstorage's queue. `Program` writes one block and reads its source at that moment;
`Erase` erases one page; `FlashDone` pops the operation and calls
`data_storage_callback`. Each settlement step is an operator named as its step;
the chain is find space, clear the cache, save the newest blocks, clear the
area, write back, find space again. `PowerLoss` keeps the flash only. `writing`,
`saved` and `outages` are history variables. The last value of a write cut off
by a power loss is whatever the flash holds of it, old or new.

**Ota.** A block is an image and an index, the first word of the application
apart from the first block, because the device holds it back. `Erase` and
`Program` may fail although success is reported (`Faults`, `FaultyPages`). The phone follows
`Document/private_document/ble_master/ota.md`, waits for each answer, and may
disconnect, send other messages, or begin again with another image. The sum is
taken to tell any two contents apart. A reset is one action, `Boot`.

**DeviceLink.** `rx` is the message buffer with its offset, which nothing clears but a
connection (the offset) and a reset; `handle` is the handle the code believes
in, `sd` the SoftDevice's link and advertising. Between a lost link and
`OnDisconnect` the device handles what had arrived. A byte carries the message
it belongs to, so that `SaidIsHeard` can tell a message put together of two.
`CommandWrite` and `BulkWrite` are the whole handlers, down to the answer of
`sysmsg.c` or of an application that echoes. A call the SoftDevice refuses goes
through `app_error_handler`, which is `Reset`. The code takes a command whatever length it
declares, because it checks the length byte of the message before; `rx.long` is a history variable that says
that it took one longer than the buffer. From there to a reset the code writes and reads
behind the buffer, and the properties claim nothing. `ad` holds what is on the air;
`ad.spilled` remembers that the encoders wrote behind their buffer on the stack, and for
how long a name (`Spilled`), also when they refused the data in the end and the device reset.

**DeviceManager** and its two roles. `conn` is the one entry of
`m_connection_table`, `table` `m_peer_table`, `bond` the one bond buffer, `gatts` the one
context buffer; `queue` and `flash` are pstorage's. `link` and `peers` are the
SoftDevice and the phones, `owed` the key a phone may count on: set when pairing
is reported complete, taken away by whatever revokes it. One action is one event
of `dm_ble_evt_handler` with all the calls it makes, and the handler of
`device_main.c` or `host_main.c`, which resets on an error. `CarriedOut` reads
the source of a store when pstorage comes to it.

**DbDiscovery.** A peer's service is a sequence of attributes; the handlers are
operators on one record, because they call each other to the depth of five.
Every call into the SoftDevice may be refused. The peer answers a request for
characteristics with any number of those first in the range (`CharsIn`), and a request for
descriptors with the first that fit one response (`DescsIn`): at most `DescBatch` with short UUIDs, or one
with a long UUID. `OnDescs` looks at that response only, as the code does. Of the
layouts nothing is assumed but that a declaration is followed by a value
(`DiscoveryAssumption`). A service may be registered twice; `Handler` is who is told then.
`told` is the list of the events given to users since the discovery was started.

**Serial.** `UART0_IRQHandler` is one step and may come between any two steps of the
main loop: `app_uart_put`, the look at the transmit state, `app_fifo_get`, the
write of TXD. `app_uart_get` masks the interrupt and is one step. Bytes are numbered.

**Peripherals.** `own` is who holds the timers. A `Compare` is TIMER1 reaching its next
channel; the interrupt comes at most `MaxLate` compares later. `Served`
handles the four channels in the code's order. `timer_stop` is two steps, `TimerStop`, which
stops TIMER1, and `TimerFree`, which frees it, with interrupts in between: one that is pending is taken
before the second (`timer_on_fired` may start or stop the timer in it). `timer.raced` is a history variable that says
that the second freed a timer that was running again. `set_color` goes pin by pin, with
the end of a period in between. `t2` has what the users of TIMER2 leave in it: `short`, that compare 1
clears it, and `out`, the pin whose GPIOTE task PPI 0 leads compare 0 to. `light_on` resets neither. `Spoilt` is
the hardware's part: the pins whose duty cycle this ruins, which `LightDisturbed` then shows. Without power TIMER2 keeps
its registers or loses them (`Unpowered`, the manual leaves it open). Time is not modelled but for TIMER1's counter.

The parts of `MCDevice` and of `MCHost` share no state, so a behaviour moves one of them
(`part`); an application uses the modules of one profile (`use`), those that can disturb
each other together.

## Runs

| run | module | shows |
|---|---|---|
| `dispatch_lists` | `MCDispatch` | types, `Partition`, `ListsLinked`, `NothingLost`, `IdleDrained`, and the refinement `KeepsPromise` of `Scheduler` |
| `dispatch_timers` | `MCDispatch` | `TimersInOrder`, `AlarmArmed` with three timed tasks |
| `dispatch_started` | `MCDispatchFair` | `EventuallyStarted` |
| `storage_safe` | `MCDataStorage` | `ReadsBack`, `ProgramsErased`, `OneStep`, refinement of `Warehouse`, `EventuallyFinished` |
| `ota_update` | `MCOta` | `BootsWhole`, `AckedStored`, `OneFlashOp`, `EndRestarts` |
| `device` | `MCDevice` | messages are heard whole, once and all (`SaidIsHeard`, `AllHeard`, `LinkTypeOK`), `Reachable`, `AdShown` (which has the bound of the encoders' buffer); `BondsSound` and `BondsHonoured` |
| `host` | `MCHost` | `BondsSound`, `BondedKey`, `BusyPairs`; `DiscoveryRight`, `EveryUserTold` |
| `application` | `MCApplication` | `SerialRight`, `EventuallyServed`; `TimersRight` (until a stop frees a running timer), `WaveRight`, `LightRight` (which names the pins that may be spoilt), `WholeTune`, `EventuallyDone` |
| `dispatch_stale_link` | `MCDispatch` | violation of `NothingLost` |
| `storage_rewrite_loss` | `MCDataStorage` | violation of `ReadsBack` |
| `ota_entry` | `MCOta` | violation of `EntryErases` |
| `host_descriptors` | `MCHost` | violation of `CccdFound` |

### Bounds

*Dispatch.* Four blocks and two tasks: the lists have two blocks at most while
one runs and one stays free, so that every list is empty, single and longer, and
the free list turns over and meets stale pointers. Three tasks and five blocks
for the timer order: an insertion in front, in the middle and at the end. The
counter has 16 values instead of 2^24, with a `MinDelay` of 1: delays of 0 and 3
and at most `MaxLag` = 2 ticks of lateness stay within the half turn the
comparison needs (the code's window of 2^23 ticks is 2.3 hours) and cross the
wrap from every starting point. `MaxLag` bounds the clock only while the
processor is awake. Tasks are symmetric. Blocks are interchangeable, which the view
`Renamed` uses; it keeps everything later behaviour depends on, the stale pointers included.

*DataStorage.* An area of two pages of three blocks, a cache of one page, two
ids, two values: both ids fit the cache with a block to spare, as 16 ids in 32
blocks do; the area fills after six writes and is settled again and again with either id newest,
both pages take part in the erasure. Queue lengths follow from one write at a time.

*Ota.* Two images of three blocks, the first in the first page with the first
word, three tries, a queue of three, one page whose erasure may fail. Two images
are enough for a mixed one; three blocks have a first, a middle and a last.
pstorage's queue has 10 entries and the code tries 15 times; what matters is that both limits are met.

*Device.* A write carries 3 bytes and the buffer holds 8: a message of 3 fits one write, one of
8 fills the buffer and needs three, as with 20 and 200, so that a bulk write begins, continues and ends one;
one of 10 is longer than the buffer, as those are that declare 199 to 255. Of the kinds of messages those for the
application, the identification and the request to disconnect, which resets when it is refused. Two messages on
a link, two writes on the way and any number of links: one is given up and followed by another,
on this link or the next. Links are made under the device's own data, and names
and data change between links; neither looks at the other. Names of 22, 23, 26, 27
and 30 bytes: 22 is the longest that fits beside the flags and the service, 26 the longest after which the flags still
fit, and 30 is cut before it is encoded; the other data exercise every
encoder, and three of them exactly fill or exceed the 31 bytes.

*Bonds* (`device` and `host`). One phone with a public address, which is recognised by it, and
one with a resolvable one, which is not; two entries, three keys: the table fills, a bond is renewed, one
is deleted, and the bond buffer changes hands. The queue has four entries; since flash
operations end before the next link event (`Prompt = TRUE`), no chain fills it, so a full queue is not met.

*Host.* Two services at a peer with eight layouts, each for either; two
characteristics per response of the up to three that fit, and five descriptors (`DescBatch`), which is what
a response of the default size holds: a configuration descriptor is first, in the middle, behind five others,
and behind a long UUID. Two users of two services or of the same.

*Application.* FIFOs and UART of two bytes, five bytes in and four out: full, empty and
turned over. Signals of one to three bits, so that the end of a signal meets
different channels; a late interrupt finds up to three of them. Colors with a duty cycle on the first, the
second or two of the pins, beside pins that are on and off. A tune of four notes, three rounds, played twice.

### Assumptions of the runs

- `dispatch_lists`, `dispatch_timers`, `dispatch_started`: callers leave one
  block free (`Overcommit = FALSE`). Without it see `dispatch_stale_link`.
- `IdleDrained`: the serial callback registers no idle operation; such an
  operation does wait for the next event.
- `storage_safe`: one write at a time, the flash carries out what it accepts,
  the source on the stack stays intact, and the power does not fail while
  the area is being rewritten. `storage_rewrite_loss` drops the last; `Overlap = TRUE`
  or `StackHolds = FALSE` breaks `ReadsBack` as well, see *Findings*.
- `ota_update`: the erasure of the first page is what it is reported to be.
- `device`, `host`: flash operations end before the next link event (`Prompt`);
  a bond whose operations were still queued at a power loss is not counted on.
- `device`: the phone may declare more bytes than the buffer has, and the device takes it; `LinkTypeOK`,
  `SaidIsHeard` and `AllHeard` speak of what happens before.
- `host`: `ble_db_discovery_start` is called as its header asks, with a structure that is zero; no service of the
  peer has more characteristics than the three the module keeps (`Fits`).
- `application`: an application stops only what it started and sets the type of its timer
  before it starts it, `serial_send` is called by the main loop, and the modules
  used together are those of `Profiles`; the sound and the light share TIMER2
  with no arbitration at all and are not combined; nor are the user timer and the sender, which leaves
  TIMER1's four interrupts enabled and its compares led to the infrared pin. The period of the carrier is shorter than
  that of the light (255 counts), as with the default of 214.

### Fairness

`DispatchFair` assumes weak fairness of the main thread, which is the processor
executing; strong fairness of the tick, because its guard, the bound on
interrupts in one pass (`Burst`), opens again each time round; and idle
operations that do not register idle operations for ever. The last is a limit of the
code: `dispatch()` looks at the timed list only before the first idle operation.
`DataStorage` assumes weak fairness of the dispatcher's idle operations and of
the flash, which is what `EventuallyStarted` and a working flash give; with
infinitely many power losses nothing is asked to finish, because a power loss
ends the write. `Ota` assumes it of the flash, the delayed reset and the main
loop. `Serial` assumes that an interrupt is taken, that the main loop goes on while
it is awake (`Wait` is only enabled by an event), and that a byte in TXD leaves.
`Peripherals` assumes that a running timer counts, that interrupts are taken, and that
what was registered with the dispatcher is called, which is
`EventuallyStarted`. Nothing is assumed of the phone or of any caller.

## What is proved

All theorems hold for every value of the constants that satisfies the named
assumptions of the modules, and of the hypotheses below where a theorem has
one; the hypotheses are those of the runs (*Assumptions of the runs*).

| theorem | property | hypothesis |
|---|---|---|
| `DispatchProofs!TypeCorrect` | `TypeOK` | |
| `PoolPartitioned`, `TasksAreKept` | `Partition`, `NothingLost` | `~Overcommit` |
| `ListsStayLinked` | `ListsLinked` | `~Overcommit` |
| `SleepsDrained` | `IdleDrained` | the serial callback registers no idle operation |
| `TimerListSorted`, `NoAlarmIsMissed` | `TimersInOrder`, `AlarmArmed` | `Punctual` |
| `ImplementsScheduler` | `KeepsPromise` of the dispatcher | `Punctual` |
| `DataStorageProofs!TypeCorrect`, `OneAtATime` | `TypeOK`, `OneStep` | `~Overlap` |
| `NeverOverwrites` | `ProgramsErased` | and `~FlashFails` |
| `NothingIsLost`, `ImplementsWarehouse` | `ReadsBack`, `KeepsPromise` | `Careful` |
| `OtaProofs!TypeCorrect`, `OneOperation`, `AcksAreKept` | `TypeOK`, `OneFlashOp`, `AckedStored` | |
| `WholeBoot` | `BootsWhole` | the first page is erased when reported erased |
| `DeviceLinkProofs!TypeCorrect`, `WhatIsHeardWasSaid`, `WhatIsSaidIsHeard` | `LinkTypeOK`, `SaidIsHeard`, `AllHeard` | (the properties end at a command longer than the buffer) |
| `AlwaysReachable` | `Reachable` | |
| `SerialIsRight` | `SerialRight` | |
| `ApplicationProofs!TimersAreRight`, `WaveIsRight` | `TimersRight`, `WaveRight` | `Separate`, `Short` (`TimersRight` ends when a stop frees a running timer) |
| `LightIsRight` | `LightRight` | `Separate` (the property names the spoilt pins) |
| `TuneIsWhole` | `WholeTune` | |
| `BondsAreSound`, `BusyWhilePairing`, `OwnKeyIsOffered` (`HostProofs`) | `BondsSound`, `BusyPairs`, `BondedKey` of the host build | `Orderly` |
| `HostProofs!DiscoveryTellsRight` | `DiscoveryRight` | `Fits` |
| `UsersAreTold` | `EveryUserTold` | |
| `BondsAreSound`, `BondsAreHonoured` (`DeviceManagerPeripheralProofs`) | `BondsSound`, `BondsHonoured` of the device build | `Orderly` |

**`DispatchProofs`.** While callers leave one block in reserve, every block is
at all times on exactly one list or running. `Partition` speaks of what can be
reached from a head, which no step preserves by itself. The inductive invariant
is `Labelled`: there is a labelling of the blocks, `own` (the list a block is
on) and `pos` (consecutive numbers along the list), with which the pointers
agree; every step gives the new labelling, and well-founded induction along
`pos` shows that what is reachable is what is labelled. The next pointer of the
last free block is left out of it: that is the stale one. `ListsLinked` says the
same of the labelling that the pointers themselves give, the number of blocks on
the way from the head to each (`Place`), and is what TLC evaluates; since positions
have no gap (`NoGap`), the blocks on the way are those with smaller positions
(`LeadsOn`), so it follows from `Labelled` (`LabelledLinked`). For `TasksAreKept` and `SleepsDrained`
one more fact is carried through each step, `Passes`: a step moves at most one
block from one list to another, so a task that is not started cannot leave the
lists but by being started, and an idle list that was empty stays so unless
something is registered, which latches an event.

**`DispatchProofs`, timed operations.** The counter is cyclic, so the order of two times means
something only within a window. The invariant `TimersKept` labels every timed
block with its *lead*, an integer: how far ahead of the clock it is, negative
when overdue. `Reckoned` ties leads and the time left to sleep to the registers;
`Ascending` is the order of the list; `Prompt` bounds how late an operation gets
while the processor is awake, and `Armed` how late when it sleeps: the compare
register is still ahead, and set for the first operation, or, if that is nearer than
the shortest sleep (`MinDelay`), for that sleep. `Punctual` is `~Overcommit` and
that delays, with all lateness (`MaxLag + MinDelay`), stay below half a turn, which
is what `LATTER_THAN` (`dispatch.c:20-26`) can tell apart.

**`DispatchProofs`, the promise.** `DispatchRefines` reads the idle tasks off the list as the sequence `Order` of its
blocks, defined as one that begins at the head, follows the links and ends at the tail. That there is one
follows from the labelling, whose positions have no gap (`NoGap`); that there is one only, because the i-th block
of any such sequence has the i-th position (`InOrderPlaces`). A step then gives the
next order by naming it: its tail when the head is started, one block more when `run_when_idle`
appends it, the same otherwise. For the timed tasks the order of the list and `LATTER_THAN` say that the head is the
earliest (`StartDueSeen`). One more invariant is needed, `Faithful`: queued blocks carry
registered tasks, no two the same; without it starting one would take two timed tasks away. With
`Punctual` every step of the dispatcher is one of `Scheduler` or invisible to it.

**`DataStorageProofs`.** Three layers. `CInv`: a write is a chain of steps, and the
dispatcher's queue, the flash's queue and `statue` name the same step of it (`Chain`);
this gives `OneStep`, also with power losses and failing operations. `Ahead`: what
the step under way is about to program is erased, or being erased by what comes before it
in the queue. `Kept`: the value of every id is the newest in the area, or, from the
moment the area is being rewritten, in the cache; the cache is a set of distinct ids
collected from the area (`Collected`), so it has room. `Careful` is the
assumptions of `storage_safe`: one write at a time, a flash that works, a source
that stays in memory, no power loss in steps 23 and 24, in which finding 2 shows
the values to be lost. The refinement of `Warehouse` follows action by action: the
program of the new block, or the return to an older value at a power loss in the
middle of a write, is a step of the warehouse; everything else is a stutter.

**`OtaProofs`.** The invariant has four layers. `QInv` (`OneOperation`): in update mode the
queue is empty or has the one operation its state calls for, because the phone's
next message needs an answer that is only sent when the queue ran empty. `TInv`
(`TypeCorrect`): contents, and tries left while an operation is outstanding.
`BInv` (`WholeBoot`): the first word is blank until the end of an update; an
erasure blanks it before any block; it is programmed only when the blocks are
one image. `AInv` (`AcksAreKept`): blocks acknowledged are in the flash, and
the block being programmed is the one not acknowledged yet. `WholeBoot` assumes that
the first page is not among those whose erasure may fail unnoticed; blocks and
the first word may be misprogrammed, and the power may fail, at any step.

**`DeviceLinkProofs`.** A *mark* `<<id, n>>` says that n bytes of message id are
written. The device stands at one (`Stands`); every write on the way leads from
the mark before it to the next (`Follows`, `Chain`); on a live link the last is where the
phone stands (`Arriving`). A step of the device moves its mark over one write, a step
of the phone adds one. That the buffer holds the beginning of the message at the
device's mark (`Buffered`) makes what is handed over whole (`HeardWhole`), and that exactly
the complete messages up to the mark were heard (`Heard`) makes it all of them.
A command that is given up, a last byte written twice and a lost link are cases
of `Follows`. No length is assumed of a message: the argument is about a buffer no
command longer than it was written to (`~rx.long`). A device that took one is `Loose`, of which only
`Reachable` is claimed, and stays so until a reset; that the bulk writes before
fit is a consequence, since the offset never passes the length the buffer declares.

**`ApplicationProofs`, serial port.** Each direction is one sequence cut in pieces (line, TXD, FIFO,
the byte the main loop holds, the caller), and a step moves a cut. `Turns` says who may
write TXD: the main loop while the state is READY, and then no interrupt can come
for it. `Announced` says that a byte in RXD is announced by a pending interrupt or by
the overflow that `app_uart_get` ends, never by both.

**`ApplicationProofs`, peripherals.** `Inv` has four parts beside the types: `Hands` ties the owners of the
timers to the clients' states, `Timing` is the user timer, `Signalling` the sender, `Painting` the
light, whose color is laid pin by pin. The hard part is the end of a send. A late
interrupt serves the channels in the order of their numbers, so the channel that
stops the send may be served before others that are pending, which are then loaded from the
same data once more with nobody to stop them. Two facts make this harmless. Compares come one at a
time, each channel with a time of its own (`Ring`), so one channel at least is not
pending, and those left to serve are fewer than the toggles of the shortest signal (`Few`):
none of them becomes the end of a second send. `Separate` excludes the profiles in
which a timer is taken without asking (the sound with the light) or handed on with four interrupts
enabled (the sender with the user timer); both are listed below. `Short` says that a signal ends before TIMER1 wraps, each bit
taking the longest: a signal has 192 bits at most
(`infrared_send_module.h:8`), and with the durations of the usual remote controls, counted
in periods of a 38 kHz carrier, takes less than half of the 65536 counts. Where it does not hold the light and the ownership of TIMER2 are still
right: the parts of `Inv` that need `Short` say so, and the timers change hands together
(`Paired`). TLC checked `Inv` with the constants of `application`, the longest bit given. `Melody`, for the tune, needs neither.
Between the two parts of `timer_stop` the timer has an owner that stopped it (`Stopping`); if nothing starts it again
it is free afterwards with nothing pending, and if `timer_on_fired` does, `timer.raced` is set and `TimersRight` claims no more.
For the light, `Colored` says which pins may differ from the color laid on them, those whose value is a duty cycle while
`t2` has been left with the shortcut or with PPI 0 on that pin; `Clean` says that nobody but the sender and the sound leaves
`t2` like that, so that in a profile without both no pin is ever spoilt.

**`ApplicationProofs`, the signal.** `WaveIsRight` needs what the pin has shown and what the channels
will still show to be one signal. `Showing` is the invariant: there is a list of the toggles loaded so far, each its
duration after the one before (`Timed`), and the counter cuts it in two (`Cut`): those behind
it are exactly what the pin has shown, those ahead are exactly what the channels hold. A
compare moves the cut over one toggle; a channel served adds one to the list (`ServedShows`), the end of the
signal when the data is used up. When the channel of that end is served, the counter is past it, so nothing is left ahead
and the whole signal was shown; what other channels still load then stays without
effect, because the timer stands. It rests on `Inv` for `Ring` and `Few`.

**`HostProofs`, bonds.** None of the three properties is inductive: each leans on what
the other parts of the module are doing. `Session` is the record of the link: which bits
go with which procedure, that no request waits (`pending` is only ever set by a second
connection, and there is one), and that something is queued only between links or on a link that has
just bonded. `Stored` says what each slot of the flash has in common with the
table: the queue is empty, holds erasures of entries already forgotten (`Clearing`), or the two
parts of one bond, of which the first may have been carried out (`Storing`); every slot it does not
mention agrees with the table, except that of a peer about to bond, whose block is erased.
`Named`: the entry of a link has its peer's address as soon as the peer can be recognised, and no
two entries have one address. `Keys`: the key a peer counts on is the key its slot
has or, when what is queued is carried out, will have from the bond buffer (`Will`); this is why an erased, failed or
interrupted store never takes a bond away but from those whose operations were queued, and why connecting,
which loads the buffer, offers the right key. `CrashInv` covers power losses, failing
operations and a full table at once: any flash that a restart may find. `Orderly` is `Prompt`, the
assumption of the run, and a queue of two operations at least (pstorage's has 10). TLC checked the invariant with the
constants of `host`.

**`HostProofs`, discovery.** What was found of a service is right only when the last response is in, so the
invariant (`DiscoveryInv`) says for each request under way how much is: while
characteristics are asked for, those found are the first of the service, up to the handle the request starts
from (`AwaitsChars`); while descriptors are, all were found and each before the current one has its own
(`AwaitsDescs`). A discovery in progress has one waiting event for every service before (`Going`), which
makes every user told exactly once (`UsersAreTold`). The handlers are followed call by call, as records. `Fits`
says that no service has more characteristics than `MaxChars`, three in the code:
of a larger one the module keeps the first three by design, see *Findings* for the last of them. That the
discovery keeps to its arrays, goes on just while a request is outstanding and tells everybody is proved without it.

**`DeviceManagerPeripheralProofs`.** The same argument, with three more things to account
for. A block has a third part, the context of the GATT server, queued by itself or behind the other
two: `Storing` therefore describes a queue by what its operations have in common (one slot,
each part once, the entry first, a part to be stored erased) and `Parts` shows that
`device_context_store` and `gatts_context_store` together queue such a thing. A context with
a size may be in flash, one without cannot (`Stored`, last line), which is why the choice between storing and
updating by `size` never programs twice. Phones on resolvable addresses are found by the
diversifier of the key they use: `Traced` says that the key of an entry, of its block and of a phone was
made with that phone, that no two entries have one, and, with `Own`, that keys are counted, so
that a new one is no entry's. And a phone that asks for its key has to be answered with
it: `Keys` gives the entry by which it is recognised the key it counts on (`Safe`), so that the bond
buffer, read when the link begins or when the entry is found, holds it (`RecognisedInv`, `Recognisable`).
`CrashInv` takes the flash a restart finds (`Sound`) and the phones whose bonds were lost, which is also how
a failed pairing ends in this build. `Orderly` is `Prompt` and a queue of three operations at least. TLC
checked the invariant with the constants of `device`, and with all phones resolvable and none.

Only model-checked:

- the liveness properties (`EventuallyStarted`, `EventuallyFinished`, `EndRestarts`,
  `EventuallyServed`, `EventuallyDone`), and the fairness they rest on: beyond the prover (`ENABLED`);
- `AdShown`: the encoders of `Advertising` fold over the data and the scanner's search recurses over
  what they wrote, so it would take an induction over data, which the provers cannot do.

## Findings

1. **A stale pointer in the free list** (`dispatch_stale_link`). `dispatch_head_op` appends a block to the free list without clearing
   its `next`; `allocate` believes it when the list has one block left. The next
   registration then gets a block that is still queued or running. The shortest trace needs
   no more operations than blocks.
2. **Power loss while the warehouse is rewritten** (`storage_rewrite_loss`).
   Nothing resumes the rewriting; finished values are lost or older ones return.
3. **Entering update mode** (`ota_entry`) ends at any completion, with the
   application perhaps still in place; the main loop also queues an erase in
   every round.
4. **A configuration descriptor that is missed** (`host_descriptors`). `on_descriptor_discovery_rsp` (`ble_db_discovery.c:709`) looks
   at one response and never asks for the handles behind it. A response holds UUIDs of one size, five short ones at
   most or a single long one: a descriptor behind these is reported as absent, where `ble_db_discovery.h:88` says the handle is invalid
   "if a CCCD is not present at the server".

Further places where the models show the code to differ from what a caller would
expect; they are behind an assumption of the runs, or no property is stated because no
document promises otherwise:

- *Warehouse.* A write before the last has finished overwrites the one buffer and
  the step variable, and both return 0 (`Overlap`). The cache is programmed from a
  dead stack frame (`data_storage.c:134`, `StackHolds`). A length of 28 is refused.
- *Update.* OTA_BEGIN is ignored after a lost connection or an error, until
  something resets the device (`ota.c:132`), although `ota.md:102` allows a new round.
- *Messages.* A command is checked against the length byte of the message before (`juma_data_service.c:42`), so one that declares
  199 to 255 bytes is accepted. The bulk writes that follow run up to 57 bytes behind the 200-byte buffer
  (line 63), and no later command is heard until a reset.
- *Advertising.* A name of more than 22 bytes is refused by the encoder and the
  device resets, again and again if the application sets it at start-up. With 27 bytes or more the flags, which are
  written unmeasured (`ble_advdata.c:413-419`), go behind the buffer on the stack before the list of UUIDs
  is refused. Service data is copied without a bound.
- *Bonds, peripheral.* If the flash is slow (`Prompt = FALSE`), a store reads
  the bond buffer of the next phone. A context left in `m_gatts_table` is
  applied to another phone that has just bonded. After a lost bond,
  `dm_security_status_req` says "in progress" until the link ends. The whitelist holds
  the first entries by slot, where `device_manager.h:556` speaks of the order of bonding.
- *Bonds, host.* `host_main.c` passes its own zeroed handle: a peer without a bond is
  encrypted with device 0's, and an open link is reported secured.
- *Discovery.* Of two users registered for one service the first is told twice and the second never:
  `ble_db_discovery_evt_register` (`ble_db_discovery.c:788`) does not refuse the second, and `registered_handler_get` finds the first.
  Of a service with more than three characteristics (`ble_db_discovery.h:57`) the last one kept
  is searched to the end of the service (`ble_db_discovery.c:346-367`) and may be given the
  descriptor of one that was dropped.
- *Timers.* `timer_stop` stops TIMER1 and then frees it (`timer.c:54-56`). If its last interrupt comes in between and
  `timer_on_fired` starts it again, the free leaves a running timer with no handler, and its next interrupt is
  taken without end. `timer_stop` from an interrupt of a higher level may leave a pending event with no handler. A send leaves the
  interrupts of all four channels enabled, and `timer.c` clears only one.
- *Light.* After a send (or a note) `light_on` finds TIMER2 with the shortcut that clears it at compare 1
  (`infrared_send_pwm.c:105`) and PPI 0 on another pin's task (line 69), and resets neither (`light.c:84-101`): a pin with a duty cycle
  does not show it, because the period never comes to its end. `light_off` takes TIMER2's power (`light.c:114`),
  and only `light_on` and the sound give it back: an infrared send after it counts a carrier that stands, never ends and
  holds both timers.
- *ADC.* The result is one static, read when the dispatcher calls back: a conversion that is started by then may have overwritten it.
- *Buzzer.* It takes TIMER2 without applying for it and takes its power away at the end of a
  note; and if the dispatcher drops one of its operations, it never plays again.

## Plan

Done: all modules above. What is left, in this order:

1. `DispatchPreempt`: the statements of `allocate`, `run_when_idle`,
   `run_at_time` and `dispatch_head_op` as steps, with an interrupt between any
   two; which of `Dispatch`'s properties survive.
2. The flash shared by the warehouse, the update and the device manager: one
   completion handler, three clients and the reset of a failed one.
3. Slow flash (`Prompt = FALSE`) for the bonds, with the properties that survive it.
4. The sum of `Bin2otabin` against the device's.

## Not modelled

- Drawing and text, the display library, SPI, random numbers, GPIO registers, the watchdog
  register, transmit power, temperature: pure I/O with no control state.
- `ble_conn_params.c`, `ble_advdata_parser.c`, `ble_srv_common.c`, `simple_uart.c`, `uart.c`, `pwm.c`: in no
  build, or called by nothing in it.
- Flow control, flush and close of the UART; system-off (`system_off_mode_enter`
  has no caller but its own continuation); `dfu_reset_prepare`.
- Of the device manager: application contexts (their size is configured as 0),
  `dm_peer_addr_*`, `dm_service_context_*`, `dm_device_add`, and the GATT client context, which
  is empty. They have no caller.
- What the whitelist is used for by the host: it is made and dropped, because no scan mode selects it.
- The image converter, the table of function pointers between application and
  platform, board configuration tables and the sample applications.
