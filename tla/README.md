# A verification development for the PLHR sensor firmware

The firmware (`src/Core/`, C, TI CC3220SF under TI-RTOS) samples the signal of an
extremely-low-frequency antenna at 62.5 kHz, reduces the rate by eight, packs the
result into messages of 78 buffers (about one second) and publishes them to an MQTT
broker over Wi-Fi. It runs unattended and its product is a numbered, time-stamped
stream of samples; the properties here are about that stream: that every number
stands for the samples it should, that nothing stops it for good, and what happens to
it when the network, the clock or a thread is late.

## 1. Inventory

Threads: `mainThread` boots and then idles; `thread_downsampling`, `send_data`,
`softtimer` and `test_wifi` all have priority 5; the SimpleLink task that runs the
Wi-Fi event handlers has a higher one, the MQTT threads a lower one. SYS/BIOS does
not slice time, so threads of one priority switch only where one of them blocks. The
ISR `isr_dma_done` and the uDMA controller run at any point.

| Component | State it keeps | Operations | Talks to | Hard to test | What makes it correct |
|---|---|---|---|---|---|
| Acquisition ring (`empty.c` 292-311, 473-505, `udma_user.c`, `dws_user.c` 72-81, 165-169) | two uDMA structures, `cnt_dma_write` (16 bits), `dma_buffer[30]`, `dws_semaphore`, `cnt_buffer_in` | completion, `isr_dma_done`, the thread taking and finishing a buffer | posts `dws_semaphore` | the ISR and the controller run while the thread reads; the counter wraps; there is no flow control | the thread reads the right transfer, unmixed; the controller never runs dry |
| Down-sampling (`dws_user.c` 111-147, `print_user.c`) | none | average eight samples, pack two into three bytes, unpack | writes into the message | masks and widths | unpacking gives the averages back |
| Message ring (`dws_user.c` 149-163, `mqtt_user.c` 852-966, `msg_structs.h`) | `msg_data[10]`, `n_msg_data` twice, `msg_data_id`, `send_data_semaphore` | pack, take, poll, publish | `mqtt_publish`, `test_wifi` | outages, failed publications, overwriting of a message that waits | published messages are whole, consecutive and numbered right |
| Time synchronisation (`empty.c` 507-606, `dws_user.c` 83-109) | the RTC, `sntp_time`, `status_time_sync`, `data_buffer_sync`, `time_synchro_us` | `softtimer`, `sntp_get_time`, the thread consuming a synchronisation | SNTP server, headers of messages | the thread runs between any two steps of the synchronisation; SNTP may fail | the pair (buffer id, time) in a header belongs together |
| Wi-Fi station (`wifi_user.c`, `test_wifi_user.c`) | `g_ulStatus` bits, `send_data_status` | event handlers, `Network_IF_ConnectAP`, `Network_IF_DisconnectFromAP`, `wifi_connect`, `test_wifi` | SimpleLink events, `send_data` | events preempt a read-modify-write of the status; waits without time-out | the status says what the link is; a lost link is found again |
| MQTT client (`mqttclient.c`) | `awaitedAck`, `connected`, locks and sync objects | connect, disconnect, subscribe, unsubscribe, send, set, run, the callbacks of the network context | library `MQTTClientCore` | acknowledgements race with calls and disconnections | one call waits for one acknowledgement and gets it |
| MQTT interface (`mqtt_user.c` 100-845) | `moduleState`, `moduleMutex`, message queue, topic list, `clientDisconnectFlag` | Init, Deinit, Connect, Disconnect, Subscribe, Unsubscribe, Publish, the two threads | the client, callbacks of the application | two threads and callbacks under one mutex and a bounded queue | the state follows the connection; the list is what is subscribed |
| Device identity (`mqtt_user.c`, `ask_for_id`, `cmd_zero`) | `id_device`, MAC address | ask every 750 ms, answer | the server over MQTT | lost, late and doubled answers | a device measures under the id the server gave it, and gets one |
| Boot and watchdog (`empty.c` 144-290, 439-457, `mqtt_user.c` 871-890, 956) | which steps are done, the watchdog count | init sequence, clear, expire | everything | a boot step that never returns; a reset in mid stream | the device comes back by itself |
| Drivers (`adc_user.c`, `gpio_user.c`, `timer_user.c`, `interrupt_user.c`) | handler table | thin calls of the SDK | hardware | little | - |
| Terminal (`uart_term.c`) | none | `GetCmd`, `TrimSpace`, `Report` | UART; not called by the firmware | string ends | - |
| MATLAB scripts, build and board configuration | - | offline analysis, build | - | - | not part of the running program |

The hazards found while reading are listed, each at its line, in `PROJECT.json`.

## 2. Plan

Done, in this order:

1. `DmaRing`, with `SampleStream`, what it promises, and `DmaRing_proofs`; `RingArithmetic` for the arithmetic of positions.
2. `MessageRing`, and `Pipeline`, which joins it to the acquisition ring.
3. `TimeSync`: the synchronisation and the header fields it fills.
4. `WifiStation`: event handlers against the connecting thread, `test_wifi`.
5. `MqttInterface`: the MQTT interface and the client below it. The two were planned as
   two modules; they share the threads and the locks, so neither says much alone.
6. `Device`, with `Device_proofs`: boot, identity, sender, polling of the link and watchdog, over
   abstractions of link, session and message ring. A module of the identity alone was
   planned; without the reset the interesting answers, those of an earlier life, do not exist.

7. `DownSampling`: a buffer reduced to bytes and read back.
   `Pipeline` puts it between the two rings, and so became the one run of `MessageRing`.
8. `MQTT_IF_Deinit` and the second `MQTT_IF_Init`, in `MqttInterface`: they concern the threads.
9. `TopicList`: the list node by node, and the match of topics, which was planned as a
   module of its own; what a wrong match does shows only in the list.
10. `Pipeline_proofs`: that the sender finds whole messages, for `MessageRing` alone;
11. then `EndToEnd`, from the proofs of the two rings, each used where
    `Pipeline` has it, and from `ReductionReadable`.
12. `TimeSync_proofs`: that the two header fields belong together.
13. `WifiStation_proofs`: that the status follows the link.
14. `MqttInterface_proofs`: every safety property of the MQTT interface.
15. `TopicList_proofs`: every safety property of the list of topics, and the match.

Left: an abstract session for `MqttInterface` to implement, an abstract message stream for
`Pipeline`. With twelve configurations and forty properties the project is kept at the
size it has: what comes next replaces something.

Proofs left: none of a safety property some run checks. Section 5 says what stays with TLC.

## 3. The modules and the code

Every module is written at the level of what another thread, an interrupt or the
network can see: an action is what a thread does from one blocking call (or one point
where it can be preempted) to the next. A definition that models code is listed with
its lines in `PROJECT.json`, "map".

Some definitions have a second form beside them, with a name that extends theirs or answers it - `NextRead`
and `NextReadShort`, `Told` and `ToldOnlyStop`, `DeletesLocked` and `DeletesUnlocked`.
One of the two is a bug the code does *not* have, and no action uses it.
`PROJECT.json`, "mutants", names it under "as", with the property that notices it when it
takes the place of the real one.

### Acquisition: `Samples`, `DmaRing`, `SampleStream`, `RingArithmetic`, `DmaRing_proofs`

| Code | Module |
|---|---|
| uDMA control structures (primary, alternate) | `dma`, `active` |
| `cnt_dma_write`, `uint16_t` | `cnt_dma_write`, modulo `CounterMod` |
| `dma_buffer[30]` | `content`: per buffer the number of the transfer in it |
| `dws_semaphore` (counting) | `dws_semaphore` |
| `cnt_buffer_in`, `data_buffer_count` of the thread | the same names |
| end of a transfer (hardware) | `DmaComplete` |
| `isr_dma_done`, `dma_stop_mode_get` | `isr_dma_done`, `StopMode` |
| `SemaphoreP_pend` to the first sample read | `DwsPend` |
| the last sample read to the next pend | `DwsFinish` |

A buffer is one value, the number of its transfer; a buffer read while the controller
writes it is `Torn`. The thread's reading takes time: it begins in `DwsPend`, ends in
`DwsFinish`, and what it delivers is whole only if the buffer was the same at both
ends. `SampleStream` is the promise: transfers are captured without
waiting and delivered in order, each at its position, while the consumer is at most
`DMA_NUM_BUFFERS - 4` behind. The margin is not 29: the controller holds two
buffers at any time, one is being read, and one is lost to the first-use skip
(`BufferTwoPassedOver`, section 5).

### Samples and messages: `DownSampling`, `MessageRing`, `Pipeline`, `PipelineMC`, `Pipeline_proofs`

`DownSampling` has no state: `Reduce(w, n)` is the loop of `dws_user.c:112-147` over the
words `w` of a buffer, `Unpack` what `print_user.c:69-70` does with the bytes. Masks and shifts are
division and remainder, so the two bits above and below a conversion are there.

`Pack` is `dws_user.c:149-163`, `SendPend`, `SendPoll`, `PublishOk` and `PublishFail`
are `send_data` between its blocking calls, `TestWifi` is what the other thread may do
to the shared status at any time. `Pipeline` extends `MessageRing` and `DownSampling` and joins
the acquisition ring to them with `INSTANCE`:
`Process` is the conjunction of `DwsFinish`, the reduction of what was read and `Pack`, as one pass of the
thread's loop is; `Send` and `Publish` carry the bytes along. It states what a
recipient cares about: whoever unpacks the message numbered `d` reads the averages of the conversions
that buffers `d * 78` to `d * 78 + 77` were filled with. `PipelineMC` gives the ADC: conversions that
differ from buffer to buffer and group to group, at both ends of the range, with something in the bits
that are not part of them.

### Time: `TimeSync`, `TimeSync_proofs`

`SyncBegin`, `SntpAnswers`/`SntpFails` and `Publish` are `softtimer` from blocking
call to blocking call; `DwsBuffer` is the part of `thread_downsampling` that uses the
synchronisation; `Tick` is time, in buffers of 12.8 ms in the code. The shared variables are
the RTC (`rtc_reset_at`), `sntp_time` and `status_time_sync`.

### Wi-Fi: `WifiStation`, `WifiStation_proofs`

`HandleEvent` is the two event handlers, the actions with a `Goto` are `wifi_connect`,
`Network_IF_DisconnectFromAP`, `Network_IF_ConnectAP` and the loop of `test_wifi`,
one action per point where the thread can be preempted; `CLR_STATUS_BIT` is two actions,
its read and its write. `NwpConnects`, `NwpGetsIp` and `LinkLost` are external: what the
network processor and the access point do.

### MQTT: `MqttInterface`, `MqttMC`, `MqttInterface_proofs`

Four threads, named in the module's comment. `Packet` and the actions below it are
`MQTTClient_run` and its callbacks into `mqtt_user.c`; `App...` is `MQTTAppThread` with
`MQTT_IF_...` handlers; `Mqtt...`, `Connect...`, `Disconnect...` and `Boot...` are the calls of
the application; `Pub...` is a publication by `send_data` or `softtimer`. The one
semaphore all acknowledgements share is `ackSyncObj`, the acknowledgement the client expects
`awaitedAck`. `MqttDeinit` and `DeinitLocked` are `mqtt_client_disconnect`, after which `main` starts
again at `MqttInit`, as `mqtt_client_connect` does. `moduleMutex` is the sequence of the thread that holds it and those that
wait, since SYS/BIOS serves a mutex in order of arrival. `ConnectOver` is `MQTT_IF_Connect` while the context
thread of a refused connection still runs: that thread will delete the client just created, so `main` ends there, at
`two_clients`. `Unread` counts the messages of the server that are on the wire or in the queue. `MqttMC` only names two topics.

### The list of topics: `TopicList`, `TopicListMC`, `TopicList_proofs`

| Code | Module |
|---|---|
| `struct Node`, `mMQTTContext.head` | `next` and `topic` of each node, `head` |
| `malloc`, `free` | `allocated`; what a freed node holds is gone |
| `MQTT_IF_Subscribe`, also without memory for the topic | `MQTT_IF_Subscribe(f)`, `SubscribeWithoutMemory` |
| `MQTT_IF_Unsubscribe` | `MQTT_IF_Unsubscribe(f)` |
| the walk for a message, the callback it calls | `AppMessage(name)`, `called` |
| `MQTTHelperTopicMatching` | the function of that name, on levels; its value is the set of results the code may give |
| the renewal in `MQTTAppThread`, with `curr` and `prev` | `AppConnack`, `AppSubscribed`, `AppSubscribeFails`, `AppRenewed` |

What `MqttInterface` keeps as a sequence is memory here; what it keeps of threads, locks and
queues is left out here. Only a lost session makes a subscription fail: MQTT 3.1, which the firmware
asks for, knows no refusal. After a failed `MQTT_IF_Subscribe` the freed node is at the head, every
later walk reads freed memory, and the actions that walk (`Readable`) are no longer modelled.

### The device: `Device`, `Device_proofs`

| Code | Module |
|---|---|
| `mainThread` from `wifi_connect` to its idle loop, `ask_for_id` | `main`, the actions of `Boot` |
| `id_device`, `mac_address` | `id_device`; `mac_known`: the address has been read |
| `cmd_zero` | `CmdZero(d)`: the answer for device `d` is delivered |
| `send_data` | `snd`, `SendPend`, `SendPoll`, `Publishes` |
| `test_wifi` | `test`, `TestPolls`, `TestReconnected` |
| `thread_downsampling`, in steps of a message (about a second) | `MessagePacked`, which is also the clock of the watchdog |
| watchdog of 12 s, its callback that spins, the reset after the second period | `watchdog`, `Runs`, `Reset` |

Devices are named by the identities the server gives them. `link` stands for `WifiStation`,
`session` for `MqttInterface`, `send_data_semaphore` for the backlog of `MessageRing`. A CONNACK that
refuses is left out. A reset forgets everything but what is on its way: an answer
asked for in an earlier life may arrive in the next.

## 4. The runs

| Run | Question | States |
|---|---|---|
| `dma_ring` | Does the thread read the right samples, whole, in order, and does the controller never run dry? Does the ring implement `SampleStream`? Is `IInv`, the invariant of the proofs, an invariant? | 4 107 |
| `pipeline` | Are messages whole and numbered right through outages and failed publications, and does whoever unpacks one read the averages it should? Is everything captured offered to the broker? | 210 940 |
| `time_sync` | Do the two header fields belong to one another, do they only advance, is every answer used? | 32 128 |
| `wifi_station` | Do the status bits follow the link although they are cleared by read-modify-write? Is a working link left alone? Is `send_data` told the truth in the end? | 288 |
| `mqtt` | Is no deleted client used, does a SUBACK only come while its caller waits, does the state follow the connection, does taking the module down leave nothing behind? What does it take to fill the queue, and does every call return when it is not full? | 44 735 |
| `topic_list` | Is the list a list of live nodes, is what leaves it freed, does it agree with the server after every call and renewal, does a message reach a callback it fits? | 65 829 |
| `device` | Does a device measure under its own identity only, does it get one in the end, and does it come back by itself from whatever stops its publications? | 6 078 |

All seven find their properties satisfied. Five more runs show where the code does not do
what it says, each with the one property that states the sentence:

1. `dma_ring_wrap`: 65 536 is not a multiple of 30. When the counter wraps, after 14 minutes,
   controller and thread are no longer in step and the thread delivers old samples.
2. `time_sync_failure`: a server that does not answer is taken for one that answered 0.
3. `wifi_station_stuck`: a link that comes up and goes within a second leaves
   `Network_IF_ConnectAP` waiting for good.
4. `mqtt_boot`: `MQTT_IF_Publish` gives the mutex back before it uses the client. For the
   publishers of priority 5 this is harmless, since nothing of the interface runs until they block
   inside the library, which then holds its lock; `ask_for_id` publishes from
   `mainThread`, of priority 1, and there a disconnection deletes the client in between.
5. `mqtt_burst`: `MQTTAppThread` renews subscriptions in the loop that empties the queue. When messages
   have filled the queue and the connection is lost, `processDisconnCB` wakes the subscription and
   then waits in `mq_send` (228) with `MQTTClient_mutex`, which the subscription needs to return: `SubscribeReturns`
   is what `mqttclient.c:556` says it does. Both threads wait for good, and `moduleMutex` with them.

One more is proved for every size of the ring, by `BufferTwoPassedOver`: the ISR increments `cnt_dma_write`
before it uses it, and `mainThread` has already left it at the *next* buffer, so buffer 2 is passed over.
The third buffer processed holds zeros and every later one is a transfer late, where `dws_user.c:34-36`
says that the thread is activated when a buffer has been filled.

This and finding 1 are why the properties of `dma_ring` are stated as they are: a transfer
late from the third on (`Delivered` in `Samples`), and only until the counter has wrapped
(`NoSlip`). The rest of the behaviour is checked and proved, not excused.

Seen while modelling, without a run of their own:

- A failed re-subscription drops its topic for good (361-383), although the comment at
  `mqtt_user.c:686-688` says topics are held for the next connection: a session lost during the renewal
  takes with it the topics the renewal had still to come to. `StaysInStep` names this among the three ways
  by which topics leave the list, and says that there is no other. In mid list it also skips the node
  after it (`mqtt_user.c:374`), and if the next one fails too, as it does when the session is lost, the
  skipped node is unlinked without being freed (the exception in `NodesFreed`).
- A failed `MQTT_IF_Subscribe` on a connection frees its node and leaves it at the head
  (`mqtt_user.c:735-740`; the comment there says it is removed); without memory for the topic the node is never freed (719).
- `MQTT_IF_Unsubscribe` takes the topic it is given for a name and removes the first filter that
  matches it, whatever the server was told (779); it returns 1 when it has found it, although its comment
  promises 0, and unlocks the mutex twice when it has not (804, 808).
- The match goes on at address 1 when a `+` has eaten the last level of the topic and the filter goes
  on (238), unless it goes on with `#`; and `a/#` does not match `a`, as MQTT has it. `DeliversToSubscriber` speaks of
  filters no longer than the message for that reason.
- A refused CONNACK still raises `mqtt_connected`. The module is then `INITIALIZED` with a
  context thread running: `MQTT_IF_Deinit` takes it down, and the thread sets `INITIALIZED` over `IDLE` when
  it ends (424), so that `MQTT_IF_Init` refuses (the exception in `StartsAfresh`). No `MQTTAppThread` is left then,
  and the next `mqtt_connect` waits for ever for the callback that would raise its flag.
- The same thread meets a second client when the list of topics is empty, as a lost session may leave it: nothing then delays the
  flag. `mqtt_disconnect` fails, since the state is not `CONNECTED`, but clears the flag; `mqtt_connect` creates a client beside
  the one in use (`mqtt_user.c:575-600, 1008-1020`), and the refused thread, when it ends, deletes the new one (415-424). It is the
  exception in `OneContextThread`.

What `device` shows besides its properties:

- `test_wifi_user.c:15-23` says that the MQTT service is re-established once the
  connection is recovered; the calls that did it are commented out (lines 50, 60). No thread
  renews a lost connection: publications fail, the watchdog is no longer cleared, and the device is reset
  after its second period, about 24 s. `Recovers` is that path.
- The watchdog is opened by `send_data`, that is after `ask_for_id`. A connection lost during the
  boot, a failed `mqtt_connect` or a `wifi_connect` that waits for good (finding 3) is therefore never
  mended; `GetsIdentity` and `Recovers` say "if the connection holds" and "once it measures" for that reason.
- Ten messages are about 10 s: an outage overwrites messages that wait before the watchdog resets the device.

### Bounds, and why they are enough

| Bound | Value (code) | Why |
|---|---|---|
| `DMA_NUM_BUFFERS` | 6 (30) | two buffers held by the controller, one being read, one skipped, and two of slack so that "keeps up" is neither always nor never true; the proofs are for every value from 4 |
| `CounterMod` | 16 (65 536) | not a multiple of 6, as 65 536 is not one of 30; 20 and 8 buffers in `dma_ring_wrap` |
| `MaxTransfers` | 20 | three passes over the ring, the counter wraps in the third |
| `N_MSG_DATA`, `DATA_BUFFER_MAX` | 3, 2 (10, 78) | a message waits while another is sent and a third is packed; a message has a first and a last buffer |
| `pipeline` | 5 buffers (30), 9 transfers, `CounterMod` 32, 2 groups (50) | the ring of buffers goes round almost twice; four messages, so the ring of three is used again; a group has one before or after it; the counter does not wrap, which `dma_ring` has |
| `SyncPeriod`, `SyncTime`, `MaxLag`, `MaxNow` | 7, 3, 2, 26 (1800 s, 5 s) | four synchronisations; period longer than a synchronisation plus the lag, as in the code by far |
| `MaxLosses` | 4 | a loss during boot, while polling, while reconnecting, and one more |
| `QueueLen`, `MaxUnread` | 3, 4 (10) | a burst of the server fills the queue and leaves one more on the wire; see below. 2 and 2 in `mqtt_burst` |
| `WatchdogPeriod`, `MaxDisturbances`, two devices | 3, 3 (12 messages) | a publication may come in the last message before the expiry or one too late; one failure in the boot, one while measuring, one while recovering; one stranger's answer is as good as many |
| `MaxConnects`, `MaxPublishes`, two topics | 3, 4 | what a first connection leaves behind meets the second, with `MQTT_IF_Deinit` between them or not, and what is left of both meets the third; first and last node of the list. The proofs are for every number |
| `Nodes`, `Filters`, `Names` | 4, 4, 3 | a renewal that succeeds, fails, skips and fails again takes four nodes, the fewest with the leak; filters with `+` first and last, with `#`, and with neither; names of one and two levels. Nothing else is bounded: sessions come and go for ever. The nodes are symmetric |

Nothing in the code keeps the server from having as many messages under way as the queue has places. `ctx` then
waits in `mq_send` for room that only `app` makes; if `app` waits for a SUBACK meanwhile, with `moduleMutex` held, the packet it
waits for is behind the message that finds no room, or, at the end of a connection, the lock it needs is the one `ctx` holds
(finding 5). With the queue of ten it takes a burst of ten messages within one renewal. `MaxUnread` is a bound and no
assumption: the run `mqtt` has such bursts, and so do the proofs. `QueueHasRoom` says what it takes - as many unread messages as the
queue has places, whatever notices of connections, ends and `MQTT_IF_Deinit` are in it besides - and `CallsReturn` that
calls return unless `ctx` waits for room (`CtxWaits`). The safety properties hold either way. The one assumption on the queue,
`QueueLen >= 2`, is room for the notice that a connection has ended beside the request of `MQTT_IF_Deinit`.

### Fairness

- The ISR is served and a ready thread runs: weak fairness on each step of a thread. The four
  application threads have one priority and SYS/BIOS switches where one blocks; none spins
  without sleeping (`send_data` sleeps in its poll, `test_wifi` in its loop). The MQTT threads
  are lower and run when those block, which they do most of the time.
- Nothing is assumed of the ADC, of the order of interrupts against threads, of `test_wifi`'s status
  (`AllOffered` says "if it settles at start"), or of the user's calls.
- External: `mqtt_publish` returns; the SNTP call returns within its time-out; a link that was asked for
  comes up if the access point stays (`NwpConnects`, `NwpGetsIp`), and a request
  tried again and again is accepted some time (the one strong fairness, `WlanConnect`); an MQTT
  connection asked for is answered or closed. `CallsReturn` needs nothing more of the
  server, which may publish nothing for ever: a SUBACK is on the wire when the subscription was
  received, and a lost connection is reported as closed - by TCP, or by the keep-alive, which
  is set to 65 535 s, so "in the end" may be many hours.
- `Device`: a link asked for comes and a connection asked for opens unless one of the `MaxDisturbances` failures
  prevents it; of the requests sent every 750 ms, and of the answers to them, some arrive (strong fairness of `Asks` and
  of `CmdZero(Self)`); a message is packed every second.
- Without a deadlock check run only the two Wi-Fi runs and the three of `MqttInterface`, where the system may really stop, as findings 3 and 5
  say and as `mqtt_connect` does after a failure (below), and `topic_list`, which ends at a failed `MQTT_IF_Subscribe`.
  Elsewhere a named stuttering step (`CaptureEnded`, `Ended`) marks the end of the
  bound, so that any other stop is an error.

### What the models assume

- **Scheduling.** Priorities as above; a thread of priority 5 is not interrupted by another. The
  priorities matter in `MqttInterface`: `PubReady`, `AppBlocked`, `CtxBlocked` state who must wait for
  whom. Log
  output is left out. In the configuration of the repository (`DISPLAY` in `global_def.h`) it goes to the UART and a
  thread may block in it; by inspection this changes none of the orders the properties of
  `MqttInterface` rest on (the output is served in order of arrival, and there is none between the unlock and
  the send of `MQTT_IF_Publish`), but it is not checked.
- **Acquisition.** The ISR of one completion runs before the next completion, 12.8 ms later. Two
  completions before one service would disable the alternate structure for good (`udma_user.c:161`,
  hazard without a property).
- **Time.** The thread is at most `MaxLag` buffers late and a synchronisation ends within `SyncTime`.
- **Wi-Fi.** A connection request stays pending in the network processor until it succeeds; nothing changes on the
  link between `wifi_init` and the deletion of profiles. Adding the profile and setting the policy (`wifi_user.c:673`, `679`) are
  one step of the model, although each command waits for the answer of the network processor: it is assumed that the processor does
  not connect with the new profile in between. Only the policy it was delivered with would let it, so only the first boot is concerned.
- **Device.** The sender and `test_wifi` are faster than a message is packed: they do what they can before the watchdog counts.
  A publication on an open connection succeeds unless its link is gone.
- **MQTT.** A call into `MQTTClientCore` holds a lock of the library, so the client's deletion waits for a send;
  `app` takes a CONNACK event before `ctx` reads the packet after it, if it is free to;
  the application reconnects only after the notice of disconnection: the guard of `MqttConnect` on the two flags is not in
  `mqtt_connect` but assumed of its caller. An immediate
  reconnection with an old notice in the queue can use a deleted client; the firmware
  itself never reconnects, `mqtt_disconnect` and the second `mqtt_connect` are calls its interface offers.
  `mqtt_connect` may poll for its flag for ever (`mqtt_user.c:997`): `wait_connected` is a place where the
  run lets it stay, also after `mq_open`, `pthread_create` or `MQTTClient_create` has failed (`MqttInit`, `ConnectFails`).
  A `ctx` that waits for room holds `MQTTClient_mutex`. At the end of a connection its callback has woken a call before it waits, so
  there the waiting is a place of its own (`disconnCB`) that keeps others out (`ClientFree`). Elsewhere the callback and its notice
  are one step, taken when there is room; a call that would find the lock taken meanwhile comes first in the model, and waits for its answer instead of the lock.

## 5. The proofs

`DmaRing_proofs` proves, for every `DMA_NUM_BUFFERS >= 4`, every
`CounterMod > DMA_NUM_BUFFERS` and every length of the capture (`DmaRingAssumption`,
nothing else; in particular 30 and 65 536):

| Theorem | Says |
|---|---|
| `TypeCorrect` | every variable keeps its type |
| `NoOverrunHolds` | while the thread is at most `DMA_NUM_BUFFERS - 4` behind, the controller neither writes nor is armed to write the buffer it reads |
| `ReadsInOrderHolds` | it finds the transfer of its position |
| `EmitsInOrderHolds` | and delivers it whole, whatever ran meanwhile |
| `BufferTwoPassedOver` | in the first pass nothing is written to buffer 2, and the third buffer the thread takes holds zeros |
| `ControllerRunsHolds` | the controller always has a structure to work with |
| `RunningUntouchedHolds` | the ISR never redirects the structure in use |
| `RefinesStream` | initial states map to initial states of `SampleStream` and every step to a step of it or a stutter |

None of the properties is inductive: `NoOverrun` speaks of destinations and says nothing of the counters they come
from. The strengthening `IInv` is the conjunction of

- `CounterInv`: the ISR's counter, the thread's index and the semaphore are functions of how many transfers
  were completed, handled and processed;
- `ArmedInv`: the structures hold the buffers of the current and the next transfer, where the
  buffer of transfer `t` is a function `BufOf(t)` of the number alone;
- `ContentInv`: the buffer of a transfer not too old still holds it (`Lifetime`: one transfer less for the
  first two, whose successor skips a buffer), and buffer 2 holds zeros during the first pass;
- `ReadsInOrder` itself and `TypeOK`.

`Invariance` has one lemma per action. The arithmetic
is in `RingArithmetic`: numbers less than a ring apart have different remainders
(`ModInjective`), stepping commutes with the remainder (`ModIncrement`), and two remainders in a row collapse when
the one divides the other (`ModOfMod`), the case in which the counter never slips. `BufApart`, `BufNotTwo` and
`ReadApart` turn that into "these two transfers use different buffers", which is all the actions need. The run
`dma_ring` checks `IInv` with TLC as well.

`Device_proofs` proves, for every set of devices, every period of the watchdog and every number of failures
(`DeviceAssumption`):

| Theorem | Says |
|---|---|
| `TypeCorrect` | every variable keeps its type |
| `IdentityHolds` | a device measures under its own identity only |

`OwnIdentity` is not inductive: it says nothing of a device that does not measure yet. `IInv` adds `BootInv`: the MAC address
is known exactly from `ask_for_id` on, before that no answer is taken and the identity is none, after it the identity is
the default or the device's own; the watchdog counts and the sender exists exactly while the device measures. There is one lemma
per part of the system (`NetworkIInv`, `CmdZeroIInv`, `BootIInv`, `MeasureIInv`).

`Pipeline_proofs` proves, first of `MessageRing` alone (`Spec`), for every ring of two messages or more, every size of a message and any number of buffers
(`MessageRingAssumption`):

| Theorem | Says |
|---|---|
| `TypeCorrect` | every variable keeps its type |
| `HoldsWholeMessageHolds` | while the sender keeps up, its slot holds the whole message of its number |
| `SlotsApartHolds` | and the packing thread is at another slot |

`HoldsWholeMessage` says nothing of the messages that wait or of the one being packed, where a wrong buffer would be
written long before the sender gets there. `IInv` gives every message a number, `Current` being the one that is packed:

- `SlotInv`: both threads are at the slot of their number, and every buffer packed belongs to a message;
- `ContentInv`: the last `N_MSG_DATA` messages are in their slots, the current one up to the position reached;
- `HeaderInv`: the message the sender holds has its number; and `TypeOK`.

Packing disturbs one slot and `SlotsDiffer` (from `ModInjective`) says it is no other recent message's; every other
action leaves `Current` alone, since what the sender takes off the semaphore it adds to the messages taken
(`ContentKept`). The sender keeps up exactly when its message is among the last `N_MSG_DATA` and not the current one.

It goes on with the whole path (`PipelineSpec`), for every size of both rings, of a message and of a buffer, and for whatever the ADC converts
(`PipelineAssumption`, with that of `MessageRing`):

| Theorem | Says |
|---|---|
| `PipelineTypeCorrect` | every variable keeps its type; what is packed are bytes |
| `PipelineHoldsWholeMessage`, `PipelineSlotsApart` | the promises of the message ring hold where the acquisition ring feeds it |
| `EndToEndHolds` | as long as both threads keep up, whoever unpacks message `d` reads at each position the averages of what was converted for that buffer of the stream |
| `TrashRemoved` | whatever the two bits above and the two below are, the conversion is taken out of a word |
| `ReductionReadable` | for every group, what `print_user.c` takes out of the three bytes are the averages (`Right`, `Left`) that were put in |

The argument is arithmetic: a conversion is below 4096 (`ConversionRange`), so eight of them fit in the sixteen bits
they are added in (`SumOfEight`), their mean is below 4096 again (`MeanRange`), and three bytes hold two numbers below 4096
so that division and remainder give them back (`BytesHoldBoth`). For `EndToEnd` the invariants of the two rings are taken over:
`Rp` is `DmaRing_proofs` with the variables of `Pipeline`, so each step of the acquisition is a step of that ring, and
the first part speaks of the same variables already. What is added is `BytesInv`: the bytes at a packed position of one of the last
`N_MSG_DATA` messages are those of the buffer whose number the position has. Processing is where the three meet (`ProcessBytes`): what the thread
delivers is the transfer of its position, packing writes it at the position of its number, and no other recent message is touched.

`TimeSync_proofs` proves, for every period, every duration of a synchronisation and every lag that leave a margin in the period
(`TimeSyncAssumption`):

| Theorem | Says |
|---|---|
| `TypeCorrect` | every variable keeps its type |
| `HeaderPairsHolds` | the time in a header is the one at which the buffer it names was processed |
| `PairsAdvanceHolds` | each pair names a later buffer and a later time than the one before |

`HeaderPairs` alone does not say why the clock is not reset between the moment a time is stored and the moment it is used. `IInv` does: a synchronisation
that waits was handed over in time (`WaitingInv`, `DueInv`) to a thread that is never far behind (`LagInv`), so it is used before the next is due,
and a time that is handed over counts from the last reset (`ClockInv`).

`WifiStation_proofs` proves, for any number of losses:

| Theorem | Says |
|---|---|
| `TypeCorrect` | every variable keeps its type |
| `StatusFollowsLinkHolds` | with every event handled, the two status bits say what the link is |
| `KeepsLinkHolds` | after boot nothing but a loss takes a working link down |

The status is changed by a read-modify-write that a handler may preempt. `IInv` says why nothing is lost: outside the wait of `Network_IF_ConnectAP`
the link cannot come up and at most one notice is outstanding, that of the loss (`Quiet`); inside it the events outstanding are those of one connection, in
order, and the status is what has been handled of them (`Asked`, `Up`, `WithIp`, `Lost`).

`MqttInterface_proofs` proves, for every list of topics, every queue of two events or more, any number of unread messages, also more than
the queue holds, and any number of connections (`MqttAssumption`):

| Theorem | Says |
|---|---|
| `TypeCorrect` | every variable keeps its type; no thread locks the mutex twice |
| `AliveWhenUsedHolds` | the context thread never deletes a client another thread is inside |
| `WaiterIsAwaitedHolds` | who waits for an acknowledgement waits for the one the client awaits, or has been woken |
| `SubackInTimeHolds` | every SUBACK finds the call that waits for it |
| `OneContextThreadHolds` | a client is created only after the thread of the last one has ended, a refused connection excepted |
| `StartsAfreshHolds` | nothing of one life of the module is left for the next, with the same exception |
| `QueueHasRoomHolds` | `ctx` waits for room only when as many messages as the queue has places are unread, and `MQTT_IF_Deinit` finds room even then |
| `StateFollowsSessionHolds` | with nothing under way the module, the application and the context thread agree with the connection, and the server has the topics of the list |

The argument has two layers. `IInv` is about who may use the client and what is left of a connection when the next begins. A client lives as long as
its context thread, which ends in the queue of the mutex (`MutexInv`, `ClientInv`); whoever uses the client holds the mutex, is ahead of that
thread in the queue (`Ahead`), or is the publication it waits for. `WireForm` and `WireInv` say which packets may be on their way and who expects them,
`AckInv` what the one semaphore counts, `ConnectInv`, `EndInv` and `LifeInv` that a connection is opened with nothing left of the one
before. A connection the server has refused is followed under its own name (`Refused`), because it is the case in which that fails.
`Settlement`, on top of it, is what `QueueHasRoom` and `StateFollowsSession` need: the session agrees with the state and the flags (`SessionInv`);
the server has exactly the topics renewed so far (`SubscribedInv`, `Renewed`); a flag that is up has a connection or a notice that will take it
down (`NoticeInv`); and of the events other than messages at most one each is in the queue, not all at the same time (`RoomInv`). The room for
a message is counted: while fewer messages than the queue has places are received or on the wire, one place at least is left (`QueueCounts`, `LenIsCounts`). `MQTT_IF_Deinit`, which puts a last event in the queue while
the context thread may have just put one there, is the closest call; `DeinitRoom` shows that either `app` has emptied the queue by then,
because `main` has a lower priority, or the context thread is ahead of it. There is one lemma per action for `IInv` and one per thread
for each part of `Settlement`; both were checked with TLC on small queues before they were proved.

`TopicList_proofs` proves, for every finite heap, all names and all filters that have `#` as their last level only, as MQTT
has it (`TopicListAssumption`):

| Theorem | Says |
|---|---|
| `TypeCorrect` | every variable keeps its type, every node of the list has its filter |
| `ListSoundHolds` | the list ends, all of it is memory in use, and the renewal has a node of it before the one it is at |
| `NodesFreedHolds` | a node that leaves the list is freed in the same call, except the one the renewal has skipped |
| `StaysInStepHolds` | list and server agree after every call and renewal on a connection, but for an ambiguous `MQTT_IF_Unsubscribe`; topics leave the list only by `MQTT_IF_Unsubscribe`, `MQTT_IF_Deinit` and a renewal whose session is lost |
| `DeliversToSubscriberHolds` | a message goes to the callback of a filter it fits if there is one, where no filter has more levels than the message |
| `MatchingIsFits` | for such a filter the match gives one answer, that of the rules of MQTT |

What the model reads off the list it reads off a walk along pointers. `IInv` puts a sequence of nodes beside the pointers: `Chain` says that
they lead along it, that no node comes twice, that each has its filter and that all but the first are in use (the first
is not after a failed `MQTT_IF_Subscribe`). A walk then passes the nodes of the sequence (`WalkOfItems`), because only one function follows
the pointers (`WalkUnique`); induction being out of the prover's reach, two such functions are compared at the least step at which they
would differ (`LeastOf`). The calls are operations on the sequence: a node is put before it (`ConsChain`), or the nodes behind
node `j` up to node `i` are taken out (`Splice`, `UnlinkChain`) - one node at the head or by `MQTT_IF_Unsubscribe`, and those the renewal
has skipped besides when a second subscription fails. `Renewal` gives the place of the renewal on the sequence, a node before
it as `prev`, and, as long as the session lasts, exactly the filters of the nodes passed as what the server has; at the
end of the list these are all of them, which is `StaysInStep`. `MatchingIsFits` goes along the levels as the walk goes along the nodes. TLC has
checked `IInv` on the instance of `topic_list` before it was proved.

Only model-checked: every liveness property (`AllProcessed`, `AllOffered`, `AnswersUsed`, `LostLinkStops`,
`RecoveredLinkStarts`, `CallsReturn`, `GetsIdentity`, `Recovers`) and the fairness part of `ImplementsStream`, which the prover does not
reach. Every other property of a passing run is stated by a theorem.

## 6. Not modelled

- Get and set options, several servers and acknowledged publications of `mqttclient.c`: the firmware does not use them.
- The widths of the identity in topic and header (`mqtt_user.c:912`, `1101`), initialisation of drivers during the boot.
- The text `print_user.c` writes to the UART around the values it unpacks.
- The RSSI message of `softtimer`: a publication like any other.
- Access-point role, DNS and the read-out of addresses in `wifi_user.c`: no decision depends on them.
- Drivers, the terminal, MATLAB scripts, board configuration: no state of their own that a decision depends on, or not
  part of the running program.
