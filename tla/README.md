# TLA+ verification of the qcacld-2.0 transport and transmit path

The repository holds the host software of the QCA6574 WLAN chip. Its own core is
the `qcacld-2.0` kernel driver (`src/wlan-opensource/qcacld-2.0/CORE`); the rest is
a vendored `wpa_supplicant`, user-space tools and Yocto build files. Everything the
driver tells its target goes through one stack: clients (WMI, HTT, endpoint ping) →
HTC, the multiplexer with queues and credits → HIF, the bus layer → copy engines.
Above it, the TXRX data path keeps peers and virtual devices (vdevs) and feeds frames of
the network stack to HTT. This project models that stack on PCIe, from the code, because
it is where contexts meet without a common lock and where a mistake loses packets,
references or wakeups for every client.

Paths below are relative to `CORE` unless they start with `src/`.

## Inventory

### HTC transmit path (`SERVICES/HTC/htc_send.c`)
*State, per endpoint:* `TxQueue`, `TxLookupQueue`, `TxCredits`, `TxProcessCount`,
per target `is_nodrop_pkt`, all protected by `HTCTxLock`.
*Operations:* `HTCSendPkt`, `HTCSendPktsMultiple`, `HTCTrySend` (queue, then drain if
nobody drains), `HTCIssuePackets`, `HTCTxCompletionHandler`, `HTCProcessCreditRpt`,
`HTCFlushEndpointTX`, `HTCSetNodropPkt`.
*Interactions:* called by client contexts, and from the HIF completion thread
(completions; credit reports in received trailers); calls `HIFSend_head` and
`HIFGetFreeQueueNumber`, returns packets by the client's `EpTxComplete` and asks
`EpSendFull` on overflow.
*Hard:* sending runs outside the lock, the number of free bus entries is read outside
it, sends fail in the middle of a batch, and packets have to be restored, recharged
and put back while others queue.
*Correct means:* no packet lost, duplicated or reordered, credits conserved,
completions matched and truthful, no lost wakeup.

### PCIe HIF completion path (`SERVICES/HIF/PCIe/hif_pci.c`)
*State:* per pipe the free completion states, `num_sends_allowed`,
`recv_bufs_needed`; shared `completion_pendingq`, `hif_thread_idle`,
`fw_event_pending`.
*Operations:* `HIFSend_head`, `HIF_PCI_CE_send_done`, `HIF_PCI_CE_recv_data`,
`hif_completion_thread`, `hif_post_recv_buffers`, `HIF_fw_interrupt_handler`, `HIFStart`.
*Interactions:* called back by the copy engine; calls HTC's
completion handlers one at a time and in order.
*Hard:* several contexts alert one "thread" that is really a function guarded by an
atomic counter; resources are released in a different order than they are taken.
*Correct means:* one instance at a time, nothing left pending, callbacks in bus order,
no ring entry or completion state leaked.

### Copy engine (`SERVICES/HIF/PCIe/copy_engine.c`, `if_pci.c`)
*State:* per ring the software, cached hardware and write index, the context of each
transfer; the registers; per engine `rx_pending`; per device `tasklet_from_intr` and the
interrupt enable.
*Operations:* `CE_sendlist_send`, `CE_recv_buf_enqueue`, `CE_completed_send_next`,
`CE_completed_recv_next`, `CE_revoke_recv_next`, `CE_cancel_send_next`,
`CE_per_engine_service(_any)`, `hif_pci_interrupt_handler`, `wlan_tasklet`, `HIFStop`.
*Hard:* host and target advance indices that wrap, a receive descriptor is written after
the target's index moved, completions arrive between the last look and the clearing of
the interrupt, and service gives way after a number of receives and must be resumed.
*Correct means:* both rings are bounded queues, no completion is forgotten, received
buffers are served.

### HTC control (`SERVICES/HTC/htc.c`, `htc_services.c`, endpoint 0 of `htc_recv.c`)
*State:* the endpoint table, the credit table, one control response buffer with
`CtrlResponseProcessing` and the completion `CtrlResponseValid`.
*Operations:* `HTCCreate`, `HTCWaitTarget`, `HTCConnectService`, `HTCStart`, `HTCStop`,
`HTCRxCompletionHandler` for endpoint 0, `HTCWaitRecvCtrlMessage`.
*Hard:* a thread with a timeout against a softirq that stores answers; responses carry
nothing the host compares with its request.
*Correct means:* a response is never lost or taken for another's, `VOS_BUG` is not
reached by a correct target, the endpoint and credit tables are consistent, start-up ends.

### Peers and vdevs (`CLD_TXRX/TXRX/ol_txrx.c`, `ol_txrx_peer_find.c`)
*State:* peer objects with a reference count, the vdev's peer list, the hash table by MAC
address, the map of target peer IDs, the free list and map of local peer IDs,
`wait_on_peer_id` and `wait_delete_comp`, the vdev's `delete.pending`; WMA's
`peer_count`.
*Operations:* `wma_create_peer`, `wma_remove_peer`, `ol_txrx_peer_attach`,
`ol_txrx_peer_detach`, `ol_txrx_peer_unref_delete`, `ol_rx_peer_map_handler`,
`ol_rx_peer_unmap_handler`, `ol_txrx_peer_state_update`, `ol_txrx_vdev_detach`,
`WLANTL_ChangeSTAState`.
*Hard:* three kinds of threads take and drop references under different locks; some
references are dropped by a plain decrement; an attach waits for the deletion of a
predecessor by a number that is reused.
*Correct means:* no table or thread keeps a freed peer, counts equal references, peers and
vdev are reclaimed.

### Transmit flow (`CLD_TXRX/TXRX/ol_tx.c`, `ol_tx_queue.c`, `ol_tx_send.c`, `HDD/src/wlan_hdd_tx_rx.c`, `VOSS/src/vos_timer.c`)
*State:* per vdev the pause queue with its mutex, 5 ms timer and `paused_reason`; the
thermal throttle's level, phase and two timers; the pool of transmit descriptors; per
vdev `os_q_paused` and watermark; per adapter the stopped OS queues, the flow-control
timer, `is_txflow_paused`.
*Operations:* `hdd_hard_start_xmit`, `ol_txrx_get_tx_resource`, `ol_tx_ll_queue`,
`ol_tx_vdev_pause_queue_append`, `ol_tx_vdev_ll_pause_queue_send`,
`ol_txrx_vdev_pause`/`unpause`/`flush`/`detach`, `ol_tx_throttle_set_level` and its
timers, `ol_tx_completion_handler`, `hdd_tx_resume_cb`,
`hdd_tx_resume_timer_expired_handler`.
*Hard:* five kinds of contexts drain one queue; the decision to queue is taken on values
read without the lock; a timer is cancelled and restarted by whoever appends; waking the
OS queues races with stopping them.
*Correct means:* no frame or descriptor lost, a pause holds, drains keep the order of a
queue, a backlog and a stopped queue are always served in the end.

### Parts not modelled
HTC receive delivery to other endpoints, WMI, HTT's packet lists and receive ring, TXRX
receive reordering, TL shim's frame cache, endpoint ping as a client, BMI, SDIO and USB
HIF, the rest of WMA, HDD and VOSS, SME, MAC, SAP, DFS and the tools: each has an
entry with its reason under `components` in `PROJECT.json`. The first four are the next
candidates (see *Plan*). The upper layers (`wma.c`, `wlan_hdd_*.c`, SME, MAC: most of the
1.4 million lines of the repository) are very large protocol code, glue to the kernel or
generated tables (`dot11f.c`, `wmi_unified.h`, `wmi_tlv_helper.c`); the models cover the
concurrent core beneath them and only that.

## Modules

| module | models |
|---|---|
| `HTCSend` | transmit path of one endpoint over PCIe HIF |
| `HTCChannel` | what an endpoint promises its client: a FIFO channel to the bus; implemented by `HTCSend` |
| `HIFCompletion` | one upload and one download pipe, any number of servicing contexts |
| `HTCControl` | start-up of HTC against the target's answers |
| `CopyEngine` | a source and a destination ring, the line interrupt and the tasklet |
| `DescriptorRing` | what a ring promises: a bounded queue; implemented twice by `CopyEngine` |
| `TXRXPeer` | peers, their references and IDs, and their vdev |
| `TxFlow` | from `hard_start_xmit` to the target: flow control, pause queue, throttle |
| `MCHTCSend`, `MCHIFCompletion`, `MCHTCControl`, `MCCopyEngine`, `MCTXRXPeer`, `MCTxFlow` | instances for TLC, constants only |
| `HTCSendProofs`, `HTCSendPacketProofs`, `HTCSendCreditProofs`, `HIFCompletionProofs`, `HTCControlProofs`, `CopyEngineProofs`, `TXRXPeerProofs`, `TxFlowProofs` | theorems, see *Proofs* |

**Conventions.** Names follow the source. A critical section is one action; code
between an unlock and the next lock is at least one action of its own, so that a value
read outside the lock can be stale when it is used. A context's position is `pc`; its
local variables are functions of the context. Definitions commented "Mutant" are
plausible mistakes that each break one property; no specification uses them.

### HTCSend
`HTCSendPktsMultiple` pushes headers, maps buffers of endpoints without credit flow and
enters `HTCTrySend`, which is `CheckOverflow` (queue depth read without the lock, the
`EpSendFull` callback keeps or drops), `ReadResources` (free entries, read without the
lock), `EnterTrySend` (queue; become the drainer or leave), then per packet
`IssuePacket` and `HIFSend_head` or `IssueFailed`/`Requeue`, then `RefreshResources` and
`DrainAgain` until nothing can be taken. `CompleteLeftovers` returns what was dropped.
`HTCTxCompletionHandler` and `HTCProcessCreditRpt` run in the completion thread
(`Tasklet`) and enter the same function; `RecycleEntry` frees the bus entry only after
the callback returned, as `hif_completion_thread` does. The HTT endpoint follows
`ATH_11AC_TXCOMPACT`: no lookup queue, no recheck, entries reaped by
`CE_per_engine_servicereap`.

The target is two counters: credits of messages that carried
`HTC_FLAGS_NEED_CREDIT_UPDATE` (`heldAsked`) and of those that did not (`heldQuiet`).
Buffers are reduced to the number of headers, the number of calls of `adf_nbuf_map` not
yet undone, and the fix-up flag, because those are what `RestoreTxPacket` undoes. Calls
are counted, not mappings that exist: the code ignores what `adf_nbuf_map` returns. A packet has one fragment (`num_frags` is 1 in
`GetHTCSendPackets`). `client`, `status` and `onBus` record what the client was told.
Left out: `SeqNo`, `ul_outstanding_cnt` and other debugging counts; SDIO/USB bundling;
`HTCSendDataPkt` and the polled upload pipe; the runtime-PM queue (its functions are
stubs in this build) and `HTCTxResumeAllHandler`, called only from there;
`HTCTxResourceAvailHandler`, never called on PCIe; the failures of `HIFSend_head` other
than a full pipe (`hif_pci.c:350` and 369: too many fragments, an engine that is torn down).

### HTCChannel
`queue`, `bus`, `urgent`: accept a batch at the tail (or, while the nodrop flag is up,
further ahead), transmit from the head, complete in order, cancel a suffix. Under
`ImplementsChannel` the queue is what the drainer holds followed by `TxQueue`, the bus
is the ring: taking packets off the queue, failing to send them and putting them back
are invisible to a client.

### HIFCompletion
Each transfer moves from ring (`src`, `dest`) to finished (`srcDone`, `destDone`; the
two hardware actions are external), is parked in a completion state
(`HIF_PCI_CE_send_done`, `HIF_PCI_CE_recv_data`), appended (`AppendPending`) and
delivered by `hif_completion_thread`: `TakeTurn`/`NotTheLuckyOne` is the
decrement-and-test of `hif_thread_idle`; `HandleFwEvent`, `StartThread`, `Dequeue`,
`PostRecvBuffer`/`PostRecvEnd`, `Deliver`, `Recycle` and `LeaveThread` are its body.
Allocation of a receive buffer may fail at any time. After a target reset the thread
returns without giving its turn back, as the code does; the restart that follows is
outside the model. `finished` is a history of what HTC still has to be told.
Left out: sleep and suspend, diagnostic windows; the return of `hif_completion_thread`
before HTC has registered its callbacks (`hif_pci.c:813`), and the MSI variant of the
firmware interrupt; `HIFStop` is in `CopyEngine`; `HIFGrowBuffers` is never called.

### HTCControl
One thread runs `HIFStart`, then for the ready message and for each service of
`ConnectOrder`: `SendConnect`, `ReInitCompletion`, `WaitForCompletion` or `WaitTimeout`,
and the check of the answer (`HTCWaitTarget`; `BadResponse` or `HTCConnectService`);
at last `HTCStart`. `HTCStop` may follow success or failure. The handler takes three
steps (test the flag, store under the lock, complete). The target (external) answers
each request once and in order, as late as it likes, with any content the host can tell
apart: invalid, refused, an endpoint that is in use or out of range, a message size of
zero. A credit count of 0 stands for a zero count or a zero credit size.
The order of services is that of the driver: HTT (`vos_open`), WMI (`vos_preStart`);
endpoint ping connects BE and BK. A failure ends start-up, except that of HTT2, which
exists only with `QCA_TX_HTT2_SUPPORT` (USB builds). `adf_os_re_init_completion` takes
its argument by value, so `ReInitCompletion` changes nothing.
Left out: suspend acknowledgements on endpoint 0, `HTCDestroy`.

### CopyEngine and DescriptorRing
Two engines serviced by one tasklet: `src` sends, `dest` receives. `CE_sendlist_send`
posts all items or none and moves the register with the last; `CE_recv_buf_enqueue` posts
a buffer. The target (external) advances its read index and raises the interrupt in one
step (`TargetSent`, `TargetReceived`) and writes a receive descriptor in a later one
(`TargetWrites`), the race that the test of `nbytes` in `CE_completed_recv_next` is there
for. `wlan_tasklet` is `CE_per_engine_service_any` (take the pending interrupts, or, when
not called from the interrupt, the engines marked `rx_pending`), `StartService`, the loops
over receives and sends, `ForceBreak` after `MAX_NUM_OF_RECEIVES`,
`CE_ENGINE_INT_STATUS_CLEAR`, `Recheck` with its threshold, `EndService` and
`EnableInterrupts`. `SharedInterrupt` is another device on the same line. A full
destination ring after the threshold is taken for an infinite loop and resets the target,
as in the code. `HIFStop` comes after `hif_disable_isr`; then both rings are revoked.

`DescriptorRing` has three variables: what the target still has, what it finished, the
capacity. `RingsAreQueues` states that the source ring (sendlists, cached hardware
index) and the destination ring (late descriptor writes) both implement it, wrap-around
included.

`in_progress` is `vos_is_load_unload_in_progress` or `vos_is_logp_in_progress`, which
`LoadRestartOrUnload` sets and clears at any time. When `EndService` finds an engine
`rx_pending` meanwhile, it neither enables the interrupts nor schedules the tasklet
(`if_pci.c:814-821`); the history variable `gaveUp` records it.

Left out: MSI, watermarks, sleep, suspend and link-down handling, the endpoint-ping
threshold, `HIFStop` during start-up (which returns at once), `CE_fini`. `hif_send_buffer_cleanup_on_pipe` does not cancel HTT's pipe;
the model cancels every source ring.

### TXRXPeer
Threads: the VOSS main controller `mc`, which runs WMA's create, remove and vdev detach
one after the other; the HTT `tasklet`; `Users`, other threads that change a station's
state. A step is one section under `peer_ref_mutex` or `local_peer_ids.lock`, or one
access outside them, so that an attach is eight steps (`CheckDuplicate` with its wait,
`AllocPeer`, `InsertPeer`, `InitPeer`, `ol_txrx_peer_find_hash_add`, the state update,
`OL_TXRX_LOCAL_PEER_ID_ALLOC`, `CreateSend`) and a detach four. `cur` and `got` are the
pointers a thread keeps across an unlock, `bare` is the one it still follows after its plain
decrement (`FollowBare`): the write of `peer->state` in `ol_txrx_peer_state_update`, and what
`Peekers` read, the threads that call `ol_txrx_find_peer_by_addr` with no reference of their
own (`CLD_TXRX/TLSHIM/tl_shim.c:2289`, 2320; `SERVICES/WMA/wma.c:1826`). `mem` tells whether
a pointer may be followed. The
target (external) handles WMI commands in order and gives a peer one or two IDs. Each peer
object is allocated once, so that a stale pointer stays visible.
Left out: the forced detach of all peers at unload, high-latency queues, roaming in the
target, several vdevs (a peer never changes its vdev).

### TxFlow
Contexts: every OS queue (Linux serialises `hard_start_xmit` per queue), every vdev's
pause-queue timer, the control thread `ctl` (WMA), the throttle's timers `phase` and `tx`,
the completion handler `cpl`, VOSS's message thread `mc`. The record `ctx[c]` holds a
context's position, vdev, the frame in its hand, a budget and a flag.

- A sender: `hdd_hard_start_xmit`, `ol_txrx_get_tx_resource`, the stop of the OS queues
  and the three unlocked steps around the timer, then `ol_tx_ll_queue_reason` and
  `ol_tx_ll_queue_depth` (both read without the lock), then `ol_tx_ll_queue_send` or
  `ol_tx_vdev_pause_queue_append` and, when the vdev is not paused, a drain.
- A drain (`CheckThrottle`, `SendBaseLock`, `SendBaseTx`): the mutex is held throughout,
  but `ol_tx_ll` takes descriptors others use meanwhile, and the queue's depth goes down
  before a frame is sent.
- The throttle: `ol_tx_throttle_set_level` in two steps without a lock; the timers go
  round the vdevs one frame each (`SendAllDequeue`, `SendAllTx`) and then look for a
  backlog (`SendAllBacklog`).
- Completions: `ol_tx_completion_handler` returns descriptors, then
  `OL_TX_FLOW_CT_UNPAUSE_OS_Q` looks at each vdev and calls `hdd_tx_resume_cb` (stop the
  timer, wake, clear the flag). Management frames take descriptors whatever is stopped,
  and their completion looks at no vdev.
- The flow-control timer: `vos_linux_timer_callback` posts a message; the message thread
  wakes the queues.

Whether HTT, HTC or the DMA mapping fail inside `ol_tx_ll` is a choice; its caller gives
the frame back. A VOSS message is always available. Left out: frame lists (HDD sends one
frame at a time), registering and deregistering the flow control (the timer exists, so the
test of `tx_flow_timer_initialized` is not modelled), IPA, runtime PM, subsystem
restart, and the high-latency path. The vdev is detached when no sender is in it.

## Runs

| run | instance | distinct states | what it shows |
|---|---|---|---|
| `wmi` | 3 packets (one of 2 credits), 2 clients + completion thread, 3 credits, 2 bus entries, batches of 2 | 61,913 | conservation of packets and credits, completions at the head of the lookup queue, truthful statuses, FIFO channel, with bus and credits both running out |
| `wmi_live` | 3 packets, 1 client, 4 credits, 4 bus entries | 33,825 | `CreditWakeup`: whoever leaves packets behind left them to a credit report that will come; `EveryPacketReturned`, although the target keeps the credits of messages that did not ask |
| `pipe` | no credit flow, DROP, queue depth 1, 1 bus entry, nodrop client | 31,004 | header and `adf_nbuf_map` once per netbuf, undone once before the client has it back, although sends fail and packets are restored |
| `htt` | HTT endpoint, KEEP, queue depth 1 | 2,955 | a FIFO channel without lookup queue and recheck |
| `poll` | tasklet services upload, timer services download; 2 send buffers (3 and 1 fragments), 3 receive buffers | 25,452 | one instance, order, entries and completion states |
| `tasklet` | one tasklet for both | 10,352 | nothing stays pending, every finished transfer is delivered |
| `wlan` | HTT then WMI, 3 endpoints, credits 0, 2, 256 | 3,807 | nothing lost or confused between thread, handler and target; start-up ends |
| `ce` | rings of 4 and 1 or of 2 and 4 entries, sendlists of 2, one foreign interrupt, loads and restarts | 546,524 | rings are queues, no completion forgotten, tasklet and interrupts hand over to each other, receives served; a tasklet that gave up is the named exception |
| `peer` | 2 peer objects, 2 addresses, 1 local ID, 4 peer IDs (2 per peer), 1 user thread, also a peeker | 166,682 | references accounted for, nothing dangling, states written into live peers, waiters woken, peers and vdev reclaimed; only a peeker's decrement leaves a peer behind |
| `pause` | 1 vdev, 1 OS queue with 2 frames (the first EAPOL), 1 descriptor, two pause reasons, levels 0 and 1, flushes | 319,159 | a pause holds, a frame passes older ones only while they are in a drainer's hand, backlogs are sent |
| `flow` | 1 vdev, 2 OS queues with 1 frame each, 2 management frames, 3 descriptors, watermark 2, suspend and detach | 190,616 | frames and descriptors conserved, stopped queues woken |
| `detach` | 1 vdev, a pause reason, detach | | violation, see *Findings* |

**Bounds.** Packets of HTC are posted again after they come back, so behaviours are
infinite although the sets are small. Three packets are one in hand, one queued and one
arriving behind them: the least that shows a reordering by a failed send. Two clients and
the completion thread are a drainer and two contexts that race with it. Queue depth, bus
entries and credits are the smallest that can be exceeded by a batch of two. One packet
of 12 bytes at 8 bytes a credit exercises rounding up, and two credits where one is
left; with 4 credits in `wmi_live` the first message need not ask for an update and the
target keeps its credit. In HIF a three-fragment buffer has a first, a middle and a last entry; rings
leave one entry unused, hence 4 entries for 3 fragments. HIF only counts ring entries,
so their number need not be a power of two. 256 credits are the first count that does
not fit the 8-bit `CreditAllocation`; `ENDPOINT_MAX = 3` is the smallest table with the
control endpoint and both services, and the target may answer with 3, just past it.
In `ce` a ring of 4 holds 3 transfers, so a sendlist of 2 meets room for 0, 1, 2 and 3
at every position of the wrap; both thresholds are 1, so that they are exceeded. In
`peer` one local ID for two peers makes IDs run out and be reused, two addresses allow
a second peer next to the first or in its place. In `pause` one descriptor makes a drain
stop in the middle; in `flow` three descriptors, two of which management frames may take,
make every frame meet the watermark on either side. The named bounds are the constants
`MaxBatch`, `MaxTxQueueDepth`, `CreditCounts`, `MaxItems`, `MaxForeign`, `MaxPeers`,
`MaxFrames`, `MaxMgmt`, `MaxPosts` and the lengths of the rings.

Packets of the same size, threads and receive buffers are symmetric; runs that check
`~>` or `<>` use no symmetry. Deadlock checking is on in `HTCSend`. It is off where the
system may stop: in `HIFCompletion` and `CopyEngine` after a reset or `HIFStop`, in
`HTCControl` when start-up ends, in `TXRXPeer` when the peer objects are used up, in
`TxFlow` when the stack sends no more. The type invariants of `HIFCompletion`,
`HTCControl`, `CopyEngine`, `TXRXPeer` and `TxFlow` hold on the same instances; the runs
list what says more.

**Fairness.** `HTCSend`: a context inside `HTCTrySend` goes on (softirqs run to
completion, threads are scheduled), completions are serviced, and the target returns
credits of messages that asked for them; it may keep all others for ever. Clients need
not send nor flush. `HIFCompletion`: contexts go on, and an engine with finished
transfers is serviced again and again (strong fairness: `CE_per_engine_service_any` goes
round all engines with a pending interrupt). `HTCControl`: only the host thread and the
handler are fair. Nothing is assumed of the target; the timeout ends every wait.
`CopyEngine`: the tasklet and `HIFStop` go on, a descriptor is written once its index has
moved, and an interrupt that is asserted again and again while the tasklet is not running
is taken (strong fairness: the line is level-triggered); the target need do nothing.
Foreign interrupts are bounded, because an endless stream of them at the wrong moment
keeps `tasklet_from_intr` set and starves the engines marked `rx_pending`.
`TXRXPeer`: threads inside an operation, the tasklet and the target go on; nobody need
start an operation. `TxFlow`: contexts that have started go on, timers expire, the message
thread runs, the target completes what it owns; nothing is assumed of the stack or of the
control thread's decisions.

## Findings

**A detach that waits for its own lock** (`detach`, `CLD_TXRX/TXRX/ol_txrx.c:1431`).
`ol_txrx_vdev_detach` calls `adf_os_timer_free`, which is `del_timer_sync`, with
`ll_pause.mutex` held, and the callback of that timer takes the mutex first.
If the timer has fired on another CPU and the detach gets the mutex before the callback
does, each waits for the other. `SERVICES/COMMON/adf/linux/adf_os_timer_pvt.h:194-195`
says of the same call: "caller must not hold any lock that timer function is likely to
hold as well".

### Other instances
Properties of the modules that fail, or hold, on instances that have no run of their own.
Each is one change of constants in the cfg of a run, with the named property.

1. `HTCSend`, one client, no credit flow, no `EpSendFull`, queue depth 2, 2 bus entries,
   batches of 1: `NoStrandedPacket` fails. `HTCTrySend` (`htc_send.c:1095`) reads the free
   entries before it takes the lock; if it reads 0 and the last completions recheck the
   still empty `TxQueue` before it queues its packet, the packet waits for the next
   send. Concerns endpoints without credit flow that rely on the recheck (endpoint ping).
2. `HTCSend`, HTT endpoint, KEEP, one client: `NetbufsRestored` fails. The overflowing packet
   was unmapped by `RestoreTxPacket` and only its header is pushed again
   (`htc_send.c:1069`), yet `HTCIssuePackets` takes such packets to be mapped. On a credit
   endpoint KEEP breaks it too: an overflowing packet that `RestoreTxPacket` did not have
   to touch gets a second header. Hence the hypothesis of theorem `BuffersRestored`.
3. `HIFCompletion` with `TaskletAndTimer` and `PolledServices`: `PendingHandled` and
   `FwEventHandled` fail. A context that has just filled the empty queue is turned away
   because another one, itself turned away, has not incremented `hif_thread_idle` yet
   (`hif_pci.c:806`); and `fw_event_pending` is tested once (`hif_pci.c:819`), so that an
   event which comes later, while another context runs the thread, has its alert turned away.
   Only in the polled endpoint-ping configuration; the default is the run `tasklet`, where
   the handler of the event runs in the tasklet, before the service and never within it.
4. `HTCControl` with `Htt2Order`, `BothHtt`, `QCA_TX_HTT2_SUPPORT`, 4 endpoints:
   `NoSpuriousBug` fails. After a timed out HTT2 request start-up goes on; the late answer
   and the next one collide (`htc_recv.c:403`). Theorem `NoBug` covers all other builds.
   With `EppingOrder`, `BothPings` and `Epping`, `EndpointsConsistent` and `CreditsBounded`
   hold, as theorem `CreditsWithinTotal` says of every order without `WMI_CONTROL_SVC`.
5. `TXRXPeer` with 3 peer objects, `num_peers` 3, one ID per peer, no users: `UniqueMac`
   fails. An attach whose wait for a duplicate ends (`ol_txrx.c:1537`) allocates without
   looking again, and the number it waited for may by then be another peer's
   (`ol_txrx.c:1967`).
6. `TXRXPeer`, run `peer`: a peer does become `Forgotten`. The plain decrement of a peeker
   (`ol_txrx.c:163`) may be the last one, which nobody tests, and the peer then stays in the
   tables for good; theorem `NoneLeftBehind` says that nothing else leaves one there. And what
   a peeker reads through the pointer it was given (`tl_shim.c:2296`, 2327, `wma.c:1826`) may
   be freed: between its decrement and its read another thread can make the last release.
   Hence `NoDangling` speaks of `cur` and `got`, and `StateWriteSafe` of the other use of `bare`.
7. `TxFlow`, run `pause` with `Reasons = {"VDEV_SUSPEND"}`: `BacklogServed` fails. A sender
   that read the suspend appends after the resume looked at the queue, and starts no timer
   (`ol_tx.c:666`); the frame waits for the next one.
8. `TxFlow`, run `pause` with `tx_threshold = 1` and no reasons: `BacklogServed` fails.
   Level 0 set while the phase timer's callback runs leaves the phase OFF and no timer for
   the rest of the backlog (`ol_tx_queue.c:1413`).
9. `TXRXPeer` with 4 peer objects, `num_peers` 4, one local ID, 2 peer IDs, one ID per
   peer, no users: `RefsAccounted` fails. It follows from 5: when a second peer of one
   address is created, the target as modelled replaces the IDs of that address, so that an
   ID comes back in a map message without having been unmapped. The count then exceeds the
   references for good and the peer is never freed; the opposite, a count that is too low,
   cannot happen (theorem `TXRXPeerProofs!Invariance`), and this reuse is the only way for
   a count to become too high (theorem `CountsExact`).
10. `TxFlow`, run `flow` with `TwoAndOne` or `TwoOfEach` frames, one management frame and
    no reasons: everything holds.
11. `HTCSend`, run `wmi`: a netbuf of a credit endpoint is given to `adf_nbuf_map` twice. When
    the bus runs full, the packet goes back to `TxQueue` as it is (`htc_send.c:690`) and is
    mapped again when its turn comes (line 651), unmapped once. With the DMA tracking of
    `SERVICES/COMMON/adf/adf_nbuf.c` this is its "Double nbuf map detected" (line 709). Hence
    the count of maps in `NetbufsRestored` is of endpoints without credit flow.
12. `CopyEngine`, run `ce`: `TaskletResponsible` without `~gaveUp` and `ReceiveServed`
    without its last disjunct fail. A run of `wlan_tasklet` that leaves an engine `rx_pending`
    while a load, an unload or a restart is in progress returns with the interrupts off and
    the tasklet not scheduled (`if_pci.c:814-821`), and nothing in the modelled code makes up
    for it when the load or the restart is over.
13. `TxFlow`, run `pause`: a frame does overtake an older one of its OS queue. A drainer
    lowers `depth` when it takes the frame off the queue (`ol_tx.c:551`, 740) and hands it to
    the target afterwards (lines 561, 748), so a sender that reads depth 0 without the lock
    (line 671) may be there first. `OvertakenInHand` says that this is the only way.

Noticed while modelling: a failed `adf_nbuf_map` is not noticed (`htc_send.c:651`, 1276), so
that the netbuf goes to the bus unmapped and is unmapped at its completion; the per-target nodrop flag may be consumed by any other sender
(`htc_send.c:1103`); a credit may come back before the bus entry of its message is
recycled, against the assumption at `htc_send.c:1143`, which the requeue path covers (run
`wmi`); re-initialising the completion by value has no effect
(`SERVICES/COMMON/adf/linux/adf_os_util_pvt.h:118`), which happens to keep early answers
from being lost, since `HTCConnectService` sends before it re-initialises (the mutant
`ReInitCompletionByReference` breaks `AnsweredNotTimedOut`); 256 credits in the ready
message become none in the 8-bit table (`htc.c:373`); send completions that the tasklet
leaves after its threshold wait for the next interrupt, the exception named in
`NothingForgotten`, and a stream of sends may keep it in the loop over send completions,
the exception named in `ReceiveServed`; `is_txflow_paused` may stay set after the queues
were woken (`wlan_hdd_tx_rx.c:593`), after which resources are no longer asked for; the
throttle's `tx_timer` is cancelled and started under the mutexes of different vdevs; with
several vdevs the budget of a round is tested only after it (`more && max_to_send`,
`ol_tx.c:768`) and can jump over 0.

## Proofs

Every theorem is checked by TLAPS for every value of the constants that the named
assumptions of the modules allow. They ask for what the code gives: finite sets of packets,
contexts, threads and queues that do not overlap (`ConstantsAssumption`, `PeerAssumption`,
`ContextAssumption`), an engine serviced by one context (`PipesAssumption`), distinct
services (`ControlAssumption`), distinct vdevs (`FlowAssumption`), rings with at least one
entry (`RingAssumption`), and numbers in their ranges. A theorem with a further hypothesis
states it; its reason is below. All proofs have the same shape: an inductive invariant, one
lemma per action that it is preserved, lemmas on the operators the actions use, and a last
step by PTL. TLC finds each of these invariants to hold on the instances of the runs.

### HTC transmit path

| theorem | property |
|---|---|
| `HTCSendProofs!TypeCorrect` | `TypeOK` |
| `HTCSendProofs!OneDrainer` | `SingleDrainer` |
| `HTCSendPacketProofs!NoPacketLost` | `PacketConserved` |
| `HTCSendPacketProofs!LookupFollowsBus` | `LookupInBusOrder` |
| `HTCSendPacketProofs!ClientsToldTruth` | `CompletionTruthful` |
| `HTCSendPacketProofs!BuffersRestored` | `NetbufsRestored`, if `EpSendFull # "KEEP"` |
| `HTCSendPacketProofs!ChannelImplemented` | `ImplementsChannel` |
| `HTCSendCreditProofs!NoCreditLeaks` | `CreditsConserved` |
| `HTCSendCreditProofs!WakeupNeverLost` | `CreditWakeup`, if `Provisioned` |

- `TypeOK` includes that `num_sends_allowed` and the target's credits never go negative; it
  needs `HifHolds`, that a context about to call `HIFSend_head` holds a packet.
- `SingleDrainer` is inductive with the positions: at most one context is past the test, and
  `TxProcessCount` is 1 exactly then.
- Where packets are is `PlaceInv`: each queue holds a packet at most once, no two places
  share one, none is lost, a context's position tells which of its local queues are empty,
  and `TxLookupQueue` is the ring plus the packet being handed over. The parts need each
  other: a completion gives back the packet found in `TxLookupQueue`, so a packet would be
  lost if that queue and the ring disagreed, and they would if a packet were queued twice.
- `CompletionTruthful` adds `BusInv`: what is in the ring is on the bus, what is neither there
  nor with the client is not. `NetbufsRestored` adds `HeaderInv`: a packet on the way is ready to
  be mapped and sent (one header; mapped once already where there is no credit flow), whatever
  was restored, and `ReturnInv`: what a client has or is about to get back is as it was posted.
  `RestoreTxPacket` runs twice on some packets; the fix-up flag makes the second a no-op.
  With KEEP it is false, see *Other instances*.
- The refinement maps the channel's queue to what the drainer holds followed by `TxQueue`.
  Taking packets off, failing to send and putting back leave this sequence as it is; queueing,
  sending, completing and flushing are the channel's steps. It rests on `PlaceInv` (a flush
  cancels packets that are nowhere else) and `SingleDrainer` (only one sequence is in hand).
- `CreditsConserved` needs that packets in hand are distinct and in no other queue, so that
  what they were charged is the sum of what each was charged (`Charged`).
- `CreditWakeup` needs `PipeInv`, `QuietInv` and `NoticedInv`: `HIFSend_head` does not fail,
  what nobody drains was found short of credits, and credits spent without asking for their
  return leave more than a maximum message needs. `Provisioned` says when the wakeup is the
  credits' business alone: credit flow, an allocation that covers the largest message, no
  message larger than the target announced, and a pipe with an entry for every packet. When
  the pipe runs full as well, packets may be put back after the report has come.

### PCIe HIF completion path

| theorem | property |
|---|---|
| `HIFCompletionProofs!OneInstance` | `SingleInstance` |
| `HIFCompletionProofs!AllPendingHandled` | `PendingHandled`, if `Contexts = {Tasklet}` |
| `HIFCompletionProofs!EntriesAccounted` | `EntriesConserved` |
| `HIFCompletionProofs!FreeQueuesSuffice` | `StatesSuffice` |
| `HIFCompletionProofs!InOrder` | `CompletionInOrder` |
| `HIFCompletionProofs!TypeCorrect` | `TypeOK` |

- One instance: a count of 1 does not say that nobody is inside. `ThreadInv` adds that the
  count plus the contexts holding a decrement is 1, or less after a reset; then a context
  that decrements from 1 to 0 is the only one.
- Nothing pending: `WorkInv`, while something is in the queue the tasklet is at a place from
  which it will still look there. With a second context it is false (*Other instances*, 3).
- Entries and completion states: `CountInv`, two sums over the rings, the queue and the hands
  of all contexts, inductive only together and with `ThreadInv` (one completion in the
  thread's hands).
- Order: the transfers of a pipe that finished and were not delivered lie in four places:
  in the thread's hands, in `completion_pendingq`, in the local queue of the context that
  services the pipe, and in the ring. Read in this order they are the history of the pipe
  (`OrderInv`); a step moves a completion from the head of one place to the tail of the one
  before. It needs `ThreadInv`: with two instances of the thread two hands would hold
  completions, and nothing would say whose was first. Queues hold completions of several
  pipes, so each place has the pipe's own part, described by the positions it is picked from
  (`Picked`) and not by a filter.

### HTC control

| theorem | property |
|---|---|
| `HTCControlProofs!NoBug` | `NoSpuriousBug` |
| `HTCControlProofs!OwnResponse` | `ResponseMatchesRequest` |
| `HTCControlProofs!AnswerEndsTheWait` | `AnsweredNotTimedOut` |
| `HTCControlProofs!TableConsistent` | `EndpointsConsistent` |
| `HTCControlProofs!CreditsWithinTotal` | `CreditsBounded`, if `~Epping \/ WMI \notin Services` |

All without `QCA_TX_HTT2_SUPPORT` (with it `NoSpuriousBug` is false, *Other instances*, 4).
The host compares nothing and discards nothing, so everything rests on there being one
control message at any time: `MessageInv` says where it is (asked, on the wire, in the
handler, stored, completed) for each position of the thread, and that it answers the current
request. After a failure it may be anywhere, but no further request follows. `TableInv` adds
that services not yet asked for have no endpoint. `CreditInv` adds that an endpoint has the
credits of the service it is given to, and none before the ready message; as no service has
two endpoints, at most two endpoints have credits, the two of endpoint ping with half the
total each. The hypothesis is what the two drivers do: WMI gets the whole total, and endpoint
ping, which shares it between two other services, does not connect WMI.

### Copy engine

| theorem | property |
|---|---|
| `CopyEngineProofs!Invariance`, `TypeCorrect` | the invariant; `TypeOK` |
| `CopyEngineProofs!RingsImplementQueues` | `RingsAreQueues` |
| `CopyEngineProofs!TaskletAnswers` | `TaskletResponsible` |
| `CopyEngineProofs!NoneForgotten` | `NothingForgotten` |

`Inv` orders the indices of a ring: going round from `sw_index`, the target's read index
comes no later than `write_index` (`SrcInv`, `DestInv`). Without this the masked difference
of `CE_RING_DELTA` is not a number of descriptors. The cached `hw_index` is not ahead of the
register, and lengths are only in descriptors the target has finished. `DeltaIs` is what
`CE_RING_DELTA` computes at the wrap; `TakenFromRing`, `FinishedByTarget` and `PostedToRing`
are what the three index movements do to the two queues of `DescriptorRing`, for both rings.
`NothingForgotten` follows one engine through the service: whoever moves its read index
raises its interrupt, and whoever clears the interrupt looks again afterwards.

### Peers and vdevs

| theorem | property |
|---|---|
| `TXRXPeerProofs!Invariance`, `TypeCorrect` | the invariant; `TypeOK` |
| `TXRXPeerProofs!PointersSafe` | `NoDangling` |
| `TXRXPeerProofs!VdevOutlivesPeers` | `VdevFreedWithLastPeer` |
| `TXRXPeerProofs!WakeIsComing` | `NoMissedWake` |
| `TXRXPeerProofs!StateWritesSafe` | `StateWriteSafe` |
| `TXRXPeerProofs!NoneLeftBehind` | `OnlyPeekersForget` |
| `TXRXPeerProofs!CountsExact` | `RefsAccounted`, of behaviours with `[]IdFree` |
| `TXRXPeerProofs!UnmappedFirst` | `IdFree`, of behaviours with `[]CreateFresh` |

A peer is freed when its count becomes 0, so no pointer dangles if no count is lower than the
references it stands for (`Covered`). References come from the attachment, from the map of
peer IDs and from threads between a lookup and its release; `PeerInv` therefore also says
what each thread's position tells of its pointers (`McInv`, `OtherInv`), that a peer being
attached is known to nobody else (`FreshInv`), that the live peers are those on the list
(`ListInv`) and whose IDs the maps hold (`MapInv`). `Covered` is an inequality, because the
count can be too high for good (*Other instances*, 9). The proof covers peekers and every loss
of commands. `VdevInv` adds that a freed vdev has an empty list and a pending one does not.

`CountsExact` adds the other inequality (`Exact`): no step takes away a reference without
taking it from the count. `MapAddId` would, when `peer_id_to_obj_map` still gives the ID to a
peer: `ol_txrx_peer_find_add_id` overwrites the entry, and the reference it stood for is not
dropped. `IdFree` says that this does not happen; the host does not test it. It is an
invariant of the run `peer`, and without it `RefsAccounted` is false. `UnmappedFirst` says
when it holds for any number of IDs: when the target is asked to create a peer only at an
address it has none of (`CreateFresh`). A lost delete command or a second attach of one
address can spoil that. The argument is `Alternate`: take the table for message 0 and the next
map message for the one after the last; between two maps of an ID there is an unmap of it.

`OnlyPeekersForget` asks that no plain decrement but a peeker's is the last. The main
controller thread makes them on peers that are valid and stay so, as only this thread
detaches (`AttachInv`). A state update holds its peer, but looks it up again by its address
and may then find, and decrement, another one: a peer attached under the same address while
the first, invalid by now, waits for its last reference. The second is behind the first in the
bin, so no map message finds it and the map handler's reference is still there (`ShadowInv`,
`UpdateInv`). The same argument carries on to the write of the state, which comes after the
decrement: the peer written to is the held one or stands behind it (`StateWriteSafe`).
Peekers are covered: one that leaves a peer behind changes neither the order in a bin nor
which peers are alive.

### Transmit flow

| theorem | property |
|---|---|
| `TxFlowProofs!Invariance` | `TypeOK`, `FrameInv` |
| `TxFlowProofs!Conserved` | `FramesConserved` |
| `TxFlowProofs!PauseIsHonoured` | `PauseHonoured` |
| `TxFlowProofs!QueueOrder` | `OvertakenInHand` |
| `TxFlowProofs!StopIsOwed` | `WakeOwed` |

Some thirty actions move frames in a dozen ways (take from the stack, enqueue, take from the
head, hand to the target, give back, complete, ...). `FrameInv` is proved once for each kind
of move, and every action is shown to be one. It says which positions hold a frame, who holds
the mutex, that a drainer's vdev is not paused, that frames stay in their vdev and are in one
place, that older frames of an OS queue are ahead, and that descriptors add up. `PauseHonoured`
needs the mutex: a pause takes it, so no drain is under way when it returns. `OvertakenInHand`
needs that a sender which decided to bypass the queue has no frame in it: the OS queue is
serialised, so none is added meanwhile; what it may still pass is in the hand of the one
context that holds the mutex. `WakeOwed` is inductive on top of `TypeOK`.

### What the proofs changed
`ReturnPoint` of `HTCSend` was a CASE with overlapping arms, of which TLA+ may take either;
it is now an IF that tests the caller's queue first, as the code does. `RefsAccounted` and
`NetbufsRestored` were found to need their exceptions (*Other instances*, 2 and 9). In
`HIFCompletion` the histories lose a delivered transfer by `RemoveFirst`, where a filter
stood before, about which nothing can be proved without induction. No other
change was needed beyond names for parts of actions.

### Only model-checked
- Liveness (`EveryPacketReturned`, `FinishedDelivered`, `StartUpEnds`, `ReceiveServed`,
  `PeerReclaimed`, `BacklogServed`, `StoppedQueueWoken`): TLAPS does not reason about fairness
  and ENABLED.
- `NoTimerDeadlock` of `TxFlow` is violated, see *Findings*.

## Plan

Modelling:
1. HTC receive path: delivery to endpoints, trailers, scatter-gather reassembly.
2. WMI: pending-command count, event queue and work, suspend and shutdown.
3. HTT: packet pools and the misc list, which may free a packet still in HTC's queue.
4. TXRX receive reordering.
5. Composition of `HTCSend` with `HIFCompletion` instead of its own counters, and of
   `HIFCompletion` with `DescriptorRing`.

Proofs: every safety property that a passing run checks has its theorem; next are those of
the modules above.
