------------------------------- MODULE TxFlow -------------------------------
(***************************************************************************)
(* The transmit side of a low-latency (PCIe) virtual device, from the      *)
(* network stack to the target:                                            *)
(*                                                                         *)
(*  - HDD's hard_start_xmit and its flow control: the OS queues of an      *)
(*    adapter are stopped when the pool of transmit descriptors is low,    *)
(*    and woken by a callback of the completion path or by a timer;        *)
(*  - TXRX's ol_tx_ll_queue and the pause queue of a vdev (ll_pause), with *)
(*    its 5 ms timer, pausing and unpausing, flushing, detaching;          *)
(*  - the thermal throttle, whose two timers drain the same queues;        *)
(*  - the pool of transmit descriptors shared with the target.             *)
(*                                                                         *)
(* A context is a thread of control: one per OS transmit queue (Linux      *)
(* serialises hard_start_xmit per queue), one per vdev for the timer of    *)
(* its pause queue, the control thread "ctl" (WMA), the timers "phase" and *)
(* "tx" of the throttle, the completion handler "cpl" (the HIF tasklet)    *)
(* and VOSS's message thread "mc".  A step is what a context does under    *)
(* one lock, or between two of its reads and writes of unlocked state.     *)
(***************************************************************************)
EXTENDS Integers, Sequences, FiniteSets, SequencesExt

CONSTANTS
  vdev_list,      \* pdev->vdev_list, a sequence of vdevs
  Queues,         \* the OS transmit queues
  VdevOf,         \* the vdev (and adapter) of each queue
  MaxFrames,      \* bound: frames the stack sends through each queue
  MaxMgmt,        \* bound: management frames the target owns at a time
  Eapol,          \* the frames that are EAPOL or WAPI
  PoolSize,       \* pdev->tx_desc.pool_size
  max_q_depth,    \* vdev->ll_pause.max_q_depth
  tx_threshold,   \* THROTTLE_TX_THRESHOLD
  low_watermark,  \* adapter->tx_flow_low_watermark, 0: no flow control
  high_watermark_offset,
  SendMargin,     \* OL_TX_VDEV_PAUSE_QUEUE_SEND_MARGIN
  Reasons,        \* the pause reasons that occur
  Levels,         \* the throttle levels that are set
  MayFlush,       \* vdevs are flushed
  MayDetach,      \* vdevs are detached
  MaxPosts        \* bound: timer messages waiting for the message thread

Vdevs == Range(vdev_list)

Frames == UNION {{q} \X (1..MaxFrames[q]) : q \in Queues}

PauseReasons == {"FW", "PEER_UNAUTHORIZED", "VDEV_STOP", "VDEV_SUSPEND"}

ASSUME FlowAssumption ==
  /\ vdev_list \in Seq(Vdevs) /\ vdev_list # <<>> /\ IsInjective(vdev_list)
  /\ IsFiniteSet(Queues) /\ VdevOf \in [Queues -> Vdevs]
  /\ MaxFrames \in [Queues -> Nat]
  /\ {PoolSize, max_q_depth, tx_threshold, MaxPosts} \subseteq Nat \ {0}
  /\ {low_watermark, high_watermark_offset, SendMargin, MaxMgmt} \subseteq Nat
  /\ Eapol \subseteq Frames /\ Reasons \subseteq PauseReasons
  /\ Levels \subseteq 0..3
  /\ {MayFlush, MayDetach} \subseteq BOOLEAN

Singles == {"ctl", "phase", "tx", "cpl", "mc"}

Contexts == Queues \cup Vdevs \cup Singles

NoFrame == <<>>
Nobody == "none"

ASSUME ContextAssumption ==
  /\ Queues \cap Vdevs = {}
  /\ (Queues \cup Vdevs) \cap (Singles \cup {Nobody}) = {}

VARIABLES
  ctx,              \* where each context is: pc, vdev, frame, budget, flag
  next,             \* frames each OS queue has handed over
  paused_reason,    \* vdev->ll_pause.paused_reason
  txq,              \* vdev->ll_pause.txq
  ll_timer,         \* vdev->ll_pause.timer is pending
  mutex,            \* the holder of vdev->ll_pause.mutex
  attached,         \* the vdev is on pdev->vdev_list
  num_free,         \* pdev->tx_desc.num_free
  target,           \* the data frames the target owns, a descriptor each
  mgmt,             \* the management frames it owns, a descriptor each
  freed,            \* the frames given back to the stack
  throttle_level, throttle_phase,
  phase_timer, tx_timer,    \* the throttle timers are pending
  os_q_paused,      \* vdev->os_q_paused
  tx_fl_lwm,        \* vdev->tx_fl_lwm (tx_fl_hwm goes with it)
  netif_stopped,    \* WLAN_DATA_FLOW_CONTROL in the adapter's pause_map
  fc_timer,         \* state of adapter->tx_flow_control_timer
  fc_posted,        \* its expiries waiting for the message thread
  is_txflow_paused

llVars == <<paused_reason, txq, ll_timer, mutex, attached>>
poolVars == <<num_free, target, mgmt, freed>>
throttleVars == <<throttle_level, throttle_phase, phase_timer, tx_timer>>
flowVars == <<os_q_paused, tx_fl_lwm>>
hddVars == <<netif_stopped, fc_timer, fc_posted, is_txflow_paused>>
vars == <<ctx, next, llVars, poolVars, throttleVars, flowVars, hddVars>>

Idle == [pc |-> "idle", v |-> vdev_list[1], msdu |-> NoFrame, n |-> 0, b |-> FALSE]

Init ==
  /\ ctx = [c \in Contexts |->
              IF c \in Queues THEN [Idle EXCEPT !.v = VdevOf[c]]
              ELSE IF c \in Vdevs THEN [Idle EXCEPT !.v = c]
              ELSE Idle]
  /\ next = [q \in Queues |-> 0]
  /\ paused_reason = [v \in Vdevs |-> {}]
  /\ txq = [v \in Vdevs |-> <<>>]
  /\ ll_timer = [v \in Vdevs |-> FALSE]
  /\ mutex = [v \in Vdevs |-> Nobody]
  /\ attached = [v \in Vdevs |-> TRUE]
  /\ num_free = PoolSize /\ target = {} /\ mgmt = 0 /\ freed = {}
  /\ throttle_level = 0 /\ throttle_phase = "OFF"
  /\ phase_timer = FALSE /\ tx_timer = FALSE
  /\ os_q_paused = [v \in Vdevs |-> FALSE]
  /\ tx_fl_lwm = [v \in Vdevs |-> 0]
  /\ netif_stopped = [v \in Vdevs |-> FALSE]
  /\ fc_timer = [v \in Vdevs |-> "STOPPED"]
  /\ fc_posted = [v \in Vdevs |-> 0]
  /\ is_txflow_paused = [v \in Vdevs |-> FALSE]

At(c, label) == ctx[c].pc = label

Goto(c, label) == ctx' = [ctx EXCEPT ![c].pc = label]

\* The context is done; its record returns to its idle form.
Return(c) ==
  ctx' = [ctx EXCEPT ![c] =
            [Idle EXCEPT !.v = IF c \in Queues \cup Vdevs THEN ctx[c].v ELSE vdev_list[1]]]

\* The spin lock of a vdev's pause queue can be taken.
Unlocked(v) == mutex[v] = Nobody

-----------------------------------------------------------------------------
(* HDD: hard_start_xmit up to the call of TXRX *)

\* The stack hands over the next frame of a queue that is not stopped.  With
\* is_txflow_paused set the resources are not asked for.
hdd_hard_start_xmit(q) ==
  LET v == VdevOf[q] IN
  /\ At(q, "idle") /\ next[q] < MaxFrames[q]
  /\ ~netif_stopped[v] /\ attached[v]
  /\ ~(At("ctl", "timerfree") /\ ctx["ctl"].v = v)
  /\ next' = [next EXCEPT ![q] = @ + 1]
  /\ ctx' = [ctx EXCEPT ![q].msdu = <<q, next[q] + 1>>,
                        ![q].pc = IF is_txflow_paused[v] \/ low_watermark = 0
                                  THEN "queue" ELSE "resource"]
  /\ UNCHANGED <<llVars, poolVars, throttleVars, flowVars, hddVars>>

\* Too few free descriptors: note the watermarks, and the OS queue is to stop.
ol_txrx_get_tx_resource(q) ==
  LET v == VdevOf[q]
      low == num_free < low_watermark IN
  /\ At(q, "resource")
  /\ Goto(q, IF low THEN "stop" ELSE "queue")
  /\ os_q_paused' = [os_q_paused EXCEPT ![v] = @ \/ low]
  /\ tx_fl_lwm' = [tx_fl_lwm EXCEPT ![v] = IF low THEN low_watermark ELSE @]
  /\ UNCHANGED <<next, llVars, poolVars, throttleVars, hddVars>>

wlan_hdd_netif_queue_stop(q) ==
  /\ At(q, "stop")
  /\ netif_stopped' = [netif_stopped EXCEPT ![VdevOf[q]] = TRUE]
  /\ Goto(q, "timer")
  /\ UNCHANGED <<next, llVars, poolVars, throttleVars, flowVars,
                 fc_timer, fc_posted, is_txflow_paused>>

\* The state of the timer is read, the timer started, and the flag set in
\* three steps.
vos_timer_getCurrentState(q) ==
  /\ At(q, "timer")
  /\ Goto(q, IF fc_timer[VdevOf[q]] = "STOPPED" THEN "start" ELSE "queue")
  /\ UNCHANGED <<next, llVars, poolVars, throttleVars, flowVars, hddVars>>

vos_timer_start(q) ==
  /\ At(q, "start")
  /\ fc_timer' = [fc_timer EXCEPT ![VdevOf[q]] = "RUNNING"]
  /\ Goto(q, "flag")
  /\ UNCHANGED <<next, llVars, poolVars, throttleVars, flowVars,
                 netif_stopped, fc_posted, is_txflow_paused>>

hdd_set_txflow_paused(q) ==
  /\ At(q, "flag")
  /\ is_txflow_paused' = [is_txflow_paused EXCEPT ![VdevOf[q]] = TRUE]
  /\ Goto(q, "queue")
  /\ UNCHANGED <<next, llVars, poolVars, throttleVars, flowVars,
                 netif_stopped, fc_timer, fc_posted>>

\* Mutant: the state changes and nothing is posted.
TimerCallbackPostsNothing(v) ==
  /\ fc_timer[v] = "RUNNING" /\ fc_posted[v] < MaxPosts
  /\ fc_timer' = [fc_timer EXCEPT ![v] = "STOPPED"]
  /\ UNCHANGED <<ctx, next, llVars, poolVars, throttleVars, flowVars,
                 netif_stopped, fc_posted, is_txflow_paused>>

\* The expiry is posted to the message thread (a message is always available).
vos_linux_timer_callback(v) ==
  /\ fc_timer[v] = "RUNNING" /\ fc_posted[v] < MaxPosts
  /\ fc_timer' = [fc_timer EXCEPT ![v] = "STOPPED"]
  /\ fc_posted' = [fc_posted EXCEPT ![v] = @ + 1]
  /\ UNCHANGED <<ctx, next, llVars, poolVars, throttleVars, flowVars,
                 netif_stopped, is_txflow_paused>>

\* The queues are woken first, the flag is cleared afterwards.
Wake(v, c) ==
  /\ netif_stopped' = [netif_stopped EXCEPT ![v] = FALSE]
  /\ ctx' = [ctx EXCEPT ![c].pc = "unflag", ![c].v = v]
  /\ UNCHANGED <<next, llVars, poolVars, throttleVars, flowVars,
                 fc_timer, is_txflow_paused>>

\* Mutant: the timer wakes the queues only when TXRX still has the vdev as paused.
TimerExpiredIfPaused(v) ==
  /\ At("mc", "idle") /\ fc_posted[v] > 0
  /\ fc_posted' = [fc_posted EXCEPT ![v] = @ - 1]
  /\ IF os_q_paused[v]
     THEN Wake(v, "mc")
     ELSE UNCHANGED <<ctx, next, llVars, poolVars, throttleVars, flowVars,
                      netif_stopped, fc_timer, is_txflow_paused>>

hdd_tx_resume_timer_expired_handler(v) ==
  /\ At("mc", "idle") /\ fc_posted[v] > 0
  /\ fc_posted' = [fc_posted EXCEPT ![v] = @ - 1]
  /\ Wake(v, "mc")

hdd_clear_txflow_paused ==
  /\ At("mc", "unflag")
  /\ is_txflow_paused' = [is_txflow_paused EXCEPT ![ctx["mc"].v] = FALSE]
  /\ Return("mc")
  /\ UNCHANGED <<next, llVars, poolVars, throttleVars, flowVars,
                 netif_stopped, fc_timer, fc_posted>>

-----------------------------------------------------------------------------
(* TXRX: ol_tx_ll, ol_tx_ll_queue and the pause queue *)

\* ol_tx_ll for one frame: it gets a descriptor and goes to the target, or is
\* rejected because there is none, or fails in HTT/HTC or in the DMA mapping;
\* whoever called it frees a rejected frame.
ol_tx_ll(f) ==
  \/ /\ num_free > 0
     /\ num_free' = num_free - 1 /\ target' = target \cup {f}
     /\ UNCHANGED <<mgmt, freed>>
  \/ /\ freed' = freed \cup {f}
     /\ UNCHANGED <<num_free, target, mgmt>>

\* ol_tx_ll_queue reads paused_reason without the lock.
ol_tx_ll_queue_reason(q) ==
  LET reason == paused_reason[VdevOf[q]] IN
  /\ At(q, "queue")
  /\ ctx' = [ctx EXCEPT
       ![q].pc = IF reason = {} THEN "depth"
                 ELSE IF reason = {"PEER_UNAUTHORIZED"} /\ ctx[q].msdu \in Eapol
                 THEN "send" ELSE "append",
       ![q].b = reason # {} /\ "VDEV_SUSPEND" \notin reason]
  /\ UNCHANGED <<next, llVars, poolVars, throttleVars, flowVars, hddVars>>

\* Not paused: the depth and the throttle level, read without the lock, decide
\* between the queue (n = 1: try to send afterwards) and the target.
ol_tx_ll_queue_depth(q) ==
  LET backlog == txq[VdevOf[q]] # <<>> \/ throttle_level # 0 IN
  /\ At(q, "depth")
  /\ ctx' = [ctx EXCEPT ![q].pc = IF backlog THEN "append" ELSE "send",
                        ![q].n = IF backlog THEN 1 ELSE 0]
  /\ UNCHANGED <<next, llVars, poolVars, throttleVars, flowVars, hddVars>>

ol_tx_ll_queue_send(q) ==
  /\ At(q, "send")
  /\ ol_tx_ll(ctx[q].msdu)
  /\ Return(q)
  /\ UNCHANGED <<next, llVars, throttleVars, flowVars, hddVars>>

\* Mutant: a frame the full queue rejects is given back to nobody.
AppendForgetsRejected(q) ==
  LET v == VdevOf[q] IN
  /\ At(q, "append") /\ Unlocked(v)
  /\ txq' = [txq EXCEPT ![v] = IF Len(@) < max_q_depth THEN Append(@, ctx[q].msdu) ELSE @]
  /\ ll_timer' = [ll_timer EXCEPT ![v] = ctx[q].b]
  /\ IF ctx[q].n = 1
     THEN ctx' = [ctx EXCEPT ![q].pc = "throttle", ![q].msdu = NoFrame, ![q].n = 0]
     ELSE Return(q)
  /\ UNCHANGED <<next, paused_reason, mutex, attached, poolVars,
                 throttleVars, flowVars, hddVars>>

\* A full queue rejects the frame, which HDD then drops.  The timer is
\* cancelled, and restarted only when asked for.
ol_tx_vdev_pause_queue_append(q) ==
  LET v == VdevOf[q]
      f == ctx[q].msdu
      room == Len(txq[v]) < max_q_depth IN
  /\ At(q, "append") /\ Unlocked(v)
  /\ txq' = [txq EXCEPT ![v] = IF room THEN Append(@, f) ELSE @]
  /\ freed' = IF room THEN freed ELSE freed \cup {f}
  /\ ll_timer' = [ll_timer EXCEPT ![v] = ctx[q].b]
  /\ IF ctx[q].n = 1
     THEN ctx' = [ctx EXCEPT ![q].pc = "throttle", ![q].msdu = NoFrame, ![q].n = 0]
     ELSE Return(q)
  /\ UNCHANGED <<next, paused_reason, mutex, attached, num_free, target, mgmt,
                 throttleVars, flowVars, hddVars>>

\* The throttle as the callers of ol_tx_vdev_ll_pause_queue_send_base test it.
MaySend == throttle_level = 0 \/ throttle_phase = "ON"

CheckThrottle(c) ==
  /\ At(c, "throttle")
  /\ IF MaySend THEN Goto(c, "base") ELSE Return(c)
  /\ UNCHANGED <<next, llVars, poolVars, throttleVars, flowVars, hddVars>>

margin(v) ==
  IF tx_fl_lwm[v] > SendMargin THEN tx_fl_lwm[v] - SendMargin ELSE tx_fl_lwm[v]

\* Mutant: the timer is not restarted for what the budget leaves behind.
SendBaseLoopNoTimer(c, budget) ==
  LET v == ctx[c].v IN
  IF budget > 0 /\ txq[v] # <<>>
  THEN /\ mutex' = [mutex EXCEPT ![v] = c]
       /\ txq' = [txq EXCEPT ![v] = Tail(@)]
       /\ ctx' = [ctx EXCEPT ![c] = [@ EXCEPT !.pc = "tx", !.msdu = Head(txq[v]),
                                              !.n = budget - 1]]
       /\ UNCHANGED ll_timer
  ELSE /\ mutex' = [mutex EXCEPT ![v] = Nobody]
       /\ Return(c)
       /\ UNCHANGED <<txq, ll_timer>>

\* Mutant: the lock is released around ol_tx_ll.
SendBaseLoopUnlocked(c, budget) ==
  LET v == ctx[c].v IN
  /\ mutex' = [mutex EXCEPT ![v] = Nobody]
  /\ IF budget > 0 /\ txq[v] # <<>>
     THEN /\ txq' = [txq EXCEPT ![v] = Tail(@)]
          /\ ctx' = [ctx EXCEPT ![c] = [@ EXCEPT !.pc = "tx", !.msdu = Head(txq[v]),
                                                 !.n = budget - 1]]
          /\ UNCHANGED ll_timer
     ELSE /\ ll_timer' = [ll_timer EXCEPT ![v] = @ \/ txq[v] # <<>>]
          /\ Return(c)
          /\ UNCHANGED txq

\* The loop of ol_tx_vdev_ll_pause_queue_send_base, the lock held: the next
\* frame is taken off the queue (the depth goes down before the frame is sent),
\* or the timer is restarted for what is left and the lock released.
SendBaseLoop(c, budget) ==
  LET v == ctx[c].v IN
  IF budget > 0 /\ txq[v] # <<>>
  THEN /\ mutex' = [mutex EXCEPT ![v] = c]
       /\ txq' = [txq EXCEPT ![v] = Tail(@)]
       /\ ctx' = [ctx EXCEPT ![c] = [@ EXCEPT !.pc = "tx", !.msdu = Head(txq[v]),
                                              !.n = budget - 1]]
       /\ UNCHANGED ll_timer
  ELSE /\ mutex' = [mutex EXCEPT ![v] = Nobody]
       /\ ll_timer' = [ll_timer EXCEPT ![v] = @ \/ txq[v] # <<>>]
       /\ Return(c)
       /\ UNCHANGED txq

\* Mutant: paused_reason is not looked at again under the lock.
SendBaseLockUnguarded(c) ==
  /\ At(c, "base") /\ Unlocked(ctx[c].v)
  /\ SendBaseLoop(c, num_free - margin(ctx[c].v))
  /\ UNCHANGED <<next, paused_reason, attached,
                 poolVars, throttleVars, flowVars, hddVars>>

\* Entry: lock, look at paused_reason, fix how many frames may go.
SendBaseLock(c) ==
  LET v == ctx[c].v IN
  /\ At(c, "base") /\ Unlocked(v)
  /\ IF paused_reason[v] # {}
     THEN Return(c) /\ UNCHANGED <<txq, ll_timer, mutex>>
     ELSE SendBaseLoop(c, num_free - margin(v))
  /\ UNCHANGED <<next, paused_reason, attached,
                 poolVars, throttleVars, flowVars, hddVars>>

SendBaseTx(c) ==
  /\ At(c, "tx")
  /\ ol_tx_ll(ctx[c].msdu)
  /\ SendBaseLoop(c, ctx[c].n)
  /\ UNCHANGED <<next, paused_reason, attached, throttleVars, flowVars, hddVars>>

\* The timer of the pause queue.
ol_tx_vdev_ll_pause_queue_send(v) ==
  /\ At(v, "idle") /\ ll_timer[v]
  /\ ll_timer' = [ll_timer EXCEPT ![v] = FALSE]
  /\ IF MaySend THEN Goto(v, "base") ELSE UNCHANGED ctx
  /\ UNCHANGED <<next, paused_reason, txq, mutex, attached,
                 poolVars, throttleVars, flowVars, hddVars>>

-----------------------------------------------------------------------------
(* TXRX: pausing, unpausing, flushing and detaching a vdev *)

ol_txrx_vdev_pause(v, r) ==
  /\ At("ctl", "idle") /\ attached[v] /\ Unlocked(v)
  /\ paused_reason' = [paused_reason EXCEPT ![v] = @ \cup {r}]
  /\ UNCHANGED <<ctx, next, txq, ll_timer, mutex, attached,
                 poolVars, throttleVars, flowVars, hddVars>>

\* The backlog is sent when the last reason goes; after a suspend only the
\* timer is started, in a second critical section.
ol_txrx_vdev_unpause(v, R) ==
  LET left == paused_reason[v] \ R
      label == IF R = {"VDEV_SUSPEND"} THEN "restart"
               ELSE IF left = {} THEN "throttle" ELSE "idle" IN
  /\ At("ctl", "idle") /\ attached[v] /\ Unlocked(v) /\ R \cap paused_reason[v] # {}
  /\ paused_reason' = [paused_reason EXCEPT ![v] = left]
  /\ ctx' = [ctx EXCEPT !["ctl"].v = IF label = "idle" THEN @ ELSE v, !["ctl"].pc = label]
  /\ UNCHANGED <<next, txq, ll_timer, mutex, attached,
                 poolVars, throttleVars, flowVars, hddVars>>

ol_tx_vdev_ll_pause_start_timer ==
  LET v == ctx["ctl"].v IN
  /\ At("ctl", "restart") /\ Unlocked(v)
  /\ ll_timer' = [ll_timer EXCEPT ![v] = @ \/ txq[v] # <<>>]
  /\ Return("ctl")
  /\ UNCHANGED <<next, paused_reason, txq, mutex, attached,
                 poolVars, throttleVars, flowVars, hddVars>>

ol_txrx_vdev_flush(v) ==
  /\ MayFlush /\ At("ctl", "idle") /\ attached[v] /\ Unlocked(v)
  /\ ll_timer' = [ll_timer EXCEPT ![v] = FALSE]
  /\ freed' = freed \cup Range(txq[v])
  /\ txq' = [txq EXCEPT ![v] = <<>>]
  /\ UNCHANGED <<ctx, next, paused_reason, mutex, attached, num_free, target, mgmt,
                 throttleVars, flowVars, hddVars>>

\* ol_txrx_vdev_detach takes the lock and cancels the timer; adf_os_timer_free
\* then waits, with the lock held, for a running callback to end.  HDD has
\* stopped sending through the vdev.
DetachLock(v) ==
  /\ MayDetach /\ At("ctl", "idle") /\ attached[v] /\ Unlocked(v)
  /\ \A q \in Queues : VdevOf[q] = v => At(q, "idle")
  /\ mutex' = [mutex EXCEPT ![v] = "ctl"]
  /\ ll_timer' = [ll_timer EXCEPT ![v] = FALSE]
  /\ ctx' = [ctx EXCEPT !["ctl"].pc = "timerfree", !["ctl"].v = v]
  /\ UNCHANGED <<next, paused_reason, txq, attached,
                 poolVars, throttleVars, flowVars, hddVars>>

adf_os_timer_free ==
  LET v == ctx["ctl"].v IN
  /\ At("ctl", "timerfree") /\ At(v, "idle")
  /\ freed' = freed \cup Range(txq[v])
  /\ txq' = [txq EXCEPT ![v] = <<>>]
  /\ mutex' = [mutex EXCEPT ![v] = Nobody]
  /\ attached' = [attached EXCEPT ![v] = FALSE]
  /\ Return("ctl")
  /\ UNCHANGED <<next, paused_reason, ll_timer, num_free, target, mgmt,
                 throttleVars, flowVars, hddVars>>

-----------------------------------------------------------------------------
(* TXRX: the throttle *)

\* ol_tx_throttle_set_level: the level and the phase, then the timer; no lock
\* is taken.
ol_tx_throttle_set_level(l) ==
  /\ At("ctl", "idle")
  /\ throttle_level' = l /\ throttle_phase' = "OFF"
  /\ Goto("ctl", "setlevel")
  /\ UNCHANGED <<next, llVars, poolVars, phase_timer, tx_timer, flowVars, hddVars>>

ThrottleRestartPhase ==
  /\ At("ctl", "setlevel")
  /\ phase_timer' = TRUE
  /\ Return("ctl")
  /\ UNCHANGED <<next, llVars, poolVars, throttle_level, throttle_phase, tx_timer,
                 flowVars, hddVars>>

\* Walking pdev->vdev_list: the places of the vdevs still on it, and of those
\* behind a vdev.
OnList == {i \in DOMAIN vdev_list : attached[vdev_list[i]]}
Behind(v) == {i \in OnList : \E j \in DOMAIN vdev_list : j < i /\ vdev_list[j] = v}
FirstVdev == vdev_list[Min(OnList)]
NextVdev(v) == vdev_list[Min(Behind(v))]
IsLast(v) == Behind(v) = {}

\* The first round of ol_tx_pdev_ll_pause_queue_send_all, with its budget.
StartRounds(c) ==
  ctx' = [ctx EXCEPT ![c].pc = "round", ![c].n = tx_threshold, ![c].v = FirstVdev]

\* The other phase.  ON: the backlog is sent first.  The timer is restarted
\* unless the level is 0.
ol_tx_pdev_throttle_phase_timer ==
  LET on == throttle_phase = "OFF" IN
  /\ At("phase", "idle") /\ phase_timer
  /\ throttle_phase' = IF on THEN "ON" ELSE "OFF"
  /\ IF on /\ OnList # {}
     THEN StartRounds("phase") /\ phase_timer' = FALSE
     ELSE UNCHANGED ctx /\ phase_timer' = (throttle_level # 0)
  /\ UNCHANGED <<next, llVars, poolVars, throttle_level, tx_timer, flowVars, hddVars>>

\* In the OFF phase ol_tx_pdev_ll_pause_queue_send_all returns at once.
ol_tx_pdev_throttle_tx_timer ==
  /\ At("tx", "idle") /\ tx_timer
  /\ tx_timer' = FALSE
  /\ IF throttle_phase = "ON" /\ OnList # {} THEN StartRounds("tx") ELSE UNCHANGED ctx
  /\ UNCHANGED <<next, llVars, poolVars, throttle_level, throttle_phase, phase_timer,
                 flowVars, hddVars>>

\* The next vdev of the round; after the last one another round, if some vdev
\* has more and the budget is not zero, or the look for a backlog.
Advance(c, budget, more) ==
  LET v == ctx[c].v
      again == more /\ budget # 0 IN
  ctx' = [ctx EXCEPT ![c] =
            IF ~IsLast(v)
            THEN [@ EXCEPT !.pc = "round", !.v = NextVdev(v), !.n = budget, !.b = more,
                           !.msdu = NoFrame]
            ELSE [@ EXCEPT !.pc = IF again THEN "round" ELSE "backlog",
                           !.v = IF OnList = {} THEN v ELSE FirstVdev,
                           !.n = budget, !.b = FALSE, !.msdu = NoFrame]]

\* One vdev of a round: an empty queue or a paused vdev is passed over.
SendAllDequeue(c) ==
  LET v == ctx[c].v IN
  /\ At(c, "round") /\ Unlocked(v)
  /\ IF txq[v] = <<>> \/ paused_reason[v] # {}
     THEN Advance(c, ctx[c].n, ctx[c].b) /\ UNCHANGED <<txq, mutex>>
     ELSE /\ mutex' = [mutex EXCEPT ![v] = c]
          /\ txq' = [txq EXCEPT ![v] = Tail(@)]
          /\ ctx' = [ctx EXCEPT ![c] = [@ EXCEPT !.pc = "roundtx", !.n = ctx[c].n - 1,
                                                 !.msdu = Head(txq[v])]]
  /\ UNCHANGED <<next, paused_reason, ll_timer, attached,
                 poolVars, throttleVars, flowVars, hddVars>>

SendAllTx(c) ==
  LET v == ctx[c].v IN
  /\ At(c, "roundtx")
  /\ ol_tx_ll(ctx[c].msdu)
  /\ mutex' = [mutex EXCEPT ![v] = Nobody]
  /\ Advance(c, ctx[c].n, ctx[c].b \/ txq[v] # <<>>)
  /\ UNCHANGED <<next, paused_reason, txq, ll_timer, attached,
                 throttleVars, flowVars, hddVars>>

\* The first vdev with a backlog, paused or not, restarts the timer; then the
\* phase timer's callback restarts its own.
SendAllBacklog(c) ==
  LET v == ctx[c].v
      backlog == txq[v] # <<>>
      done == backlog \/ IsLast(v) IN
  /\ At(c, "backlog") /\ Unlocked(v)
  /\ tx_timer' = (tx_timer \/ backlog)
  /\ phase_timer' = (phase_timer \/ (done /\ c = "phase" /\ throttle_level # 0))
  /\ IF done THEN Return(c) ELSE ctx' = [ctx EXCEPT ![c].v = NextVdev(v)]
  /\ UNCHANGED <<next, llVars, poolVars, throttle_level, throttle_phase,
                 flowVars, hddVars>>

-----------------------------------------------------------------------------
(* TXRX: the target's completions *)

\* ol_tx_completion_handler gives the frames back and their descriptors to the
\* pool, then looks at the vdevs whose OS queue may be stopped.
ol_tx_completion_handler(S) ==
  /\ At("cpl", "idle")
  /\ target' = target \ S /\ num_free' = num_free + Cardinality(S)
  /\ freed' = freed \cup S
  /\ IF low_watermark # 0 /\ OnList # {}
     THEN ctx' = [ctx EXCEPT !["cpl"].pc = "unpause", !["cpl"].v = FirstVdev]
     ELSE UNCHANGED ctx
  /\ UNCHANGED <<next, mgmt, llVars, throttleVars, flowVars, hddVars>>

\* A management frame takes a descriptor, whatever is paused or stopped, if
\* there is one.
ol_txrx_mgmt_send ==
  /\ num_free > 0 /\ mgmt < MaxMgmt
  /\ num_free' = num_free - 1 /\ mgmt' = mgmt + 1
  /\ UNCHANGED <<ctx, next, target, freed, llVars, throttleVars, flowVars, hddVars>>

\* Its completion frees the descriptor and looks at no vdev.
ol_tx_single_completion_handler ==
  /\ At("cpl", "idle") /\ mgmt > 0
  /\ num_free' = num_free + 1 /\ mgmt' = mgmt - 1
  /\ UNCHANGED <<ctx, next, target, freed, llVars, throttleVars, flowVars, hddVars>>

UnpauseNext ==
  LET v == ctx["cpl"].v IN
  IF IsLast(v) THEN Return("cpl")
  ELSE ctx' = [ctx EXCEPT !["cpl"].pc = "unpause", !["cpl"].v = NextVdev(v)]

\* OL_TX_FLOW_CT_UNPAUSE_OS_Q, one vdev of its loop.
OL_TX_FLOW_CT_UNPAUSE_OS_Q ==
  LET v == ctx["cpl"].v
      enough == /\ attached[v] /\ os_q_paused[v] /\ tx_fl_lwm[v] # 0
                /\ num_free > tx_fl_lwm[v] + high_watermark_offset IN
  /\ At("cpl", "unpause")
  /\ IF enough THEN Goto("cpl", "resume") ELSE UnpauseNext
  /\ os_q_paused' = [os_q_paused EXCEPT ![v] = @ /\ ~enough]
  /\ UNCHANGED <<next, llVars, poolVars, throttleVars, tx_fl_lwm, hddVars>>

\* WLANTL_TXFlowControlCb calls hdd_tx_resume_cb: stop the timer, wake the
\* queues, clear the flag.
vos_timer_stop ==
  LET v == ctx["cpl"].v IN
  /\ At("cpl", "resume")
  /\ fc_timer' = [fc_timer EXCEPT ![v] = "STOPPED"]
  /\ Goto("cpl", "wake")
  /\ UNCHANGED <<next, llVars, poolVars, throttleVars, flowVars,
                 netif_stopped, fc_posted, is_txflow_paused>>

hdd_tx_resume_cb ==
  /\ At("cpl", "wake") /\ Wake(ctx["cpl"].v, "cpl") /\ UNCHANGED fc_posted

hdd_tx_resume_cb_flag ==
  /\ At("cpl", "unflag")
  /\ is_txflow_paused' = [is_txflow_paused EXCEPT ![ctx["cpl"].v] = FALSE]
  /\ UnpauseNext
  /\ UNCHANGED <<next, llVars, poolVars, throttleVars, flowVars,
                 netif_stopped, fc_timer, fc_posted>>

-----------------------------------------------------------------------------
(* What a context does once it has started *)

XmitStep(q) ==
  \/ ol_txrx_get_tx_resource(q) \/ wlan_hdd_netif_queue_stop(q)
  \/ vos_timer_getCurrentState(q) \/ vos_timer_start(q) \/ hdd_set_txflow_paused(q)
  \/ ol_tx_ll_queue_reason(q) \/ ol_tx_ll_queue_depth(q) \/ ol_tx_ll_queue_send(q)
  \/ ol_tx_vdev_pause_queue_append(q)

DrainStep(c) ==
  \/ CheckThrottle(c) \/ SendBaseLock(c) \/ SendBaseTx(c)

SendAllStep(c) ==
  \/ SendAllDequeue(c) \/ SendAllTx(c) \/ SendAllBacklog(c)

CtlStep ==
  \/ ol_tx_vdev_ll_pause_start_timer \/ adf_os_timer_free \/ ThrottleRestartPhase

ResumeStep ==
  \/ OL_TX_FLOW_CT_UNPAUSE_OS_Q \/ vos_timer_stop
  \/ hdd_tx_resume_cb \/ hdd_tx_resume_cb_flag

Control ==
  \/ \E v \in Vdevs, r \in Reasons : ol_txrx_vdev_pause(v, r)
  \/ \E v \in Vdevs, R \in {{r} : r \in Reasons} \cup {Reasons} : ol_txrx_vdev_unpause(v, R)
  \/ \E v \in Vdevs : ol_txrx_vdev_flush(v)
  \/ \E v \in Vdevs : DetachLock(v)
  \/ \E l \in Levels : ol_tx_throttle_set_level(l)

Completion ==
  \/ \E S \in SUBSET target \ {{}} : ol_tx_completion_handler(S)
  \/ ol_tx_single_completion_handler

Next ==
  \/ \E q \in Queues : hdd_hard_start_xmit(q) \/ XmitStep(q)
  \/ \E c \in Queues \cup Vdevs \cup {"ctl"} : DrainStep(c)
  \/ \E c \in {"phase", "tx"} : SendAllStep(c)
  \/ \E v \in Vdevs :
       \/ ol_tx_vdev_ll_pause_queue_send(v)
       \/ vos_linux_timer_callback(v)
       \/ hdd_tx_resume_timer_expired_handler(v)
  \/ hdd_clear_txflow_paused
  \/ ol_tx_pdev_throttle_phase_timer \/ ol_tx_pdev_throttle_tx_timer
  \/ Control \/ CtlStep
  \/ ol_txrx_mgmt_send \/ Completion \/ ResumeStep

Spec == Init /\ [][Next]_vars

\* A context that has started goes on, timers expire, the message thread runs
\* and the target completes what it owns.  Nothing is assumed of the stack or
\* of the control thread's decisions.
Fairness ==
  /\ \A q \in Queues : WF_vars(XmitStep(q) \/ DrainStep(q))
  /\ \A v \in Vdevs :
       /\ WF_vars(ol_tx_vdev_ll_pause_queue_send(v) \/ DrainStep(v))
       /\ WF_vars(vos_linux_timer_callback(v))
       /\ WF_vars(hdd_tx_resume_timer_expired_handler(v))
  /\ WF_vars(hdd_clear_txflow_paused)
  /\ WF_vars(ol_tx_pdev_throttle_phase_timer \/ SendAllStep("phase"))
  /\ WF_vars(ol_tx_pdev_throttle_tx_timer \/ SendAllStep("tx"))
  /\ WF_vars(CtlStep \/ DrainStep("ctl"))
  /\ WF_vars(Completion \/ ResumeStep)

FairSpec == Spec /\ Fairness

-----------------------------------------------------------------------------
(* Properties *)

Labels == {"idle", "resource", "stop", "timer", "start", "flag", "queue", "depth", "send",
           "append", "throttle", "base", "tx", "restart", "timerfree", "setlevel",
           "round", "roundtx", "backlog", "unpause", "resume", "wake",
           "unflag"}

TypeOK ==
  /\ ctx \in [Contexts -> [pc : Labels, v : Vdevs, msdu : Frames \cup {NoFrame},
                          n : Int, b : BOOLEAN]]
  /\ next \in [Queues -> Nat]
  /\ paused_reason \in [Vdevs -> SUBSET PauseReasons]
  /\ txq \in [Vdevs -> Seq(Frames)]
  /\ ll_timer \in [Vdevs -> BOOLEAN] /\ attached \in [Vdevs -> BOOLEAN]
  /\ os_q_paused \in [Vdevs -> BOOLEAN] /\ netif_stopped \in [Vdevs -> BOOLEAN]
  /\ is_txflow_paused \in [Vdevs -> BOOLEAN]
  /\ mutex \in [Vdevs -> Contexts \cup {Nobody}]
  /\ num_free \in Int /\ mgmt \in Nat /\ target \subseteq Frames /\ freed \subseteq Frames
  /\ throttle_level \in 0..3 /\ throttle_phase \in {"OFF", "ON"}
  /\ phase_timer \in BOOLEAN /\ tx_timer \in BOOLEAN
  /\ tx_fl_lwm \in [Vdevs -> Nat]
  /\ fc_timer \in [Vdevs -> {"STOPPED", "RUNNING"}] /\ fc_posted \in [Vdevs -> Nat]

\* Every frame the stack handed over is in exactly one place: in the hands of
\* one context, once in one pause queue, with the target, or given back; and
\* every descriptor is free or with a frame of the target.
FramesConserved ==
  /\ \A f \in Frames :
       Cardinality({c \in Contexts : ctx[c].msdu = f})
         + Cardinality({p \in Vdevs \X (1..max_q_depth) :
                          p[2] \in DOMAIN txq[p[1]] /\ txq[p[1]][p[2]] = f})
         + (IF f \in target THEN 1 ELSE 0) + (IF f \in freed THEN 1 ELSE 0)
       = IF f[2] <= next[f[1]] THEN 1 ELSE 0
  /\ num_free + Cardinality(target) + mgmt = PoolSize
  /\ \A v \in Vdevs : Len(txq[v]) <= max_q_depth

\* Once ol_txrx_vdev_pause has returned, no drain of the queue (a timer, an
\* unpause, another frame) reaches the target: the only frames that still do
\* are those whose own sender read paused_reason earlier.
PauseHonoured ==
  [][\A f \in target' \ target :
       paused_reason[VdevOf[f[1]]] # {} => At(f[1], "send") /\ ctx[f[1]].msdu = f]_vars

\* EAPOL and WAPI frames apart, which may pass, a frame overtakes an older one
\* of its OS queue in one case only: a drainer has taken the older one off the
\* pause queue and not sent it yet, and the sender of the newer one read depth
\* 0 without the lock.  Two drainers never swap frames, whoever they are.
OvertakenInHand ==
  [][\A f \in (target' \ target) \ Eapol, g \in Frames :
       g[1] = f[1] /\ g[2] < f[2] /\ g \notin target \cup freed =>
         /\ At(f[1], "send") /\ ctx[f[1]].msdu = f
         /\ \E c \in Contexts \ {f[1]} : ctx[c].msdu = g /\ mutex[VdevOf[f[1]]] = c]_vars

\* A vdev that stays unpaused does not keep a backlog for ever.
BacklogServed ==
  \A v \in Vdevs : []<>(txq[v] = <<>> \/ paused_reason[v] # {})

\* When the OS queues are stopped for flow control someone is bound to wake
\* them: the timer runs, its expiry is posted, a sender is about to start it,
\* or the resume callback has stopped it and is about to wake them.
WakeOwed ==
  \A v \in Vdevs : netif_stopped[v] =>
    \/ fc_timer[v] = "RUNNING" \/ fc_posted[v] > 0
    \/ \E q \in Queues : VdevOf[q] = v /\ ctx[q].pc \in {"timer", "start"}
    \/ At("cpl", "wake") /\ ctx["cpl"].v = v

\* "to prevent permanent stall": stopped OS queues are woken.
StoppedQueueWoken ==
  \A v \in Vdevs : netif_stopped[v] ~> ~netif_stopped[v]

\* "caller must not hold any lock that timer function is likely to hold as
\* well": the detach does not wait for a callback that waits for its lock.
NoTimerDeadlock ==
  \A v \in Vdevs :
    ~(At("ctl", "timerfree") /\ ctx["ctl"].v = v /\ At(v, "base"))
=============================================================================
