----------------------------- MODULE CopyEngine -----------------------------
(***************************************************************************)
(* Two copy engines of the PCIe HIF (CORE/SERVICES/HIF/PCIe/copy_engine.c, *)
(* if_pci.c): "src", whose source ring sends to the target, and "dest",    *)
(* whose destination ring receives from it.  The rings are shared by the   *)
(* host's senders, the target's DMA and wlan_tasklet, which the legacy     *)
(* PCI line interrupt schedules and which services both engines.  At the   *)
(* end HIFStop takes back what the target did not finish.                  *)
(*                                                                         *)
(* One step is one section under target_lock, or one register access       *)
(* outside it.  The target (external) advances its read index and raises   *)
(* the interrupt in one step; a receive descriptor is written in a later   *)
(* one, the race CE_completed_recv_next_nolock guards against.             *)
(***************************************************************************)
EXTENDS Integers, Sequences, FiniteSets

CONSTANTS
    RingSizes,   \* nentries of the source and of the destination ring, powers of 2
    MaxItems,    \* items of the longest sendlist
    MaxForeign,  \* interrupts of other devices on the same line
    MAX_NUM_OF_RECEIVES,
    CE_TXRX_COMP_CHECK_THRESHOLD

ASSUME RingAssumption ==
    /\ RingSizes \subseteq [src: Nat \ {0}, dest: Nat \ {0}]
    /\ MaxItems \in Nat \ {0} /\ MaxForeign \in Nat
    /\ MAX_NUM_OF_RECEIVES \in Nat /\ CE_TXRX_COMP_CHECK_THRESHOLD \in Nat

VARIABLES
    src_ring,    \* nentries, sw_index, cached hw_index, write_index, per_transfer_context
    dest_ring,   \* nentries, sw_index, write_index, per_transfer_context
    srcReg,      \* write-index and read-index register of the source ring
    destReg,     \* read-index register of the destination ring (DRRI)
    nbytes,      \* the receive descriptors whose length is not 0
    status,      \* the engines whose copy-complete interrupt is pending
    enabled,     \* PCIE_INTR_ENABLE
    scheduled,   \* intr_tq is scheduled
    tasklet_from_intr,
    rx_pending,  \* the engines with CE_state->rx_pending set
    pc, ce, todo,      \* wlan_tasklet: step, engine, engines left to service
    receive_count, more_comp_cnt,
    foreign,     \* interrupts of other devices so far
    logged,      \* "Potential infinite loop detected during send completion"
    in_progress, \* a load, an unload or a restart of the driver is in progress
    gaveUp,      \* the tasklet's last run logged that, with engines rx_pending
    reset,       \* ce_target_reset was called
    hif          \* "up", "cleanup" once HIFStop runs

rings   == <<src_ring, dest_ring, srcReg, destReg, nbytes>>
irq     == <<enabled, scheduled, tasklet_from_intr>>
service == <<pc, ce, todo, receive_count, more_comp_cnt>>
ghosts  == <<foreign, logged, in_progress, gaveUp, reset, hif>>
vars    == <<rings, status, irq, rx_pending, service, ghosts>>

Engines == {"src", "dest"}
NoContext == 0
CE_SENDLIST_ITEM_CTXT == -1
Contexts == UNION {(1..n.src) \cup (1..n.dest) : n \in RingSizes}

(* Buffers are distinct and used in turn. *)
Buffer(write_index) == write_index + 1

Init ==
    /\ \E n \in RingSizes :
         /\ src_ring = [nentries |-> n.src, sw_index |-> 0, hw_index |-> 0, write_index |-> 0,
                        ctx |-> [i \in 0..(n.src - 1) |-> NoContext]]
         /\ dest_ring = [nentries |-> n.dest, sw_index |-> 0, write_index |-> 0,
                         ctx |-> [i \in 0..(n.dest - 1) |-> NoContext]]
    /\ srcReg = [write |-> 0, read |-> 0] /\ destReg = 0 /\ nbytes = {}
    /\ status = {} /\ enabled = TRUE /\ scheduled = FALSE /\ tasklet_from_intr = FALSE
    /\ rx_pending = {}
    /\ pc = "idle" /\ ce = "src" /\ todo = {} /\ receive_count = 0 /\ more_comp_cnt = 0
    /\ foreign = 0 /\ logged = FALSE /\ reset = FALSE /\ hif = "up"
    /\ in_progress = TRUE /\ gaveUp = FALSE

-----------------------------------------------------------------------------
(* Ring arithmetic; n is the number of entries.                            *)

CE_RING_DELTA(n, from, to) == (to - from) % n

CE_RING_IDX_INCR(n, idx) == (idx + 1) % n

(* Mutant: the last free entry is used too, so a full ring looks empty. *)
SrcRoomLast == CE_RING_DELTA(src_ring.nentries, src_ring.write_index + 1, src_ring.sw_index) + 1

SrcRoom  == CE_RING_DELTA(src_ring.nentries, src_ring.write_index, src_ring.sw_index - 1)
DestRoom == CE_RING_DELTA(dest_ring.nentries, dest_ring.write_index, dest_ring.sw_index - 1)

CE_send_entries_done_nolock == CE_RING_DELTA(src_ring.nentries, src_ring.sw_index, srcReg.read)
CE_recv_entries_done_nolock == CE_RING_DELTA(dest_ring.nentries, dest_ring.sw_index, destReg)

-----------------------------------------------------------------------------
(* Posting                                                                 *)

(* Until HIFStop or a reset of the target. *)
Started == hif # "cleanup" /\ ~reset

(* CE_send_nolock, called for each item: the context it leaves in entry i. *)
CE_send_nolock(num_items, i) ==
    LET item == CE_RING_DELTA(src_ring.nentries, src_ring.write_index, i)
    IN  IF item < num_items - 1 THEN CE_SENDLIST_ITEM_CTXT
        ELSE IF item = num_items - 1 THEN Buffer(i) ELSE src_ring.ctx[i]

(* All items, the last with the caller's context, or none; the register    *)
(* follows the index with the last item only, the others being gather ones. *)
CE_sendlist_send(num_items) ==
    LET write_index == (src_ring.write_index + num_items) % src_ring.nentries
    IN /\ Started
       /\ SrcRoom >= num_items
       /\ src_ring' = [src_ring EXCEPT
                          !.ctx = [i \in DOMAIN src_ring.ctx |-> CE_send_nolock(num_items, i)],
                          !.write_index = write_index]
       /\ srcReg' = [srcReg EXCEPT !.write = write_index]
       /\ UNCHANGED <<dest_ring, destReg, nbytes, status, irq, rx_pending,
                      service, ghosts>>

CE_recv_buf_enqueue ==
    /\ Started
    /\ DestRoom > 0
    /\ dest_ring' = [dest_ring EXCEPT !.ctx[dest_ring.write_index] = Buffer(dest_ring.write_index),
                                      !.write_index = CE_RING_IDX_INCR(dest_ring.nentries, @)]
    /\ nbytes' = nbytes \ {dest_ring.write_index}
    /\ UNCHANGED <<src_ring, srcReg, destReg, status, irq, rx_pending,
                   service, ghosts>>

-----------------------------------------------------------------------------
(* The target (external): it works until HIFStop cleans up.                *)

TargetSent ==
    /\ Started /\ srcReg.read # srcReg.write
    /\ srcReg' = [srcReg EXCEPT !.read = CE_RING_IDX_INCR(src_ring.nentries, @)]
    /\ status' = IF src_ring.ctx[srcReg.read] = CE_SENDLIST_ITEM_CTXT THEN status
                 ELSE status \cup {"src"}
    /\ UNCHANGED <<src_ring, dest_ring, destReg, nbytes, irq, rx_pending,
                   service, ghosts>>

(* The descriptor before destReg is still to be written. *)
Unwritten ==
    /\ destReg # dest_ring.sw_index
    /\ CE_RING_DELTA(dest_ring.nentries, 1, destReg) \notin nbytes

TargetReceived ==
    /\ Started /\ destReg # dest_ring.write_index /\ ~Unwritten
    /\ destReg' = CE_RING_IDX_INCR(dest_ring.nentries, destReg)
    /\ status' = status \cup {"dest"}
    /\ UNCHANGED <<src_ring, dest_ring, srcReg, nbytes, irq, rx_pending,
                   service, ghosts>>

TargetWrites ==
    /\ Started /\ Unwritten
    /\ nbytes' = nbytes \cup {CE_RING_DELTA(dest_ring.nentries, 1, destReg)}
    /\ UNCHANGED <<src_ring, dest_ring, srcReg, destReg, status, irq,
                   rx_pending, service, ghosts>>

-----------------------------------------------------------------------------
(* The interrupt handler.                                                  *)

hif_pci_interrupt_handler ==
    /\ hif = "up" /\ ~reset
    /\ enabled' = FALSE /\ tasklet_from_intr' = TRUE /\ scheduled' = TRUE
    /\ UNCHANGED <<rings, status, rx_pending, service, logged, in_progress, gaveUp, reset,
                   hif>>

(* The line is asserted by this device, or by another one (IRQF_SHARED). *)
Interrupt ==
    /\ enabled /\ status # {}
    /\ hif_pci_interrupt_handler /\ UNCHANGED foreign
SharedInterrupt ==
    /\ foreign < MaxForeign /\ foreign' = foreign + 1
    /\ hif_pci_interrupt_handler

-----------------------------------------------------------------------------
(* wlan_tasklet and CE_per_engine_service_any.                             *)

Goto(step) == pc' = step /\ UNCHANGED <<ce, todo, receive_count, more_comp_cnt>>

(* The counts are reset by the next service and not read before. *)
LeaveService ==
    /\ pc' = "next" /\ ce' = "src" /\ receive_count' = 0 /\ more_comp_cnt' = 0
    /\ UNCHANGED todo

CE_per_engine_service_any ==
    /\ pc = "idle" /\ scheduled /\ ~reset
    /\ scheduled' = FALSE /\ gaveUp' = FALSE
    /\ IF tasklet_from_intr THEN todo' = status /\ UNCHANGED rx_pending
                            ELSE todo' = rx_pending /\ rx_pending' = {}
    /\ pc' = "next"
    /\ UNCHANGED <<rings, status, enabled, tasklet_from_intr, ce, receive_count, more_comp_cnt,
                   foreign, logged, in_progress, reset, hif>>

(* The order of the engines depends on their numbers: either is possible.  *)
StartService ==
    /\ pc = "next"
    /\ \E e \in todo :
         /\ ce' = e /\ todo' = todo \ {e}
         /\ pc' = IF e = "dest" THEN "recv" ELSE "send"
    /\ UNCHANGED <<rings, status, irq, rx_pending, receive_count, more_comp_cnt, ghosts>>

(* CE_completed_recv_next_nolock, called by CE_per_engine_service and by   *)
(* HIF_PCI_CE_recv_data, whose count of receives may force a break.        *)
CE_completed_recv_next ==
    LET i == dest_ring.sw_index IN
    /\ pc = "recv"
    /\ IF i \notin nbytes
         THEN Goto("clear") /\ UNCHANGED rings
         ELSE /\ nbytes' = nbytes \ {i}
              /\ dest_ring' = [dest_ring EXCEPT !.ctx[i] = NoContext,
                                                !.sw_index = CE_RING_IDX_INCR(dest_ring.nentries, i)]
              /\ receive_count' = receive_count + 1
              /\ pc' = IF receive_count' > MAX_NUM_OF_RECEIVES THEN "break" ELSE "recv"
              /\ UNCHANGED <<src_ring, srcReg, destReg, ce, todo, more_comp_cnt>>
    /\ UNCHANGED <<status, irq, rx_pending, ghosts>>

(* Mutant: the break does not mark the engine. *)
ForceBreakForgets ==
    /\ pc = "break"
    /\ status' = status \ {ce}
    /\ LeaveService
    /\ UNCHANGED <<rings, irq, rx_pending, ghosts>>

ForceBreak ==
    /\ pc = "break"
    /\ rx_pending' = rx_pending \cup {ce} /\ status' = status \ {ce}
    /\ LeaveService
    /\ UNCHANGED <<rings, irq, ghosts>>

(* The register is read only when the cached index is used up. *)
CE_completed_send_next ==
    LET i  == src_ring.sw_index
        hw == IF src_ring.hw_index = i THEN srcReg.read ELSE src_ring.hw_index
    IN /\ pc = "send"
       /\ IF hw = i
            THEN Goto("clear") /\ UNCHANGED rings
            ELSE /\ src_ring' = [src_ring EXCEPT !.ctx[i] = NoContext, !.hw_index = hw,
                                                 !.sw_index = CE_RING_IDX_INCR(src_ring.nentries, i)]
                 /\ UNCHANGED <<dest_ring, srcReg, destReg, nbytes, service>>
       /\ UNCHANGED <<status, irq, rx_pending, ghosts>>

(* Mutant: no recheck after the interrupt was cleared. *)
ClearWithoutRecheck ==
    /\ pc = "clear"
    /\ status' = status \ {ce}
    /\ LeaveService
    /\ UNCHANGED <<rings, irq, rx_pending, ghosts>>

CE_ENGINE_INT_STATUS_CLEAR ==
    /\ pc = "clear"
    /\ status' = status \ {ce}
    /\ Goto("recheck")
    /\ UNCHANGED <<rings, irq, rx_pending, ghosts>>

(* Entries the target finished meanwhile are serviced at once, up to a     *)
(* threshold; then they are left to another run of the tasklet (receive)   *)
(* or to the next interrupt (send).                                        *)
Recheck ==
    LET more == IF ce = "dest" THEN CE_recv_entries_done_nolock ELSE CE_send_entries_done_nolock
        again == more > 0 /\ more_comp_cnt < CE_TXRX_COMP_CHECK_THRESHOLD
        left  == more > 0 /\ ~again
        ce_is_valid_entries == more < dest_ring.nentries - 1
    IN /\ pc = "recheck"
       /\ IF again THEN /\ more_comp_cnt' = more_comp_cnt + 1
                        /\ pc' = IF ce = "dest" THEN "recv" ELSE "send"
                        /\ UNCHANGED <<ce, todo, receive_count, rx_pending>>
                   ELSE /\ rx_pending' = IF ce = "dest" /\ left /\ ce_is_valid_entries
                                         THEN rx_pending \cup {ce} ELSE rx_pending \ {ce}
                        /\ LeaveService
       /\ reset' = (reset \/ (ce = "dest" /\ left /\ ~ce_is_valid_entries))
       /\ logged' = IF ce = "src" /\ ~again THEN left ELSE logged
       /\ UNCHANGED <<rings, status, irq, foreign, in_progress, gaveUp, hif>>

(* Mutant: interrupts are enabled although an engine is rx_pending. *)
EndServiceIgnoresPending ==
    /\ pc = "next" /\ todo = {}
    /\ tasklet_from_intr' = FALSE /\ gaveUp' = FALSE
    /\ Goto("enable")
    /\ UNCHANGED <<rings, status, enabled, scheduled, rx_pending, foreign, logged, in_progress, reset,
                   hif>>

(* Both engines serviced: run again, or let interrupts in; neither while   *)
(* the driver is loaded, unloaded or restarted and an engine is rx_pending. *)
EndService ==
    /\ pc = "next" /\ todo = {}
    /\ tasklet_from_intr' = FALSE
    /\ Goto(IF rx_pending # {} THEN "idle" ELSE "enable")
    /\ gaveUp' = (rx_pending # {} /\ in_progress)
    /\ scheduled' = (scheduled \/ (rx_pending # {} /\ ~in_progress))
    /\ UNCHANGED <<rings, status, enabled, rx_pending, foreign, logged, in_progress, reset, hif>>

EnableInterrupts ==
    /\ pc = "enable"
    /\ enabled' = ~reset
    /\ Goto("idle")
    /\ UNCHANGED <<rings, status, scheduled, tasklet_from_intr, rx_pending, ghosts>>

-----------------------------------------------------------------------------
(* Load, restart and unload; shutdown.                                     *)

(* The driver's load ends, a restart begins or ends, or the unload begins. *)
LoadRestartOrUnload ==
    /\ hif = "up"
    /\ in_progress' = ~in_progress
    /\ UNCHANGED <<rings, status, irq, rx_pending, service, foreign, logged, gaveUp, reset, hif>>

(* In a failed load, a restart or the unload hif_disable_isr frees the     *)
(* interrupt and waits for the tasklet, then HIFStop begins, when "the     *)
(* Target should not DMA nor interrupt"; what senders and target do in     *)
(* between they could have done before.                                    *)
HIFStop ==
    /\ hif = "up" /\ pc = "idle" /\ in_progress
    /\ hif' = "cleanup"
    /\ status' = {} /\ rx_pending' = {} /\ logged' = FALSE /\ foreign' = 0
    /\ enabled' = FALSE /\ scheduled' = FALSE /\ tasklet_from_intr' = FALSE
    /\ gaveUp' = FALSE
    /\ UNCHANGED <<rings, service, in_progress, reset>>

CE_revoke_recv_next ==
    LET i == dest_ring.sw_index IN
    /\ hif = "cleanup" /\ dest_ring.write_index # i
    /\ dest_ring' = [dest_ring EXCEPT !.ctx[i] = NoContext,
                                      !.sw_index = CE_RING_IDX_INCR(dest_ring.nentries, i)]
    /\ UNCHANGED <<src_ring, srcReg, destReg, nbytes, status, irq, rx_pending, service,
                   ghosts>>

CE_cancel_send_next ==
    LET i == src_ring.sw_index IN
    /\ hif = "cleanup" /\ src_ring.write_index # i
    /\ src_ring' = [src_ring EXCEPT !.ctx[i] = NoContext,
                                    !.sw_index = CE_RING_IDX_INCR(src_ring.nentries, i)]
    /\ UNCHANGED <<dest_ring, srcReg, destReg, nbytes, status, irq, rx_pending, service,
                   ghosts>>

-----------------------------------------------------------------------------
Target  == TargetSent \/ TargetReceived \/ TargetWrites
Tasklet ==
    \/ CE_per_engine_service_any \/ StartService
    \/ CE_completed_recv_next \/ ForceBreak \/ CE_completed_send_next
    \/ CE_ENGINE_INT_STATUS_CLEAR \/ Recheck \/ EndService \/ EnableInterrupts
Cleanup == CE_revoke_recv_next \/ CE_cancel_send_next

Next ==
    \/ \E n \in 1..MaxItems : CE_sendlist_send(n)
    \/ CE_recv_buf_enqueue
    \/ Target \/ Interrupt \/ SharedInterrupt \/ Tasklet
    \/ LoadRestartOrUnload \/ HIFStop \/ Cleanup

(* Interrupts and tasklets run, a descriptor is written once its index     *)
(* moved, HIFStop finishes; nobody need send, and the target need not      *)
(* work.  An asserted line interrupts at once: it does not always come just *)
(* between CE_per_engine_service_any and the reset of tasklet_from_intr.   *)
Spec ==
    /\ Init /\ [][Next]_vars
    /\ SF_vars(pc = "idle" /\ Interrupt) /\ WF_vars(Tasklet) /\ WF_vars(TargetWrites) /\ WF_vars(Cleanup)

-----------------------------------------------------------------------------
(* Properties.                                                             *)

(* Every variable keeps its type; indices stay within their rings. *)
Indices(r) == 0..(r.nentries - 1)
TypeOK ==
    /\ {src_ring.sw_index, src_ring.hw_index, src_ring.write_index} \subseteq Indices(src_ring)
    /\ src_ring.ctx \in [Indices(src_ring) -> Contexts \cup {NoContext, CE_SENDLIST_ITEM_CTXT}]
    /\ {dest_ring.sw_index, dest_ring.write_index} \subseteq Indices(dest_ring)
    /\ dest_ring.ctx \in [Indices(dest_ring) -> Contexts \cup {NoContext}]
    /\ srcReg \in [write: Indices(src_ring), read: Indices(src_ring)]
    /\ destReg \in Indices(dest_ring) /\ nbytes \subseteq Indices(dest_ring)
    /\ status \subseteq Engines /\ rx_pending \subseteq Engines /\ todo \subseteq Engines
    /\ ce \in Engines
    /\ pc \in {"idle", "next", "recv", "break", "send", "clear", "recheck", "enable"}
    /\ receive_count \in 0..(MAX_NUM_OF_RECEIVES + 1)
    /\ more_comp_cnt \in 0..CE_TXRX_COMP_CHECK_THRESHOLD
    /\ {enabled, scheduled, tasklet_from_intr, logged, in_progress, gaveUp, reset} \subseteq BOOLEAN
    /\ foreign \in 0..MaxForeign /\ hif \in {"up", "cleanup"}

(* The outstanding transfers of ring r, oldest first: the ones the target, *)
(* whose read index is read, is done with, then the others.  At shutdown   *)
(* the host's index overtakes the target's.                                *)
Outstanding(r)    == CE_RING_DELTA(r.nentries, r.sw_index, r.write_index)
Unread(r, read)   == CE_RING_DELTA(r.nentries, read, r.write_index)
Flying(r, read)   == IF Unread(r, read) < Outstanding(r) THEN Unread(r, read) ELSE Outstanding(r)
Finished(r, read) == Outstanding(r) - Flying(r, read)

Entry(r, k)   == r.ctx[(r.sw_index + k - 1) % r.nentries]
Done(r, read) == [k \in 1..Finished(r, read) |-> Entry(r, k)]
Fly(r, read)  == [k \in 1..Flying(r, read) |-> Entry(r, Finished(r, read) + k)]

(* What is posted at once: the last item of a sendlist has the context. *)
Sendlist(n, c) == [k \in 1..n |-> IF k = n THEN c ELSE CE_SENDLIST_ITEM_CTXT]
SrcLists  == {Sendlist(n, c) : n \in 1..MaxItems, c \in Contexts}
DestLists == {<<c>> : c \in Contexts}

SrcRing == INSTANCE DescriptorRing WITH
    Lists <- SrcLists,
    capacity <- src_ring.nentries - 1,
    done <- Done(src_ring, srcReg.read),
    fly  <- Fly(src_ring, srcReg.read)

DestRing == INSTANCE DescriptorRing WITH
    Lists <- DestLists,
    capacity <- dest_ring.nentries - 1,
    done <- Done(dest_ring, destReg),
    fly  <- Fly(dest_ring, destReg)

(* Both rings are queues.  CE_sendlist_send, CE_completed_send_next with   *)
(* its cached hardware index and CE_cancel_send_next post every sendlist   *)
(* whole, overwrite nothing, and give every context back once, in order,   *)
(* and not before the target is done with it; CE_recv_buf_enqueue,         *)
(* CE_completed_recv_next with its test of nbytes and CE_revoke_recv_next  *)
(* do the same, although a descriptor is written after the index moved.    *)
RingsAreQueues == SrcRing!Spec /\ DestRing!Spec

(* The engine is being serviced, or will be by this run of the tasklet. *)
InService(e) == e \in todo \/ (ce = e /\ pc \in {"recv", "break", "send", "clear", "recheck"})

(* A finished transfer is never forgotten: its interrupt is still pending, *)
(* or the tasklet serves its engine, or has marked it for the next run     *)
(* (which comes as TaskletResponsible says); only send completions can be  *)
(* left behind, by the service that logs a potential infinite loop.        *)
NothingForgotten == hif = "up" /\ ~reset =>
    /\ CE_recv_entries_done_nolock > 0 =>
           "dest" \in status \cup rx_pending \/ InService("dest")
    /\ (\E k \in 1..Finished(src_ring, srcReg.read) :
            Entry(src_ring, k) # CE_SENDLIST_ITEM_CTXT) =>
           "src" \in status \/ InService("src") \/ logged

(* Interrupts are kept off only while the tasklet runs or is scheduled,    *)
(* and an engine marked rx_pending has the tasklet scheduled again.  The   *)
(* one exception is logged: wlan_tasklet found an engine rx_pending during *)
(* a load, an unload or a restart, and neither runs again nor lets         *)
(* interrupts in, and nothing does when the load or the restart is over.   *)
TaskletResponsible == hif = "up" /\ ~reset /\ pc = "idle" /\ ~gaveUp =>
    /\ ~enabled => scheduled
    /\ rx_pending # {} => scheduled

(* A received buffer is given to HIF in the end, whatever else arrives and *)
(* however often the service gives way: time and again none waits, or      *)
(* buffers are taken from the ring forever.  The exceptions are those the  *)
(* code warns of: a stream of sends that completes as fast as it is        *)
(* serviced and keeps the tasklet in the loop over send completions, and a *)
(* service that gave up because a load or a restart was in progress.       *)
ReceiveServed ==
    \/ []<>(CE_recv_entries_done_nolock = 0 \/ reset \/ hif # "up")
    \/ []<><<dest_ring'.sw_index # dest_ring.sw_index>>_dest_ring
    \/ []<><<src_ring'.sw_index # src_ring.sw_index>>_src_ring
    \/ <>[]gaveUp

=============================================================================
