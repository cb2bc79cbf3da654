--------------------------- MODULE HIFCompletion ----------------------------
(***************************************************************************)
(* How the PCIe HIF layer turns finished copy-engine transfers into        *)
(* callbacks to HTC (CORE/SERVICES/HIF/PCIe/hif_pci.c, copy_engine.c).     *)
(*                                                                         *)
(* A context that services a copy engine (wlan_tasklet, a CE poll timer, a *)
(* per-engine MSI handler) pops finished transfers, parks each in a        *)
(* completion state of the pipe's free queue, appends them to              *)
(* completion_pendingq and, if that queue was empty, runs                  *)
(* hif_completion_thread, which lets one context at a time through by      *)
(* counting in hif_thread_idle.  One upload and one download pipe are      *)
(* modelled; each is serviced by exactly one context, as in every          *)
(* host_CE_config.                                                         *)
(***************************************************************************)
EXTENDS Integers, Sequences, FiniteSets, Functions, SequencesExt

CONSTANTS
    Contexts,       \* contexts that service copy engines
    Tasklet,        \* the one of them that is wlan_tasklet
    Services,       \* [Contexts -> the pipes it services]
    TxBufs,         \* netbufs HTC sends
    Frags,          \* [TxBufs -> fragments of the netbuf]
    RxBufs,         \* netbufs adf_nbuf_alloc can return
    src_nentries,   \* entries of the upload engine's source ring
    dest_nentries   \* entries of the download engine's destination ring

Pipes == {"tx", "rx"}

ASSUME PipesAssumption ==
    /\ IsFiniteSet(Contexts) /\ Tasklet \in Contexts
    /\ Services \in [Contexts -> SUBSET Pipes]
    /\ \A p \in Pipes, c, d \in Contexts : p \in Services[c] \cap Services[d] => c = d
    /\ Frags \in [TxBufs -> Nat \ {0}]
    /\ src_nentries \in Nat \ {0} /\ dest_nentries \in Nat \ {0}

VARIABLES
    src, srcDone,       \* source ring: entries in transfer, entries finished
    dest, destDone,     \* destination ring: posted buffers, filled buffers
    num_sends_allowed,
    recv_bufs_needed,
    completion_freeq,   \* [Pipes -> number of free completion states]
    completion_pendingq,
    hif_thread_idle,
    fw_event_pending,
    reset,              \* target_status is OL_TRGET_STATUS_RESET
    out_of_states,      \* "Out of free buf": ce_target_reset was called
    pc,                 \* [Contexts -> where the context is]
    compl_queue,        \* [Contexts -> the local queue of the CE callback]
    compl_state,        \* [Contexts -> what hif_completion_thread handles]
    finished            \* [Pipes -> transfers finished, not delivered, in order]

ringVars  == <<src, srcDone, dest, destDone, finished>>
countVars == <<num_sends_allowed, recv_bufs_needed, completion_freeq, out_of_states>>
fwVars    == <<fw_event_pending, reset>>
thread    == <<pc, compl_queue, compl_state, completion_pendingq, hif_thread_idle>>
vars      == <<ringVars, countVars, fwVars, thread>>

Item(p, b) == [pipe |-> p, buf |-> b]
Items == [pipe : Pipes, buf : TxBufs \cup RxBufs]
Goto(c, where) == pc' = [pc EXCEPT ![c] = where]

-----------------------------------------------------------------------------
(* HTC and the copy engines.                                               *)

(* The ring entries of a netbuf: CE_SENDLIST_ITEM_CTXT for all fragments   *)
(* but the last.                                                           *)
Entries(b) == [i \in 1..Frags[b] |-> [buf |-> b, last |-> i = Frags[b]]]

(* Buffers somewhere between HIF and HTC. *)
Held(buffers) ==
    {b \in buffers :
        \/ b \in {e.buf : e \in Range(src \o srcDone)} \cup Range(dest \o destDone)
        \/ \E i \in Range(completion_pendingq) : i.buf = b
        \/ \E c \in Contexts : \E i \in Range(compl_queue[c] \o compl_state[c]) : i.buf = b}

(* Its other failing returns, for more fragments than a sendlist holds and *)
(* for an engine that is torn down, are left out.                          *)
HIFSend_head(b) ==
    /\ b \notin Held(TxBufs)
    /\ num_sends_allowed >= Frags[b]
    /\ num_sends_allowed' = num_sends_allowed - Frags[b]
    /\ src' = src \o Entries(b)
    /\ UNCHANGED <<srcDone, dest, destDone, finished, recv_bufs_needed, completion_freeq,
                   out_of_states, fwVars, thread>>

(* The hardware finishes transfers of a ring in order. *)
CE_send_finished ==
    /\ src # <<>>
    /\ src' = Tail(src) /\ srcDone' = Append(srcDone, Head(src))
    /\ finished' = IF Head(src).last
                   THEN [finished EXCEPT !["tx"] = Append(@, Head(src).buf)] ELSE finished
    /\ UNCHANGED <<dest, destDone, countVars, fwVars, thread>>

CE_recv_finished ==
    /\ dest # <<>>
    /\ dest' = Tail(dest) /\ destDone' = Append(destDone, Head(dest))
    /\ finished' = [finished EXCEPT !["rx"] = Append(@, Head(dest))]
    /\ UNCHANGED <<src, srcDone, countVars, fwVars, thread>>

-----------------------------------------------------------------------------
(* The CE callbacks.  Popping an entry (target_lock) and taking a          *)
(* completion state (completion_freeq_lock) are one step: only the         *)
(* completion thread touches the free queue in between, and it only adds.  *)

(* wlan_tasklet stops servicing the engines after a target reset. *)
MayService(c, p) == p \in Services[c] /\ (c = Tasklet => ~reset)

(* Park a transfer in a completion state, if one is free. *)
Park(c, p, b) ==
    IF completion_freeq[p] > 0
    THEN /\ completion_freeq' = [completion_freeq EXCEPT ![p] = @ - 1]
         /\ compl_queue' = [compl_queue EXCEPT ![c] = Append(@, Item(p, b))]
         /\ Goto(c, p)
         /\ UNCHANGED out_of_states
    ELSE /\ out_of_states' = TRUE
         /\ Goto(c, IF p = "tx" /\ compl_queue[c] = <<>> THEN "idle" ELSE "append")
         /\ UNCHANGED <<completion_freeq, compl_queue>>

HIF_PCI_CE_send_done(c) ==
    /\ \/ pc[c] = "idle" /\ MayService(c, "tx")
       \/ pc[c] = "tx"
    /\ srcDone # <<>>
    /\ srcDone' = Tail(srcDone)
    /\ IF Head(srcDone).last
       THEN Park(c, "tx", Head(srcDone).buf) /\ UNCHANGED num_sends_allowed
       ELSE /\ num_sends_allowed' = num_sends_allowed + 1
            /\ Goto(c, "tx")
            /\ UNCHANGED <<completion_freeq, compl_queue, out_of_states>>
    /\ UNCHANGED <<src, dest, destDone, finished, recv_bufs_needed, fwVars, compl_state,
                   completion_pendingq, hif_thread_idle>>

HIF_PCI_CE_recv_data(c) ==
    /\ \/ pc[c] = "idle" /\ MayService(c, "rx")
       \/ pc[c] = "rx"
    /\ destDone # <<>>
    /\ destDone' = Tail(destDone)
    /\ Park(c, "rx", Head(destDone))
    /\ UNCHANGED <<src, srcDone, dest, finished, num_sends_allowed, recv_bufs_needed, fwVars,
                   compl_state, completion_pendingq, hif_thread_idle>>

(* The ring is empty, or enough was received at once (force_break). *)
LeaveLoop(c) ==
    /\ \/ pc[c] = "tx" /\ srcDone = <<>>
       \/ pc[c] = "rx"
    /\ Goto(c, IF compl_queue[c] = <<>> THEN "idle" ELSE "append")
    /\ UNCHANGED <<ringVars, countVars, fwVars, compl_queue, compl_state,
                   completion_pendingq, hif_thread_idle>>

(* Mutant: completions are put before the ones already pending. *)
AppendPendingAtHead(c) ==
    /\ pc[c] = "append"
    /\ completion_pendingq' = compl_queue[c] \o completion_pendingq
    /\ compl_queue' = [compl_queue EXCEPT ![c] = <<>>]
    /\ Goto(c, IF completion_pendingq = <<>> THEN "alert" ELSE "idle")
    /\ UNCHANGED <<ringVars, countVars, fwVars, compl_state, hif_thread_idle>>

(* Under completion_pendingq_lock; alert the thread if the queue was empty. *)
AppendPending(c) ==
    /\ pc[c] = "append"
    /\ completion_pendingq' = completion_pendingq \o compl_queue[c]
    /\ compl_queue' = [compl_queue EXCEPT ![c] = <<>>]
    /\ Goto(c, IF completion_pendingq = <<>> THEN "alert" ELSE "idle")
    /\ UNCHANGED <<ringVars, countVars, fwVars, compl_state, hif_thread_idle>>

(* Called by wlan_tasklet before it services the engines.  (With a message *)
(* per interrupt hif_pci_msi_fw_handler calls it from hard interrupt       *)
(* context, in the middle of anything; that is left out.)                  *)
HIF_fw_interrupt_handler ==
    /\ pc[Tasklet] = "idle"
    /\ fw_event_pending' = 1
    /\ Goto(Tasklet, "alert")
    /\ UNCHANGED <<ringVars, countVars, reset, compl_queue, compl_state,
                   completion_pendingq, hif_thread_idle>>

-----------------------------------------------------------------------------
(* hif_completion_thread.                                                  *)

(* Mutant: the test admits a context that another one got ahead of. *)
TakeTurnAlways(c) ==
    /\ pc[c] = "alert"
    /\ hif_thread_idle' = hif_thread_idle - 1
    /\ Goto(c, IF hif_thread_idle - 1 <= 0 THEN "start" ELSE "unlucky")
    /\ UNCHANGED <<ringVars, countVars, fwVars, compl_queue, compl_state, completion_pendingq>>

TakeTurn(c) ==
    /\ pc[c] = "alert"
    /\ hif_thread_idle' = hif_thread_idle - 1
    /\ Goto(c, IF hif_thread_idle - 1 = 0 THEN "start" ELSE "unlucky")
    /\ UNCHANGED <<ringVars, countVars, fwVars, compl_queue, compl_state, completion_pendingq>>

NotTheLuckyOne(c) ==
    /\ pc[c] = "unlucky"
    /\ hif_thread_idle' = hif_thread_idle + 1
    /\ Goto(c, "idle")
    /\ UNCHANGED <<ringVars, countVars, fwVars, compl_queue, compl_state, completion_pendingq>>

(* fwEventHandler is HTCFwEventHandler, then ol_target_failure. *)
HandleFwEvent(c) ==
    /\ pc[c] = "start" /\ fw_event_pending > 0
    /\ fw_event_pending' = 0
    /\ reset' = TRUE
    /\ UNCHANGED <<ringVars, countVars, thread>>

(* After a target reset the thread returns without giving its turn back.   *)
(* The callbacks it tests before are there: HIFStart installs them before  *)
(* it posts the first buffer and before it sets started.                   *)
StartThread(c) ==
    /\ pc[c] = "start" /\ fw_event_pending = 0
    /\ Goto(c, IF reset THEN "idle" ELSE "loop")
    /\ UNCHANGED <<ringVars, countVars, fwVars, compl_queue, compl_state,
                   completion_pendingq, hif_thread_idle>>

Dequeue(c) ==
    /\ pc[c] = "loop" /\ completion_pendingq # <<>>
    /\ compl_state' = [compl_state EXCEPT ![c] = <<Head(completion_pendingq)>>]
    /\ completion_pendingq' = Tail(completion_pendingq)
    /\ IF Head(completion_pendingq).pipe = "rx"
       THEN recv_bufs_needed' = recv_bufs_needed + 1 /\ Goto(c, "post")
       ELSE Goto(c, "deliver") /\ UNCHANGED recv_bufs_needed
    /\ UNCHANGED <<ringVars, num_sends_allowed, completion_freeq, out_of_states, fwVars,
                   compl_queue, hif_thread_idle>>

(* hif_post_recv_buffers: a buffer per step, until none is needed or the   *)
(* allocation fails.                                                       *)
PostRecvBuffer(c) == \E b \in RxBufs \ Held(RxBufs) :
    /\ pc[c] = "post" /\ recv_bufs_needed > 0
    /\ recv_bufs_needed' = recv_bufs_needed - 1
    /\ dest' = Append(dest, b)
    /\ UNCHANGED <<src, srcDone, destDone, finished, num_sends_allowed, completion_freeq,
                   out_of_states, fwVars, thread>>

PostRecvEnd(c) ==
    /\ pc[c] = "post"
    /\ Goto(c, "deliver")
    /\ UNCHANGED <<ringVars, countVars, fwVars, compl_queue, compl_state,
                   completion_pendingq, hif_thread_idle>>

(* txCompletionHandler or rxCompletionHandler. *)
Deliver(c) ==
    LET i == Head(compl_state[c])
    IN  /\ pc[c] = "deliver"
        /\ finished' = [finished EXCEPT ![i.pipe] = RemoveFirst(@, i.buf)]
        /\ Goto(c, "recycle")
        /\ UNCHANGED <<src, srcDone, dest, destDone, countVars, fwVars, compl_queue,
                       compl_state, completion_pendingq, hif_thread_idle>>

(* Mutant: the completion state is recycled, the ring entry is not. *)
RecycleKeepsEntry(c) ==
    /\ pc[c] = "recycle"
    /\ completion_freeq' = [completion_freeq EXCEPT ![Head(compl_state[c]).pipe] = @ + 1]
    /\ compl_state' = [compl_state EXCEPT ![c] = <<>>]
    /\ Goto(c, "loop")
    /\ UNCHANGED <<ringVars, num_sends_allowed, recv_bufs_needed, out_of_states, fwVars,
                   compl_queue, completion_pendingq, hif_thread_idle>>

Recycle(c) ==
    LET i == Head(compl_state[c])
    IN  /\ pc[c] = "recycle"
        /\ completion_freeq' = [completion_freeq EXCEPT ![i.pipe] = @ + 1]
        /\ num_sends_allowed' = num_sends_allowed + (IF i.pipe = "tx" THEN 1 ELSE 0)
        /\ compl_state' = [compl_state EXCEPT ![c] = <<>>]
        /\ Goto(c, "loop")
        /\ UNCHANGED <<ringVars, recv_bufs_needed, out_of_states, fwVars, compl_queue,
                       completion_pendingq, hif_thread_idle>>

(* Mutants: the thread leaves without looking at the queue again; it does  *)
(* not give its turn back.                                                 *)
LeaveThreadEarly(c) ==
    /\ pc[c] = "loop"
    /\ hif_thread_idle' = hif_thread_idle + 1
    /\ Goto(c, "idle")
    /\ UNCHANGED <<ringVars, countVars, fwVars, compl_queue, compl_state, completion_pendingq>>

LeaveThreadKeepsTurn(c) ==
    /\ pc[c] = "loop" /\ completion_pendingq = <<>>
    /\ Goto(c, "idle")
    /\ UNCHANGED <<ringVars, countVars, fwVars, compl_queue, compl_state,
                   completion_pendingq, hif_thread_idle>>

(* "We are atomically sure that there is no pending work" *)
LeaveThread(c) ==
    /\ pc[c] = "loop" /\ completion_pendingq = <<>>
    /\ hif_thread_idle' = hif_thread_idle + 1
    /\ Goto(c, "idle")
    /\ UNCHANGED <<ringVars, countVars, fwVars, compl_queue, compl_state, completion_pendingq>>

-----------------------------------------------------------------------------
(* Mutant: as many completion states as buffers are ever posted. *)
CompletionStatesTight(p) == IF p = "tx" THEN src_nentries - 1 ELSE dest_nentries - 1

(* completions_needed of a pipe. *)
CompletionStates(p) == IF p = "tx" THEN src_nentries ELSE dest_nentries

(* hif_completion_thread_startup and HIFStart: hif_post_recv_buffers may   *)
(* fail half way.                                                          *)
Init ==
    /\ src = <<>> /\ srcDone = <<>> /\ destDone = <<>>
    /\ \E n \in 0..(dest_nentries - 1) :
          /\ dest \in {s \in [1..n -> RxBufs] : IsInjective(s)}
          /\ recv_bufs_needed = dest_nentries - 1 - n
    /\ num_sends_allowed = src_nentries - 1
    /\ completion_freeq = [p \in Pipes |-> CompletionStates(p)]
    /\ completion_pendingq = <<>>
    /\ hif_thread_idle = 1
    /\ fw_event_pending = 0
    /\ reset = FALSE /\ out_of_states = FALSE
    /\ pc = [c \in Contexts |-> "idle"]
    /\ compl_queue = [c \in Contexts |-> <<>>]
    /\ compl_state = [c \in Contexts |-> <<>>]
    /\ finished = [p \in Pipes |-> <<>>]

(* A step of a CE callback, and of the completion thread. *)
Service(c) ==
    \/ HIF_PCI_CE_send_done(c)
    \/ HIF_PCI_CE_recv_data(c)
    \/ LeaveLoop(c)
    \/ AppendPending(c)

Thread(c) ==
    \/ TakeTurn(c)
    \/ NotTheLuckyOne(c)
    \/ HandleFwEvent(c)
    \/ StartThread(c)
    \/ Dequeue(c)
    \/ PostRecvBuffer(c)
    \/ PostRecvEnd(c)
    \/ Deliver(c)
    \/ Recycle(c)
    \/ LeaveThread(c)

Next ==
    \/ \E b \in TxBufs : HIFSend_head(b)
    \/ CE_send_finished
    \/ CE_recv_finished
    \/ HIF_fw_interrupt_handler
    \/ \E c \in Contexts : Service(c) \/ Thread(c)

Spec == Init /\ [][Next]_vars

(* Softirqs run to completion, and CE_per_engine_service_any goes round    *)
(* the engines, so that none with finished transfers is passed over for    *)
(* ever.                                                                   *)
Fairness == \A c \in Contexts :
    /\ WF_vars(Service(c)) /\ WF_vars(Thread(c))
    /\ SF_vars(HIF_PCI_CE_send_done(c)) /\ SF_vars(HIF_PCI_CE_recv_data(c))

FairSpec == Spec /\ Fairness

-----------------------------------------------------------------------------
(* Properties.                                                             *)

(* Contexts inside the part of hif_completion_thread meant for one, and    *)
(* those that hold a decrement of hif_thread_idle.                         *)
Running == {c \in Contexts : pc[c] \in {"start", "loop", "post", "deliver", "recycle"}}
Turns   == Running \cup {c \in Contexts : pc[c] = "unlucky"}

Quiescent == \A c \in Contexts : pc[c] = "idle"

(* Where a context can be: servicing an engine or in hif_completion_thread. *)
Places == {"idle", "tx", "rx", "append", "alert", "unlucky", "start", "loop", "post",
           "deliver", "recycle"}

(* Type correctness of the rings, the queues and the contexts. *)
TypeOK ==
    /\ \A r \in {src, srcDone} : r \in Seq([buf : TxBufs, last : BOOLEAN])
    /\ \A r \in {dest, destDone} : r \in Seq(RxBufs)
    /\ num_sends_allowed \in Nat /\ recv_bufs_needed \in Nat
    /\ completion_freeq \in [Pipes -> Nat]
    /\ completion_pendingq \in Seq(Items)
    /\ hif_thread_idle \in Int
    /\ fw_event_pending \in {0, 1}
    /\ reset \in BOOLEAN /\ out_of_states \in BOOLEAN
    /\ pc \in [Contexts -> Places]
    /\ compl_queue \in [Contexts -> Seq(Items)]
    /\ compl_state \in [Contexts -> Seq(Items)]
    /\ finished \in [Pipes -> Seq(TxBufs \cup RxBufs)]

(* "Allow only one instance of the thread to execute at a time": the       *)
(* decrement-and-test of hif_thread_idle lets one context through, also    *)
(* while others are between their decrement and their increment; and until *)
(* a target reset the count is exactly what the contexts account for.      *)
SingleInstance ==
    /\ \A c, d \in Running : c = d
    /\ hif_thread_idle + Cardinality(Turns) <= 1
    /\ ~reset => hif_thread_idle + Cardinality(Turns) = 1

(* "... to prevent out of order processing of messages": HTC gets the      *)
(* completions of a pipe once each, in the order the copy engine finished  *)
(* the transfers.                                                          *)
CompletionInOrder == [][\A c \in Contexts :
    (pc[c] = "deliver" /\ pc'[c] # "deliver") =>
        LET i == Head(compl_state[c])
        IN  finished[i.pipe] # <<>> /\ i.buf = Head(finished[i.pipe])]_vars

(* The free queues of hif_completion_thread_startup are long enough:       *)
(* "Out of free buf in hif send completion list" and the target reset that *)
(* follows cannot happen, although the thread posts a new receive buffer   *)
(* before it recycles the completion state of the old one.                 *)
StatesSuffice == ~out_of_states

(* Ring entries are neither leaked nor minted on any path (fragments,      *)
(* failed allocations, recycling): HIFSend_head never overruns the source  *)
(* ring nor hif_post_recv_buffers the destination ring.                    *)
CountIn(p, q) == Cardinality({j \in DOMAIN q : q[j].pipe = p})
Parked(p, f) ==
    Cardinality(UNION {{<<c, j>> : j \in {k \in DOMAIN f[c] : f[c][k].pipe = p}} :
                          c \in Contexts})

EntriesConserved ==
    /\ num_sends_allowed + Len(src) + Len(srcDone) + CountIn("tx", completion_pendingq)
         + Parked("tx", compl_queue) + Parked("tx", compl_state) = src_nentries - 1
    /\ recv_bufs_needed + Len(dest) + Len(destDone) + CountIn("rx", completion_pendingq)
         + Parked("rx", compl_queue) = dest_nentries - 1

(* "All pending completions are handled": when every context has returned, *)
(* nothing is left in completion_pendingq.                                 *)
PendingHandled == (Quiescent /\ ~reset) => completion_pendingq = <<>>

(* "Alert the Host-side service thread": a firmware event is handled       *)
(* before every context has returned, unless the target was reset already. *)
(* False with two contexts: fw_event_pending is tested once, and the alert *)
(* of an event that comes after the test is turned away.                   *)
FwEventHandled == (Quiescent /\ ~reset) => fw_event_pending = 0

(* Every finished transfer is reported to HTC, unless the target was reset. *)
FinishedDelivered ==
    /\ \A b \in TxBufs : b \in Range(finished["tx"]) ~> (reset \/ b \notin Range(finished["tx"]))
    /\ \A b \in RxBufs : b \in Range(finished["rx"]) ~> (reset \/ b \notin Range(finished["rx"]))

=============================================================================
