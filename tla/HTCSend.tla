------------------------------ MODULE HTCSend -------------------------------
(***************************************************************************)
(* The transmit path of one HTC endpoint (CORE/SERVICES/HTC/htc_send.c)    *)
(* over the PCIe HIF layer: HTCSendPktsMultiple / HTCTrySend /             *)
(* HTCIssuePackets run by any number of client contexts,                   *)
(* HTCTxCompletionHandler and HTCProcessCreditRpt run by the one HIF       *)
(* completion thread, and HTCFlushEndpointTX.                              *)
(*                                                                         *)
(* A critical section under LOCK_HTC_TX is one action; everything between  *)
(* an UNLOCK and the next LOCK is at least one action of its own, so the   *)
(* unlocked reads (queue depth, HIFGetFreeQueueNumber) can be stale when   *)
(* they are used.                                                          *)
(***************************************************************************)
EXTENDS Integers, Sequences, FiniteSets, Functions

CONSTANTS
    Packets,            \* HTC_PACKETs clients send on this endpoint
    Threads,            \* client contexts that call HTCSendPktsMultiple
    Tasklet,            \* the context running hif_completion_thread
    CreditFlow,         \* pEndpoint->TxCreditFlowEnabled
    HttDataSvc,         \* the endpoint serves HTT_DATA_MSG_SVC (ATH_11AC_TXCOMPACT)
    EpSendFull,         \* the client's callback: "NULL", "KEEP" or "DROP"
    MaxTxQueueDepth,
    TransferLength,     \* [Packets -> bytes on the wire, header included]
    TxCreditSize,       \* bytes of one credit
    TxAlloc,            \* credits granted by the target at connect
    TxCreditsPerMaxMsg,
    SrcEntries,         \* num_sends_allowed of the idle pipe
    MaxBatch,           \* packets in one HTCSendPktsMultiple call (a bound)
    NodropClient        \* the client is the endpoint-ping tool, uses nodrop

Contexts == Threads \cup {Tasklet}

ASSUME ConstantsAssumption ==
    /\ IsFiniteSet(Packets) /\ IsFiniteSet(Threads) /\ Tasklet \notin Threads
    /\ CreditFlow \in BOOLEAN /\ HttDataSvc \in BOOLEAN /\ NodropClient \in BOOLEAN
    /\ EpSendFull \in {"NULL", "KEEP", "DROP"}
    /\ MaxTxQueueDepth \in Nat \ {0} /\ MaxBatch \in Nat \ {0}
    /\ TransferLength \in [Packets -> Nat \ {0}]
    /\ TxCreditSize \in Nat \ {0}
    /\ TxAlloc \in Nat /\ TxCreditsPerMaxMsg \in Nat
    /\ SrcEntries \in Nat \ {0}

VARIABLES
    TxQueue,            \* packets waiting for credits or bus resources
    TxLookupQueue,      \* packets handed to HIF, to match completions
    TxCredits,
    TxProcessCount,     \* 1 while a context drains TxQueue
    is_nodrop_pkt,
    pc,                 \* [Contexts -> where the context is in HTCTrySend]
    op,                 \* [Contexts -> the call HTCTrySend was entered from]
    callers,            \* [Contexts -> pCallersSendQueue]
    sendQ,              \* [Contexts -> HTCTrySend's local sendQueue]
    tx_resources,       \* [Contexts -> the local copy of the free bus entries]
    needUpdate,         \* packets sent with HTC_FLAGS_NEED_CREDIT_UPDATE
    nbuf,               \* [Packets -> headroom and DMA state of the netbuf]
    num_sends_allowed,  \* HIF: free entries of the pipe
    ring,               \* HIF: packets handed to the copy engine, in order
    heldAsked,          \* credits at the target it was asked to return
    heldQuiet,          \* credits at the target it was not asked to return
    client,             \* packets the client owns
    status,             \* [Packets -> the status of the last completion]
    onBus               \* packets HIF accepted since they were last posted

epVars  == <<TxQueue, TxLookupQueue, TxCredits, TxProcessCount, is_nodrop_pkt>>
ctxVars == <<pc, op, callers, sendQ, tx_resources>>
pktVars == <<needUpdate, nbuf, client, status, onBus>>
hifVars == <<num_sends_allowed, ring, heldAsked, heldQuiet>>
vars    == <<epVars, ctxVars, pktVars, hifVars>>

-----------------------------------------------------------------------------
(* Credits.  A message needs one credit per TxCreditSize bytes begun.      *)

CreditsRequired(p) ==
    IF TransferLength[p] <= TxCreditSize THEN 1
    ELSE (TransferLength[p] \div TxCreditSize)
         + (IF TransferLength[p] % TxCreditSize # 0 THEN 1 ELSE 0)

CreditsUsed(p) == IF CreditFlow THEN CreditsRequired(p) ELSE 0

(* What a set of packets consumes, counted credit by credit. *)
CreditUnits(S) == UNION {{p} \X (1..CreditsUsed(p)) : p \in S}

Credits(S) == Cardinality(CreditUnits(S))

First(q, n) == Range(SubSeq(q, 1, n))

(* n packets can be taken from the head of q: the credits cover them, or   *)
(* there were as many free bus entries before the lock was taken.          *)
Covered(q, n, resources) ==
    IF CreditFlow THEN Credits(First(q, n)) <= TxCredits ELSE n <= resources

(* GetHTCSendPacketsCreditBased and GetHTCSendPackets take n packets: as   *)
(* many as they can.                                                       *)
Grabs(q, n, resources) ==
    /\ Covered(q, n, resources)
    /\ \A m \in 0..Len(q) : Covered(q, m, resources) => m <= n

(* Mutant: credits are asked back only once the last one is gone. *)
LowCreditTooLate(q, n) ==
    {q[i] : i \in {j \in 1..n : CreditFlow /\ TxCredits - Credits(First(q, j)) = 0}}

(* The taken packets whose send leaves no more than a maximum message's    *)
(* worth of credits: they ask the target to return credits at once.        *)
LowCredit(q, n) ==
    {q[i] : i \in {j \in 1..n :
        CreditFlow /\ TxCredits - Credits(First(q, j)) <= TxCreditsPerMaxMsg}}

-----------------------------------------------------------------------------
(* Network buffers: hdr counts the HTC_FRAME_HDRs of headroom pushed, maps *)
(* the calls of adf_nbuf_map that no adf_nbuf_unmap has undone (up to      *)
(* MapsCounted), fixup is HTC_TX_PACKET_FLAG_FIXUP_NETBUF.  What           *)
(* adf_nbuf_map returns is ignored, so a mapping that failed goes the same *)
(* way as one that did not.                                                *)

MapsCounted == 2

Netbufs == [hdr : Int, maps : Int, fixup : BOOLEAN]

Fresh == [hdr |-> 0, maps |-> 0, fixup |-> FALSE]

PushHeader(b) == [b EXCEPT !.hdr = @ + 1]

Map(b) == [b EXCEPT !.maps = IF @ < MapsCounted THEN @ + 1 ELSE @, !.fixup = TRUE]

(* Mutant: the flag is left set, and the packet can be restored again. *)
RestoreKeepsFlag(b) ==
    IF b.fixup THEN [hdr |-> b.hdr - 1, maps |-> b.maps - 1, fixup |-> TRUE] ELSE b

RestoreTxPacket(b) ==
    IF b.fixup THEN [hdr |-> b.hdr - 1, maps |-> b.maps - 1, fixup |-> FALSE] ELSE b

OnNbufs(S, f(_)) == nbuf' = [p \in Packets |-> IF p \in S THEN f(nbuf[p]) ELSE nbuf[p]]

HTC_PACKET_REMOVE(q, p) ==
    IF p \in Range(q)
    THEN LET i == CHOOSE j \in DOMAIN q : q[j] = p
         IN  SubSeq(q, 1, i - 1) \o SubSeq(q, i + 1, Len(q))
    ELSE q

(* SendPacketCompletion and DoSendCompletion: the client gets S back. *)
GiveBack(S, st) ==
    /\ client' = client \cup S
    /\ status' = [p \in Packets |-> IF p \in S THEN st ELSE status[p]]
    /\ needUpdate' = needUpdate \ S
    /\ OnNbufs(S, RestoreTxPacket)

-----------------------------------------------------------------------------
(* HTCSendPktsMultiple: headers are pushed and, without credit flow, the   *)
(* buffers mapped; then HTCTrySend.  A nodrop sender raises is_nodrop_pkt  *)
(* first.  SeqNo, a debugging aid, is left out.                            *)

Batches == {s \in UNION {[1..n -> client] : n \in 1..MaxBatch} : IsInjective(s)}

HTCSendPktsMultiple(t) == \E s \in Batches, o \in {"send", "nodrop"} :
    /\ pc[t] = "idle"
    /\ o = "nodrop" => NodropClient
    /\ is_nodrop_pkt' = IF o = "nodrop" THEN TRUE ELSE is_nodrop_pkt
    /\ client' = client \ Range(s)
    /\ onBus' = onBus \ Range(s)
    /\ nbuf' = [p \in Packets |->
                   IF p \notin Range(s) THEN nbuf[p]
                   ELSE IF CreditFlow THEN PushHeader(Fresh) ELSE Map(PushHeader(Fresh))]
    /\ op' = [op EXCEPT ![t] = o]
    /\ callers' = [callers EXCEPT ![t] = s]
    /\ pc' = [pc EXCEPT ![t] = "overflow"]
    /\ status' = [p \in Packets |-> IF p \in Range(s) THEN "none" ELSE status[p]]
    /\ UNCHANGED <<TxQueue, TxLookupQueue, TxCredits, TxProcessCount, sendQ,
                   tx_resources, needUpdate, hifVars>>

(* Where HTCTrySend returns to, given what is left in the caller's queue. *)
ReturnPoint(t, left) ==
    IF left # <<>> THEN "cleanup"
    ELSE CASE op[t] = "nodrop" -> "clear"
           [] op[t] = "complete" -> "recycle"
           [] OTHER -> "idle"

(* HTCTrySend, before the lock: compare the queue depth, read without the  *)
(* lock, with the limit; let the send-full callback keep or drop what      *)
(* would overflow.                                                         *)
Overflow(t) ==
    IF Len(TxQueue) >= MaxTxQueueDepth THEN Len(callers[t])
    ELSE Len(TxQueue) + Len(callers[t]) - MaxTxQueueDepth

CheckOverflow(t) ==
    LET good  == Len(callers[t]) - Overflow(t)
        over  == SubSeq(callers[t], good + 1, Len(callers[t]))
        taken == IF Overflow(t) > 0 /\ EpSendFull = "DROP"
                 THEN SubSeq(callers[t], 1, good) ELSE callers[t]
        left  == IF taken = callers[t] THEN <<>> ELSE over
    IN  /\ pc[t] = "overflow"
        /\ sendQ' = [sendQ EXCEPT ![t] = taken]
        /\ callers' = [callers EXCEPT ![t] = left]
        /\ IF Overflow(t) > 0 /\ EpSendFull # "NULL"
           THEN OnNbufs(Range(over),
                        LAMBDA b : IF EpSendFull = "KEEP"
                                   THEN PushHeader(RestoreTxPacket(b))
                                   ELSE RestoreTxPacket(b))
           ELSE UNCHANGED nbuf
        /\ pc' = [pc EXCEPT ![t] = IF taken = <<>> THEN "cleanup" ELSE "resources"]
        /\ UNCHANGED <<epVars, op, tx_resources, needUpdate, client, status, onBus, hifVars>>

(* HIFGetFreeQueueNumber, read before LOCK_HTC_TX. *)
ReadResources(t) ==
    /\ pc[t] = "resources"
    /\ tx_resources' = [tx_resources EXCEPT ![t] =
                            IF CreditFlow THEN 0 ELSE num_sends_allowed]
    /\ pc' = [pc EXCEPT ![t] = "enter"]
    /\ UNCHANGED <<epVars, op, callers, sendQ, pktVars, hifVars>>

(* One pass of the drain loop on queue q, with the lock held: take what    *)
(* can be sent, or clear TxProcessCount and leave.                         *)
DrainPass(t, q) == \E n \in 0..Len(q) :
    /\ Grabs(q, n, tx_resources[t])
    /\ TxQueue' = SubSeq(q, n + 1, Len(q))
    /\ sendQ' = [sendQ EXCEPT ![t] = SubSeq(q, 1, n)]
    /\ TxCredits' = TxCredits - Credits(First(q, n))
    /\ needUpdate' = (needUpdate \ First(q, n)) \cup LowCredit(q, n)
    /\ TxProcessCount' = IF n = 0 THEN 0 ELSE 1
    /\ pc' = [pc EXCEPT ![t] = IF n = 0 THEN ReturnPoint(t, callers[t]) ELSE "issue"]

(* HTCTrySend, first critical section: queue the batch (at the head for    *)
(* nodrop); if nobody drains the endpoint, drain it.                       *)
Enqueued(t) == IF is_nodrop_pkt THEN sendQ[t] \o TxQueue ELSE TxQueue \o sendQ[t]

(* Mutant: a context enters although another one drains. *)
EnterTrySendUnguarded(t) ==
    /\ pc[t] = "enter"
    /\ is_nodrop_pkt' = IF sendQ[t] # <<>> THEN FALSE ELSE is_nodrop_pkt
    /\ DrainPass(t, Enqueued(t))
    /\ UNCHANGED <<TxLookupQueue, op, callers, tx_resources, nbuf, client, status,
                   onBus, hifVars>>

EnterTrySend(t) ==
    /\ pc[t] = "enter"
    /\ is_nodrop_pkt' = IF sendQ[t] # <<>> THEN FALSE ELSE is_nodrop_pkt
    /\ IF TxProcessCount > 0
       THEN /\ TxQueue' = Enqueued(t)
            /\ sendQ' = [sendQ EXCEPT ![t] = <<>>]
            /\ pc' = [pc EXCEPT ![t] = ReturnPoint(t, callers[t])]
            /\ UNCHANGED <<TxCredits, TxProcessCount, needUpdate>>
       ELSE DrainPass(t, Enqueued(t))
    /\ UNCHANGED <<TxLookupQueue, op, callers, tx_resources, nbuf, client, status,
                   onBus, hifVars>>

(* HTCIssuePackets, per packet: write the header and map the buffer (credit *)
(* endpoints), record the packet for its completion, then HIFSend_head.     *)
IssuePacket(t) ==
    /\ pc[t] = "issue" /\ sendQ[t] # <<>>
    /\ IF CreditFlow THEN OnNbufs({Head(sendQ[t])}, Map) ELSE UNCHANGED nbuf
    /\ TxLookupQueue' = IF HttDataSvc THEN TxLookupQueue
                        ELSE Append(TxLookupQueue, Head(sendQ[t]))
    /\ pc' = [pc EXCEPT ![t] = "hif"]
    /\ UNCHANGED <<TxQueue, TxCredits, TxProcessCount, is_nodrop_pkt, op, callers,
                   sendQ, tx_resources, needUpdate, client, status, onBus, hifVars>>

(* Mutant: the free entries of the pipe are not checked. *)
HIFSend_headUnchecked(t) ==
    /\ pc[t] = "hif"
    /\ num_sends_allowed' = num_sends_allowed - 1
    /\ ring' = Append(ring, Head(sendQ[t]))
    /\ onBus' = onBus \cup {Head(sendQ[t])}
    /\ sendQ' = [sendQ EXCEPT ![t] = Tail(@)]
    /\ pc' = [pc EXCEPT ![t] = "issue"]
    /\ UNCHANGED <<epVars, op, callers, tx_resources, needUpdate, nbuf, client, status,
                   heldAsked, heldQuiet>>

(* Fails only for want of entries.  The other failing returns are left     *)
(* out: too many fragments (a packet has one), and an engine that is torn  *)
(* down, for which the entries taken are not given back.                   *)
HIFSend_head(t) ==
    LET p == Head(sendQ[t])
    IN  /\ pc[t] = "hif"
        /\ num_sends_allowed > 0
        /\ num_sends_allowed' = num_sends_allowed - 1
        /\ ring' = Append(ring, p)
        /\ onBus' = onBus \cup {p}
        /\ heldAsked' = heldAsked + (IF p \in needUpdate THEN CreditsUsed(p) ELSE 0)
        /\ heldQuiet' = heldQuiet + (IF p \in needUpdate THEN 0 ELSE CreditsUsed(p))
        /\ sendQ' = [sendQ EXCEPT ![t] = Tail(@)]
        /\ pc' = [pc EXCEPT ![t] = "issue"]
        /\ UNCHANGED <<epVars, op, callers, tx_resources, needUpdate, nbuf, client, status>>

(* Mutants: only the refused packet's credits are reclaimed; the refused   *)
(* packet stays in TxLookupQueue.                                          *)
IssueFailedReclaimsOne(t) ==
    /\ pc[t] = "hif"
    /\ num_sends_allowed = 0
    /\ TxLookupQueue' = HTC_PACKET_REMOVE(TxLookupQueue, Head(sendQ[t]))
    /\ TxCredits' = TxCredits + CreditsUsed(Head(sendQ[t]))
    /\ pc' = [pc EXCEPT ![t] = "requeue"]
    /\ UNCHANGED <<TxQueue, TxProcessCount, is_nodrop_pkt, op, callers, sendQ,
                   tx_resources, pktVars, hifVars>>

IssueFailedKeepsLookup(t) ==
    /\ pc[t] = "hif"
    /\ num_sends_allowed = 0
    /\ TxCredits' = TxCredits + Credits(Range(sendQ[t]))
    /\ pc' = [pc EXCEPT ![t] = "requeue"]
    /\ UNCHANGED <<TxQueue, TxLookupQueue, TxProcessCount, is_nodrop_pkt, op, callers,
                   sendQ, tx_resources, pktVars, hifVars>>

(* No bus entry: take the packet back and reclaim the credits of all the   *)
(* packets still in hand ...                                               *)
IssueFailed(t) ==
    /\ pc[t] = "hif"
    /\ num_sends_allowed = 0
    /\ TxLookupQueue' = HTC_PACKET_REMOVE(TxLookupQueue, Head(sendQ[t]))
    /\ TxCredits' = TxCredits + Credits(Range(sendQ[t]))
    /\ pc' = [pc EXCEPT ![t] = "requeue"]
    /\ UNCHANGED <<TxQueue, TxProcessCount, is_nodrop_pkt, op, callers, sendQ,
                   tx_resources, pktVars, hifVars>>

(* Mutants: the packets go to the tail of TxQueue; they are forgotten. *)
RequeueAtTail(t) ==
    /\ pc[t] = "requeue"
    /\ TxQueue' = TxQueue \o sendQ[t]
    /\ sendQ' = [sendQ EXCEPT ![t] = <<>>]
    /\ TxProcessCount' = 0
    /\ pc' = [pc EXCEPT ![t] = ReturnPoint(t, callers[t])]
    /\ UNCHANGED <<TxLookupQueue, TxCredits, is_nodrop_pkt, op, callers, tx_resources,
                   pktVars, hifVars>>

RequeueForgets(t) ==
    /\ pc[t] = "requeue"
    /\ sendQ' = [sendQ EXCEPT ![t] = <<>>]
    /\ TxProcessCount' = 0
    /\ pc' = [pc EXCEPT ![t] = ReturnPoint(t, callers[t])]
    /\ UNCHANGED <<TxQueue, TxLookupQueue, TxCredits, is_nodrop_pkt, op, callers,
                   tx_resources, pktVars, hifVars>>

(* ... and in a second critical section put them back and stop draining. *)
Requeue(t) ==
    /\ pc[t] = "requeue"
    /\ TxQueue' = sendQ[t] \o TxQueue
    /\ sendQ' = [sendQ EXCEPT ![t] = <<>>]
    /\ TxProcessCount' = 0
    /\ pc' = [pc EXCEPT ![t] = ReturnPoint(t, callers[t])]
    /\ UNCHANGED <<TxLookupQueue, TxCredits, is_nodrop_pkt, op, callers, tx_resources,
                   pktVars, hifVars>>

(* All issued: refresh the count of free entries, again without the lock. *)
RefreshResources(t) ==
    /\ pc[t] = "issue" /\ sendQ[t] = <<>>
    /\ tx_resources' = [tx_resources EXCEPT ![t] =
                            IF CreditFlow THEN 0 ELSE num_sends_allowed]
    /\ pc' = [pc EXCEPT ![t] = "drain"]
    /\ UNCHANGED <<epVars, op, callers, sendQ, pktVars, hifVars>>

DrainAgain(t) ==
    /\ pc[t] = "drain"
    /\ DrainPass(t, TxQueue)
    /\ UNCHANGED <<TxLookupQueue, is_nodrop_pkt, op, callers, tx_resources, nbuf, client,
                   status, onBus, hifVars>>

(* HTCSendPktsMultiple, after HTCTrySend: complete what did not get in. *)
CompleteLeftovers(t) ==
    /\ pc[t] = "cleanup"
    /\ GiveBack(Range(callers[t]), "A_NO_RESOURCE")
    /\ callers' = [callers EXCEPT ![t] = <<>>]
    /\ pc' = [pc EXCEPT ![t] = ReturnPoint(t, <<>>)]
    /\ UNCHANGED <<epVars, op, sendQ, tx_resources, onBus, hifVars>>

(* The nodrop sender lowers the flag after its send. *)
HTCSetNodropPkt(t) ==
    /\ pc[t] = "clear"
    /\ is_nodrop_pkt' = FALSE
    /\ pc' = [pc EXCEPT ![t] = "idle"]
    /\ UNCHANGED <<TxQueue, TxLookupQueue, TxCredits, TxProcessCount, op, callers,
                   sendQ, tx_resources, pktVars, hifVars>>

(* Mutant: flushed packets are reported as sent. *)
HTCFlushEndpointTXAsSent(t) ==
    /\ pc[t] = "idle" /\ TxQueue # <<>>
    /\ GiveBack(Range(TxQueue), "A_OK")
    /\ TxQueue' = <<>>
    /\ UNCHANGED <<TxLookupQueue, TxCredits, TxProcessCount, is_nodrop_pkt, ctxVars,
                   onBus, hifVars>>

(* HTCFlushEndpointTX: the whole flush, callbacks included, runs under the *)
(* lock; packets a drainer holds are not touched.                          *)
HTCFlushEndpointTX(t) ==
    /\ pc[t] = "idle" /\ TxQueue # <<>>
    /\ GiveBack(Range(TxQueue), "A_ECANCELED")
    /\ TxQueue' = <<>>
    /\ UNCHANGED <<TxLookupQueue, TxCredits, TxProcessCount, is_nodrop_pkt, ctxVars,
                   onBus, hifVars>>

-----------------------------------------------------------------------------
(* The HIF completion thread.                                              *)

(* HTCLookupTxPacket: the packet whose netbuf completed, wherever it is. *)
Found(netbuf) == {p \in Range(TxLookupQueue) : p = netbuf}

(* HTCTxCompletionHandler: without credit flow the queue is rechecked. *)
HTCTxCompletionHandler ==
    /\ ~HttDataSvc
    /\ pc[Tasklet] = "idle" /\ ring # <<>>
    /\ ring' = Tail(ring)
    /\ TxLookupQueue' = HTC_PACKET_REMOVE(TxLookupQueue, Head(ring))
    /\ GiveBack(Found(Head(ring)), "A_OK")
    /\ op' = [op EXCEPT ![Tasklet] = "complete"]
    /\ pc' = [pc EXCEPT ![Tasklet] = IF CreditFlow THEN "recycle" ELSE "resources"]
    /\ UNCHANGED <<TxQueue, TxCredits, TxProcessCount, is_nodrop_pkt, callers, sendQ,
                   tx_resources, onBus, num_sends_allowed, heldAsked, heldQuiet>>

(* hif_completion_thread frees the bus entry after the callback returned. *)
RecycleEntry ==
    /\ pc[Tasklet] = "recycle"
    /\ num_sends_allowed' = num_sends_allowed + 1
    /\ pc' = [pc EXCEPT ![Tasklet] = "idle"]
    /\ UNCHANGED <<epVars, op, callers, sendQ, tx_resources, pktVars, ring, heldAsked,
                   heldQuiet>>

(* CE_per_engine_servicereap on the HTT pipe: the entry is freed without a *)
(* callback to HTC; HTT frees the packet from its own list.                *)
CE_per_engine_servicereap ==
    /\ HttDataSvc
    /\ ring # <<>>
    /\ ring' = Tail(ring)
    /\ num_sends_allowed' = num_sends_allowed + 1
    /\ client' = client \cup {Head(ring)}
    /\ nbuf' = [nbuf EXCEPT ![Head(ring)] = Fresh]
    /\ status' = [status EXCEPT ![Head(ring)] = "none"]
    /\ needUpdate' = needUpdate \ {Head(ring)}
    /\ UNCHANGED <<epVars, ctxVars, onBus, heldAsked, heldQuiet>>

(* Mutant: the queue is not rechecked after a credit report. *)
HTCProcessCreditRptNoRecheck(asked, quiet) ==
    /\ CreditFlow
    /\ pc[Tasklet] = "idle"
    /\ asked + quiet > 0 /\ asked <= heldAsked /\ quiet <= heldQuiet
    /\ heldAsked' = heldAsked - asked
    /\ heldQuiet' = heldQuiet - quiet
    /\ TxCredits' = TxCredits + asked + quiet
    /\ UNCHANGED <<TxQueue, TxLookupQueue, TxProcessCount, is_nodrop_pkt, ctxVars,
                   pktVars, num_sends_allowed, ring>>

(* HTCProcessCreditRpt: the target returns credits of messages that asked  *)
(* for them and of others; the queue is rechecked if there is something to *)
(* send.                                                                   *)
HTCProcessCreditRpt(asked, quiet) ==
    /\ CreditFlow
    /\ pc[Tasklet] = "idle"
    /\ asked + quiet > 0 /\ asked <= heldAsked /\ quiet <= heldQuiet
    /\ heldAsked' = heldAsked - asked
    /\ heldQuiet' = heldQuiet - quiet
    /\ TxCredits' = TxCredits + asked + quiet
    /\ op' = [op EXCEPT ![Tasklet] = "rpt"]
    /\ pc' = [pc EXCEPT ![Tasklet] =
                 IF TxCredits' # 0 /\ TxQueue # <<>> THEN "resources" ELSE "idle"]
    /\ UNCHANGED <<TxQueue, TxLookupQueue, TxProcessCount, is_nodrop_pkt, callers, sendQ,
                   tx_resources, pktVars, num_sends_allowed, ring>>

-----------------------------------------------------------------------------
Init ==
    /\ TxQueue = <<>> /\ TxLookupQueue = <<>>
    /\ TxCredits = TxAlloc
    /\ TxProcessCount = 0
    /\ is_nodrop_pkt = FALSE
    /\ pc = [t \in Contexts |-> "idle"]
    /\ op = [t \in Contexts |-> "send"]
    /\ callers = [t \in Contexts |-> <<>>]
    /\ sendQ = [t \in Contexts |-> <<>>]
    /\ tx_resources = [t \in Contexts |-> 0]
    /\ needUpdate = {}
    /\ nbuf = [p \in Packets |-> Fresh]
    /\ num_sends_allowed = SrcEntries
    /\ ring = <<>>
    /\ heldAsked = 0 /\ heldQuiet = 0
    /\ client = Packets
    /\ status = [p \in Packets |-> "none"]
    /\ onBus = {}

(* A step of a context inside HTCTrySend. *)
TrySendStep(t) ==
    \/ CheckOverflow(t)
    \/ ReadResources(t)
    \/ EnterTrySend(t)
    \/ IssuePacket(t)
    \/ HIFSend_head(t)
    \/ IssueFailed(t)
    \/ Requeue(t)
    \/ RefreshResources(t)
    \/ DrainAgain(t)
    \/ CompleteLeftovers(t)
    \/ HTCSetNodropPkt(t)

Next ==
    \/ \E t \in Threads : HTCSendPktsMultiple(t) \/ HTCFlushEndpointTX(t)
    \/ \E t \in Contexts : TrySendStep(t)
    \/ HTCTxCompletionHandler
    \/ RecycleEntry
    \/ CE_per_engine_servicereap
    \/ \E asked, quiet \in 0..TxAlloc : HTCProcessCreditRpt(asked, quiet)

Spec == Init /\ [][Next]_vars

(***************************************************************************)
(* Contexts are scheduled, completions of the copy engine are serviced,    *)
(* and the target returns the credits it was asked for; it may keep the    *)
(* others for ever.                                                        *)
(***************************************************************************)
Fairness ==
    /\ \A t \in Contexts : WF_vars(TrySendStep(t))
    /\ WF_vars(HTCTxCompletionHandler)
    /\ WF_vars(RecycleEntry)
    /\ WF_vars(CE_per_engine_servicereap)
    /\ WF_vars(\E asked \in 1..TxAlloc, quiet \in 0..TxAlloc :
                  HTCProcessCreditRpt(asked, quiet))

FairSpec == Spec /\ Fairness

-----------------------------------------------------------------------------
(* Properties.                                                             *)

(* Contexts past "beyond this point only 1 thread may enter" in HTCTrySend. *)
Drainers == {t \in Contexts : pc[t] \in {"issue", "hif", "requeue", "drain"}}

(* The packets the draining context took off TxQueue and has not sent. *)
InHand == IF Drainers = {} THEN <<>> ELSE sendQ[CHOOSE t \in Drainers : TRUE]

(* Contexts that will still take the lock and look at TxQueue. *)
Arriving == {t \in Contexts : pc[t] \in {"overflow", "resources", "enter"}}

(* Where a context can be in HTCSendPktsMultiple and HTCTrySend. *)
Places == {"idle", "overflow", "resources", "enter", "issue", "hif", "requeue", "drain",
           "cleanup", "clear", "recycle"}

(* Type correctness of the endpoint, its contexts and the bus. *)
TypeOK ==
    /\ TxQueue \in Seq(Packets) /\ TxLookupQueue \in Seq(Packets)
    /\ TxCredits \in Int /\ TxProcessCount \in {0, 1}
    /\ is_nodrop_pkt \in BOOLEAN
    /\ pc \in [Contexts -> Places]
    /\ op \in [Contexts -> {"send", "nodrop", "complete", "rpt"}]
    /\ callers \in [Contexts -> Seq(Packets)]
    /\ sendQ \in [Contexts -> Seq(Packets)]
    /\ tx_resources \in [Contexts -> Nat]
    /\ needUpdate \subseteq Packets
    /\ nbuf \in [Packets -> Netbufs]
    /\ num_sends_allowed \in Nat
    /\ ring \in Seq(Packets)
    /\ heldAsked \in Nat /\ heldQuiet \in Nat
    /\ client \subseteq Packets
    /\ status \in [Packets -> {"none", "A_OK", "A_ECANCELED", "A_NO_RESOURCE"}]
    /\ onBus \subseteq Packets

(* HTCTrySend: TxProcessCount is set exactly while one context drains the  *)
(* endpoint, so HTCIssuePackets never runs twice at once for an endpoint   *)
(* although it runs without the lock.                                      *)
SingleDrainer ==
    /\ \A t, u \in Drainers : t = u
    /\ TxProcessCount = IF Drainers = {} THEN 0 ELSE 1

(* The positions of a packet in a queue, and everywhere. *)
Slots(q, p) == {i \in DOMAIN q : q[i] = p}

QueuePlaces(p) == {<<"queue", i>> : i \in Slots(TxQueue, p)}
RingPlaces(p) == {<<"ring", i>> : i \in Slots(ring, p)}
SendPlaces(p) == UNION {{<<"send", t, i>> : i \in Slots(sendQ[t], p)} : t \in Contexts}
CallPlaces(p) == UNION {{<<"call", t, i>> : i \in Slots(callers[t], p)} : t \in Contexts}
ClientPlaces(p) == IF p \in client THEN {<<"client">>} ELSE {}

PlacesOf(p) == QueuePlaces(p) \cup RingPlaces(p) \cup SendPlaces(p) \cup CallPlaces(p)
               \cup ClientPlaces(p)

(* Whatever races with whatever (flush, drain, failed HIFSend_head,        *)
(* completion), a packet is in exactly one queue or with its client: none  *)
(* is lost, none is completed twice.                                       *)
PacketConserved == \A p \in Packets : Cardinality(PlacesOf(p)) = 1

(* Credits are neither minted nor leaked: what the endpoint has, what the  *)
(* drainer's packets were charged and what the target still owes add up to *)
(* the allocation of HTCConnectService, also after HIFSend_head failed and *)
(* HTCIssuePackets reclaimed the charges of several packets.               *)
CreditsConserved ==
    CreditFlow =>
        LET charged == IF \E t \in Drainers : pc[t] = "requeue" THEN {} ELSE Range(InHand)
        IN  /\ TxCredits >= 0
            /\ TxCredits + Credits(charged) + heldAsked + heldQuiet = TxAlloc

(* HTCLookupTxPacket's fast path: completions come in the order of         *)
(* TxLookupQueue, so the packet of a completed netbuf is always at its     *)
(* head and the queue is never emptied into a local one without the lock.  *)
LookupInBusOrder ==
    ~HttDataSvc =>
        TxLookupQueue =
            ring \o (IF \E t \in Drainers : pc[t] = "hif" THEN <<Head(InHand)>> ELSE <<>>)

(* RestoreTxPacket and HTC_TX_PACKET_FLAG_FIXUP_NETBUF: a netbuf in the    *)
(* copy engine carries exactly one HTC header and is marked, so that its   *)
(* completion takes the header off and unmaps it.  Without credit flow it  *)
(* was given to adf_nbuf_map exactly once, and a client gets back what it  *)
(* posted, header and mapping undone once, although RestoreTxPacket runs   *)
(* twice on a packet that overflows and sends fail and are repeated.       *)
(* Otherwise the DMA tracking of adf_nbuf.c asserts: "Double nbuf map      *)
(* detected", "Double nbuf unmap or unmap without map detected".           *)
NetbufsRestored ==
    /\ \A p \in Range(ring) : nbuf[p].hdr = 1 /\ nbuf[p].fixup
    /\ ~CreditFlow => /\ \A p \in Range(ring) : nbuf[p].maps = 1
                      /\ \A p \in client : nbuf[p] = Fresh

(* A client is told A_OK only for a packet the bus accepted, and           *)
(* A_ECANCELED or A_NO_RESOURCE only for one it never saw, although flush, *)
(* send-full and failed sends all hand packets back and forth.             *)
CompletionTruthful == \A p \in client :
    /\ status[p] = "A_OK" => p \in onBus
    /\ status[p] \in {"A_ECANCELED", "A_NO_RESOURCE"} => p \notin onBus

(* No lost wakeup on a credit endpoint: packets are left in TxQueue with   *)
(* nobody draining it, or on the way to, only when the credits really do   *)
(* not cover the first one, and then the target holds credits it was asked *)
(* to return (HTC_FLAGS_NEED_CREDIT_UPDATE), so a report will come.        *)
CreditWakeup ==
    (TxQueue # <<>> /\ Drainers = {} /\ Arriving = {}) =>
        /\ TxCredits < CreditsRequired(Head(TxQueue))
        /\ heldAsked > 0

(* HTCTxCompletionHandler, "in the non-TX credit case, we recheck after    *)
(* the packet completes": when nothing is on the bus and no context is at  *)
(* work, no packet is left behind in TxQueue.                              *)
NoStrandedPacket ==
    ((\A t \in Contexts : pc[t] = "idle") /\ ring = <<>>) => TxQueue = <<>>

(* The endpoint implements the FIFO channel its clients see: taking        *)
(* packets off TxQueue, failing to send them and putting them back are     *)
(* invisible, whatever is queued meanwhile.                                *)
Channel == INSTANCE HTCChannel
    WITH queue <- InHand \o TxQueue, bus <- ring, urgent <- is_nodrop_pkt

ImplementsChannel == Channel!Spec

(* Every packet posted to a credit endpoint is eventually completed or     *)
(* cancelled, although the target may keep for ever every credit it was    *)
(* not asked to return.                                                    *)
EveryPacketReturned == \A p \in Packets : (p \notin client) ~> (p \in client)

=============================================================================
