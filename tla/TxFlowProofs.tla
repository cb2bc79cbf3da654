---------------------------- MODULE TxFlowProofs ----------------------------
(***************************************************************************)
(* The transmit flow, proved for every list of vdevs, every set of OS      *)
(* queues and every pool, depth, budget and watermark.                     *)
(*                                                                         *)
(* Every action is an instance of one of a few moves of frames (take,      *)
(* enqueue, send, give back, complete, ...).  FrameInv is proved for each  *)
(* move once; then each action is shown to be a move.                      *)
(***************************************************************************)
EXTENDS TxFlow, FiniteSetTheorems, SequenceTheorems, WellFoundedInduction, TLAPS

-----------------------------------------------------------------------------
(* The operators the model is built from *)

(* A nonempty set of naturals has a least element. *)
LEMMA LeastNat ==
  ASSUME NEW S \in SUBSET Nat, S # {}
  PROVE  \E x \in S : \A y \in S : x <= y
<1> DEFINE R == OpToRel(<, Nat)
<1>1. IsWellFoundedOn(R, Nat)
  BY NatLessThanWellFounded
<1>2. \A x, y \in Nat : x < y => <<x, y>> \in R
  BY DEF OpToRel
<1> HIDE DEF R
<1>3. PICK x \in S : \A y \in S : ~(<<y, x>> \in R)
  BY <1>1, WFMin
<1>4. \A y \in S : ~(y < x)
  BY <1>2, <1>3
<1> QED
  BY <1>4

LEMMA MinIsIn ==
  ASSUME NEW S \in SUBSET Nat, S # {}
  PROVE  Min(S) \in S
BY LeastNat DEF Min

(* The walk of the list stays among the vdevs. *)
LEMMA WalkType ==
  /\ vdev_list[1] \in Vdevs
  /\ OnList # {} => FirstVdev \in Vdevs
  /\ \A v : ~IsLast(v) => NextVdev(v) \in Vdevs
<1>1. vdev_list \in Seq(Vdevs) /\ vdev_list # <<>>
  BY FlowAssumption
<1>2. \A i \in DOMAIN vdev_list : i \in Nat /\ vdev_list[i] \in Vdevs
  BY <1>1
<1>3. OnList \subseteq Nat /\ \A v : Behind(v) \subseteq Nat
  BY <1>2 DEF OnList, Behind
<1>4. OnList # {} => Min(OnList) \in DOMAIN vdev_list
  BY <1>3, MinIsIn DEF OnList
<1>5. \A v : Behind(v) # {} => Min(Behind(v)) \in DOMAIN vdev_list
  BY <1>3, MinIsIn DEF OnList, Behind
<1> QED
  BY <1>1, <1>2, <1>4, <1>5 DEF FirstVdev, NextVdev, IsLast

LEMMA FrameFacts ==
  ASSUME NEW f \in Frames
  PROVE  f[1] \in Queues /\ f[2] \in Nat \ {0} /\ f # NoFrame
         /\ f[2] <= MaxFrames[f[1]] /\ f = <<f[1], f[2]>>
BY FlowAssumption DEF Frames, NoFrame

LEMMA FrameMade ==
  ASSUME NEW q \in Queues, NEW k \in Nat, k < MaxFrames[q]
  PROVE  <<q, k + 1>> \in Frames
BY FlowAssumption DEF Frames


LEMMA SeqFacts ==
  ASSUME NEW T, NEW s \in Seq(T)
  PROVE  /\ Len(s) \in Nat /\ DOMAIN s = 1..Len(s)
         /\ \A i \in 1..Len(s) : s[i] \in T
         /\ s # <<>> => /\ 1 \in 1..Len(s) /\ Head(s) = s[1]
                        /\ Tail(s) \in Seq(T) /\ Len(Tail(s)) = Len(s) - 1
                        /\ \A i \in 1..Len(Tail(s)) : i + 1 \in 1..Len(s) /\ Tail(s)[i] = s[i + 1]
         /\ \A x \in T : /\ Append(s, x) \in Seq(T) /\ Len(Append(s, x)) = Len(s) + 1
                         /\ \A i \in 1..Len(s) : Append(s, x)[i] = s[i]
                         /\ Append(s, x)[Len(s) + 1] = x
         /\ Range(s) = {s[i] : i \in 1..Len(s)}
<1>1. Len(s) \in Nat /\ DOMAIN s = 1..Len(s) /\ \A i \in 1..Len(s) : s[i] \in T
  OBVIOUS
<1>2. s # <<>> => /\ 1 \in 1..Len(s) /\ Head(s) = s[1]
                  /\ Tail(s) \in Seq(T) /\ Len(Tail(s)) = Len(s) - 1
                  /\ \A i \in 1..Len(Tail(s)) : i + 1 \in 1..Len(s) /\ Tail(s)[i] = s[i + 1]
  OBVIOUS
<1>3. \A x \in T : /\ Append(s, x) \in Seq(T) /\ Len(Append(s, x)) = Len(s) + 1
                   /\ \A i \in 1..Len(s) : Append(s, x)[i] = s[i]
                   /\ Append(s, x)[Len(s) + 1] = x
  OBVIOUS
<1>4. Range(s) = {s[i] : i \in 1..Len(s)}
  BY <1>1 DEF Range
<1> QED
  BY <1>1, <1>2, <1>3, <1>4

-----------------------------------------------------------------------------
(***************************************************************************)
(* The moves of a frame.  Every action of TxFlow is one of these, as far   *)
(* as frames, locks and pause reasons go; what it does to the timers and   *)
(* to flow control is left out.                                            *)
(***************************************************************************)

(* Where a context has a frame of its own queue, one it took off a pause   *)
(* queue, and where it holds the lock of its vdev.                         *)
Own == {"resource", "stop", "timer", "start", "flag", "queue", "depth", "send", "append"}
Drain == {"tx", "roundtx"}
Locked == Drain \cup {"timerfree"}

CtxRec == [pc : Labels, v : Vdevs, msdu : Frames \cup {NoFrame}, n : Int, b : BOOLEAN]
CtxType == ctx \in [Contexts -> CtxRec]

Free(c) == ctx[c].pc \notin Own \cup Locked
Local(c) == CtxType' /\ \A d \in Contexts \ {c} : ctx'[d] = ctx[d]

(* A step of a context that has neither a frame nor a lock. *)
Quiet(c) ==
  /\ Local(c) /\ Free(c) /\ Free(c)' /\ ctx'[c].msdu \in {ctx[c].msdu, NoFrame}
  /\ UNCHANGED <<next, txq, mutex, poolVars>>
  /\ \A v \in Vdevs : paused_reason'[v] \subseteq paused_reason[v]

(* A sender goes on with its frame; to "send" only with an EAPOL frame or   *)
(* past an empty pause queue.                                              *)
Decide(q) ==
  /\ Local(q) /\ ctx[q].pc \in Own /\ ctx'[q].pc \in Own /\ ctx'[q].msdu = ctx[q].msdu
  /\ ctx'[q].pc = "send" => ctx[q].msdu \in Eapol \/ txq[VdevOf[q]] = <<>>
  /\ UNCHANGED <<next, txq, mutex, poolVars, paused_reason>>

Arrive(q) ==
  /\ Local(q) /\ Free(q) /\ next[q] < MaxFrames[q]
  /\ ctx'[q].pc \in Own \ {"send"} /\ ctx'[q].msdu = <<q, next[q] + 1>>
  /\ next' = [next EXCEPT ![q] = @ + 1]
  /\ UNCHANGED <<txq, mutex, poolVars, paused_reason>>

(* The frame in hand goes to the target or back to the stack. *)
Give(c) ==
  /\ Local(c) /\ ctx[c].pc \in Drain \cup {"send"} /\ Free(c)' /\ ctx'[c].msdu = NoFrame
  /\ ol_tx_ll(ctx[c].msdu)
  /\ mutex' = IF ctx[c].pc = "send" THEN mutex ELSE [mutex EXCEPT ![ctx[c].v] = Nobody]
  /\ UNCHANGED <<next, txq, paused_reason>>

TakeHead(c) ==
  LET v == ctx[c].v IN
  /\ Local(c) /\ ctx'[c].pc \in Drain /\ ctx'[c].v = v /\ ctx'[c].msdu = Head(txq[v])
  /\ txq[v] # <<>> /\ txq' = [txq EXCEPT ![v] = Tail(@)]
  /\ mutex' = [mutex EXCEPT ![v] = c]
  /\ UNCHANGED <<next, paused_reason>>

Take(c) ==
  /\ Free(c) /\ Unlocked(ctx[c].v) /\ paused_reason[ctx[c].v] = {}
  /\ TakeHead(c) /\ UNCHANGED poolVars

GiveTake(c) == ctx[c].pc \in Drain /\ ol_tx_ll(ctx[c].msdu) /\ TakeHead(c)

Enqueue(q) ==
  LET v == VdevOf[q]
      f == ctx[q].msdu
      room == Len(txq[v]) < max_q_depth IN
  /\ Local(q) /\ ctx[q].pc = "append" /\ Free(q)' /\ ctx'[q].msdu = NoFrame /\ Unlocked(v)
  /\ txq' = [txq EXCEPT ![v] = IF room THEN Append(@, f) ELSE @]
  /\ freed' = IF room THEN freed ELSE freed \cup {f}
  /\ UNCHANGED <<next, mutex, num_free, target, mgmt, paused_reason>>

(* The frames of an unlocked queue, or of one the control thread has locked *)
(* and now unlocks, are given back.                                        *)
Empty(v) ==
  /\ \/ UNCHANGED <<ctx, mutex>> /\ Unlocked(v)
     \/ /\ ctx["ctl"].pc = "timerfree" /\ ctx["ctl"].v = v
        /\ Local("ctl") /\ Free("ctl")' /\ ctx'["ctl"].msdu = NoFrame
        /\ mutex' = [mutex EXCEPT ![v] = Nobody]
  /\ freed' = freed \cup Range(txq[v])
  /\ txq' = [txq EXCEPT ![v] = <<>>]
  /\ UNCHANGED <<next, num_free, target, mgmt, paused_reason>>

LockVdev(v) ==
  /\ Local("ctl") /\ Free("ctl") /\ ctx'["ctl"].pc = "timerfree" /\ ctx'["ctl"].v = v
  /\ ctx'["ctl"].msdu = ctx["ctl"].msdu
  /\ Unlocked(v) /\ mutex' = [mutex EXCEPT ![v] = "ctl"]
  /\ UNCHANGED <<next, txq, poolVars, paused_reason>>

PauseVdev(v) ==
  /\ Unlocked(v) /\ \A w \in Vdevs \ {v} : paused_reason'[w] = paused_reason[w]
  /\ UNCHANGED <<ctx, next, txq, mutex, poolVars>>

Complete(S) ==
  /\ S \subseteq target /\ target' = target \ S
  /\ num_free' = num_free + Cardinality(S) /\ freed' = freed \cup S
  /\ Local("cpl") /\ Free("cpl") /\ Free("cpl")' /\ ctx'["cpl"].msdu = ctx["cpl"].msdu
  /\ UNCHANGED <<next, txq, mgmt, mutex, paused_reason>>

(* A descriptor for a management frame, taken or given back. *)
Manage ==
  /\ \E k \in -1..1 : num_free' = num_free - k /\ mgmt' = mgmt + k
  /\ UNCHANGED <<ctx, next, txq, target, freed, mutex, paused_reason>>

Move ==
  \/ \E c \in Contexts : Quiet(c) \/ Give(c) \/ Take(c) \/ GiveTake(c)
  \/ \E q \in Queues : Decide(q) \/ Arrive(q) \/ Enqueue(q)
  \/ \E v \in Vdevs : Empty(v) \/ LockVdev(v) \/ PauseVdev(v)
  \/ \E S \in SUBSET target : Complete(S)
  \/ Manage

-----------------------------------------------------------------------------
(***************************************************************************)
(* The inductive invariant.  HandInv: a context has a frame exactly where  *)
(* the code has one in its hands, and a sender's is the last its queue      *)
(* handed over.  LockInv: who drains or detaches holds the lock, and a     *)
(* drainer's vdev is not paused.  HomeInv: frames stay with their vdev.    *)
(* OnceInv: no frame is in two places.  KnownInv: the frames handed over   *)
(* are those that are somewhere.  OrderInv: of one OS queue, the older      *)
(* frame is ahead.  PoolInv: the descriptors are accounted for.            *)
(***************************************************************************)
HandInv ==
  \A c \in Contexts :
    /\ ctx[c].msdu = NoFrame <=> ctx[c].pc \notin Own \cup Drain
    /\ ctx[c].pc \in Own => c \in Queues /\ ctx[c].msdu = <<c, next[c]>>

LockInv ==
  \A c \in Contexts :
    /\ ctx[c].pc \in Locked => mutex[ctx[c].v] = c
    /\ ctx[c].pc \in Drain => paused_reason[ctx[c].v] = {}

HomeInv ==
  /\ \A c \in Contexts : ctx[c].pc \in Drain => VdevOf[ctx[c].msdu[1]] = ctx[c].v
  /\ \A v \in Vdevs : \A i \in 1..Len(txq[v]) : VdevOf[txq[v][i][1]] = v

OnceInv ==
  /\ \A c, d \in Contexts : ctx[c].msdu = ctx[d].msdu /\ ctx[c].msdu # NoFrame => c = d
  /\ \A v, w \in Vdevs : \A i \in 1..Len(txq[v]), j \in 1..Len(txq[w]) :
       txq[v][i] = txq[w][j] => v = w /\ i = j
  /\ \A c \in Contexts : \A v \in Vdevs : \A i \in 1..Len(txq[v]) : ctx[c].msdu # txq[v][i]
  /\ \A c \in Contexts : ctx[c].msdu \notin target \cup freed
  /\ \A v \in Vdevs : \A i \in 1..Len(txq[v]) : txq[v][i] \notin target \cup freed
  /\ target \cap freed = {}

Somewhere(f) ==
  \/ f \in target \cup freed
  \/ \E c \in Contexts : ctx[c].msdu = f
  \/ \E v \in Vdevs : \E i \in 1..Len(txq[v]) : txq[v][i] = f

KnownInv == \A f \in Frames : f[2] <= next[f[1]] <=> Somewhere(f)

OrderInv ==
  /\ \A v \in Vdevs : \A i, j \in 1..Len(txq[v]) :
       i < j /\ txq[v][i][1] = txq[v][j][1] => txq[v][i][2] < txq[v][j][2]
  /\ \A c \in Contexts : ctx[c].pc \in Drain =>
       \A i \in 1..Len(txq[ctx[c].v]) :
         ctx[c].msdu[1] = txq[ctx[c].v][i][1] => ctx[c].msdu[2] < txq[ctx[c].v][i][2]
  /\ \A q \in Queues : ctx[q].pc = "send" /\ ctx[q].msdu \notin Eapol =>
       \A i \in 1..Len(txq[VdevOf[q]]) : txq[VdevOf[q]][i][1] # q

PoolInv ==
  /\ IsFiniteSet(target) /\ num_free + Cardinality(target) + mgmt = PoolSize
  /\ \A v \in Vdevs : Len(txq[v]) <= max_q_depth

FrameInv == HandInv /\ LockInv /\ HomeInv /\ OnceInv /\ KnownInv /\ OrderInv /\ PoolInv

-----------------------------------------------------------------------------
(* Every action is a move and keeps the types *)

LEMMA PutShape ==
  ASSUME CtxType, NEW c \in Contexts, NEW r \in CtxRec, ctx' = [ctx EXCEPT ![c] = r]
  PROVE  Local(c) /\ ctx'[c] = r
BY DEF CtxType, Local

LEMMA GotoShape ==
  ASSUME CtxType, NEW c \in Contexts, NEW l \in Labels, Goto(c, l)
  PROVE  /\ Local(c) /\ ctx'[c].pc = l
         /\ ctx'[c].v = ctx[c].v /\ ctx'[c].msdu = ctx[c].msdu
BY DEF CtxType, CtxRec, Local, Goto

LEMMA ReturnShape ==
  ASSUME CtxType, NEW c \in Contexts, Return(c)
  PROVE  Local(c) /\ ctx'[c].pc = "idle" /\ ctx'[c].msdu = NoFrame
<1>1. vdev_list[1] \in Vdevs
  BY WalkType
<1> DEFINE w == IF c \in Queues \cup Vdevs THEN ctx[c].v ELSE vdev_list[1]
           r == [Idle EXCEPT !.v = w]
<1>2. ctx' = [ctx EXCEPT ![c] = r]
  BY DEF Return
<1>3. w \in Vdevs
  BY <1>1 DEF CtxType, CtxRec
<1>4. r \in CtxRec /\ r.pc = "idle" /\ r.msdu = NoFrame
  <2>1. "idle" \in Labels
    BY DEF Labels
  <2>2. Idle \in CtxRec /\ Idle.pc = "idle" /\ Idle.msdu = NoFrame
    BY <1>1, <2>1 DEF CtxRec, Idle
  <2> HIDE DEF w
  <2> QED
    BY <1>3, <2>2 DEF CtxRec
<1> HIDE DEF r
<1> QED
  BY <1>2, <1>4, PutShape

LEMMA ArriveStep ==
  ASSUME TypeOK, NEW q \in Queues, hdd_hard_start_xmit(q)
  PROVE  TypeOK' /\ Arrive(q)
<1>1. q \in Contexts /\ CtxType
  BY DEF Contexts, TypeOK, CtxType, CtxRec
<1>2. <<q, next[q] + 1>> \in Frames
  BY FrameMade DEF hdd_hard_start_xmit, TypeOK
<1>3. Local(q) /\ ctx'[q].pc \in {"queue", "resource"} /\ ctx'[q].msdu = <<q, next[q] + 1>>
  <2> DEFINE f == <<q, next[q] + 1>>
             l == IF is_txflow_paused[VdevOf[q]] \/ low_watermark = 0
                  THEN "queue" ELSE "resource"
             r == [ctx[q] EXCEPT !.msdu = f, !.pc = l]
  <2>1. ctx' = [ctx EXCEPT ![q] = r]
    BY <1>1 DEF hdd_hard_start_xmit, CtxType, CtxRec
  <2>2. f \in Frames /\ l \in {"queue", "resource"} /\ l \in Labels /\ ctx[q] \in CtxRec
    BY <1>1, <1>2 DEF Labels, CtxType
  <2>3. r \in CtxRec /\ r.pc = l /\ r.msdu = f
    <3> HIDE DEF f, l
    <3> QED
      BY <2>2 DEF CtxRec
  <2> HIDE DEF r
  <2> QED
    BY <1>1, <2>1, <2>2, <2>3, PutShape
<1>4. Arrive(q)
  BY <1>3 DEF Arrive, hdd_hard_start_xmit, At, Free, Own, Locked, Drain, llVars, poolVars
<1>5. TypeOK'
  <2>1. next' \in [Queues -> Nat]
    BY DEF TypeOK, hdd_hard_start_xmit
  <2> QED
    BY <1>3, <2>1 DEF TypeOK, Local, CtxType, CtxRec, hdd_hard_start_xmit, llVars, poolVars,
                      throttleVars, flowVars, hddVars
<1> QED
  BY <1>4, <1>5

LEMMA DecideStep ==
  ASSUME TypeOK, NEW q \in Queues,
         \/ ol_txrx_get_tx_resource(q) \/ wlan_hdd_netif_queue_stop(q)
         \/ vos_timer_getCurrentState(q) \/ vos_timer_start(q) \/ hdd_set_txflow_paused(q)
         \/ ol_tx_ll_queue_reason(q) \/ ol_tx_ll_queue_depth(q)
  PROVE  TypeOK' /\ Decide(q)
<1>1. q \in Contexts /\ CtxType /\ VdevOf[q] \in Vdevs
  BY FlowAssumption DEF Contexts, TypeOK, CtxType, CtxRec
<1>2. CASE ol_txrx_get_tx_resource(q)
  <2>1. Local(q) /\ ctx'[q].pc \in {"stop", "queue"} /\ ctx'[q].msdu = ctx[q].msdu
    BY <1>1, <1>2, GotoShape DEF ol_txrx_get_tx_resource, Labels
  <2>2. Decide(q)
    BY <1>2, <2>1 DEF ol_txrx_get_tx_resource, Decide, At, Own, llVars, poolVars
  <2>3. TypeOK'
    BY <1>1, <1>2, <2>1, FlowAssumption
    DEF TypeOK, Local, CtxType, CtxRec, ol_txrx_get_tx_resource, llVars, poolVars,
        throttleVars, flowVars, hddVars
  <2> QED
    BY <2>2, <2>3
<1>3. CASE wlan_hdd_netif_queue_stop(q)
  <2>1. Local(q) /\ ctx'[q].pc = "timer" /\ ctx'[q].msdu = ctx[q].msdu
    BY <1>1, <1>3, GotoShape DEF wlan_hdd_netif_queue_stop, Labels
  <2>2. Decide(q)
    BY <1>3, <2>1 DEF wlan_hdd_netif_queue_stop, Decide, At, Own, llVars, poolVars
  <2>3. TypeOK'
    BY <1>1, <1>3, <2>1
    DEF TypeOK, Local, CtxType, CtxRec, wlan_hdd_netif_queue_stop, llVars, poolVars,
        throttleVars, flowVars, hddVars
  <2> QED
    BY <2>2, <2>3
<1>4. CASE vos_timer_getCurrentState(q)
  <2>1. Local(q) /\ ctx'[q].pc \in {"start", "queue"} /\ ctx'[q].msdu = ctx[q].msdu
    BY <1>1, <1>4, GotoShape DEF vos_timer_getCurrentState, Labels
  <2>2. Decide(q)
    BY <1>4, <2>1 DEF vos_timer_getCurrentState, Decide, At, Own, llVars, poolVars
  <2>3. TypeOK'
    BY <1>1, <1>4, <2>1
    DEF TypeOK, Local, CtxType, CtxRec, vos_timer_getCurrentState, llVars, poolVars,
        throttleVars, flowVars, hddVars
  <2> QED
    BY <2>2, <2>3
<1>5. CASE vos_timer_start(q)
  <2>1. Local(q) /\ ctx'[q].pc = "flag" /\ ctx'[q].msdu = ctx[q].msdu
    BY <1>1, <1>5, GotoShape DEF vos_timer_start, Labels
  <2>2. Decide(q)
    BY <1>5, <2>1 DEF vos_timer_start, Decide, At, Own, llVars, poolVars
  <2>3. TypeOK'
    BY <1>1, <1>5, <2>1
    DEF TypeOK, Local, CtxType, CtxRec, vos_timer_start, llVars, poolVars,
        throttleVars, flowVars, hddVars
  <2> QED
    BY <2>2, <2>3
<1>6. CASE hdd_set_txflow_paused(q)
  <2>1. Local(q) /\ ctx'[q].pc = "queue" /\ ctx'[q].msdu = ctx[q].msdu
    BY <1>1, <1>6, GotoShape DEF hdd_set_txflow_paused, Labels
  <2>2. Decide(q)
    BY <1>6, <2>1 DEF hdd_set_txflow_paused, Decide, At, Own, llVars, poolVars
  <2>3. TypeOK'
    BY <1>1, <1>6, <2>1
    DEF TypeOK, Local, CtxType, CtxRec, hdd_set_txflow_paused, llVars, poolVars,
        throttleVars, flowVars, hddVars
  <2> QED
    BY <2>2, <2>3
<1>7. CASE ol_tx_ll_queue_reason(q)
  <2> DEFINE reason == paused_reason[VdevOf[q]]
             l == IF reason = {} THEN "depth"
                  ELSE IF reason = {"PEER_UNAUTHORIZED"} /\ ctx[q].msdu \in Eapol
                  THEN "send" ELSE "append"
             x == reason # {} /\ "VDEV_SUSPEND" \notin reason
             r == [ctx[q] EXCEPT !.pc = l, !.b = x]
  <2>1. ctx' = [ctx EXCEPT ![q] = r]
    BY <1>1, <1>7 DEF ol_tx_ll_queue_reason, CtxType, CtxRec
  <2>2. Local(q) /\ ctx'[q].pc = l /\ ctx'[q].msdu = ctx[q].msdu
    <3>1. l \in Labels /\ x \in BOOLEAN /\ ctx[q] \in CtxRec
      BY <1>1 DEF Labels, CtxType
    <3>2. r \in CtxRec /\ r.pc = l /\ r.msdu = ctx[q].msdu
      <4> HIDE DEF l, x
      <4> QED
        BY <3>1 DEF CtxRec
    <3> HIDE DEF r
    <3> QED
      BY <1>1, <2>1, <3>2, PutShape
  <2>3. Decide(q)
    BY <1>7, <2>2 DEF ol_tx_ll_queue_reason, Decide, At, Own, llVars, poolVars
  <2>4. TypeOK'
    BY <1>1, <1>7, <2>2
    DEF TypeOK, Local, CtxType, CtxRec, ol_tx_ll_queue_reason, llVars, poolVars,
        throttleVars, flowVars, hddVars
  <2> QED
    BY <2>3, <2>4
<1>8. CASE ol_tx_ll_queue_depth(q)
  <2> DEFINE backlog == txq[VdevOf[q]] # <<>> \/ throttle_level # 0
             l == IF backlog THEN "append" ELSE "send"
             k == IF backlog THEN 1 ELSE 0
             r == [ctx[q] EXCEPT !.pc = l, !.n = k]
  <2>1. ctx' = [ctx EXCEPT ![q] = r]
    BY <1>1, <1>8 DEF ol_tx_ll_queue_depth, CtxType, CtxRec
  <2>2. Local(q) /\ ctx'[q].pc = l /\ ctx'[q].msdu = ctx[q].msdu
    <3>1. l \in Labels /\ k \in Int /\ ctx[q] \in CtxRec
      BY <1>1 DEF Labels, CtxType
    <3>2. r \in CtxRec /\ r.pc = l /\ r.msdu = ctx[q].msdu
      <4> HIDE DEF l, k
      <4> QED
        BY <3>1 DEF CtxRec
    <3> HIDE DEF r
    <3> QED
      BY <1>1, <2>1, <3>2, PutShape
  <2>3. Decide(q)
    BY <1>8, <2>2 DEF ol_tx_ll_queue_depth, Decide, At, Own, llVars, poolVars
  <2>4. TypeOK'
    BY <1>1, <1>8, <2>2
    DEF TypeOK, Local, CtxType, CtxRec, ol_tx_ll_queue_depth, llVars, poolVars,
        throttleVars, flowVars, hddVars
  <2> QED
    BY <2>3, <2>4
<1> QED
  BY <1>2, <1>3, <1>4, <1>5, <1>6, <1>7, <1>8

LEMMA EnqueueStep ==
  ASSUME TypeOK, HandInv, NEW q \in Queues, ol_tx_vdev_pause_queue_append(q)
  PROVE  TypeOK' /\ Enqueue(q)
<1> USE DEF ol_tx_vdev_pause_queue_append
<1>1. q \in Contexts /\ CtxType /\ VdevOf[q] \in Vdevs
  BY FlowAssumption DEF Contexts, TypeOK, CtxType, CtxRec
<1>2. Local(q) /\ ctx'[q].pc \in {"throttle", "idle"} /\ ctx'[q].msdu = NoFrame
  <2>1. CASE ctx[q].n = 1
    <3> DEFINE l == "throttle"
               f == NoFrame
               k == 0
               r == [ctx[q] EXCEPT !.pc = l, !.msdu = f, !.n = k]
    <3>1. ctx' = [ctx EXCEPT ![q] = r]
      BY <1>1, <2>1 DEF CtxType, CtxRec
    <3>2. l \in Labels /\ f \in Frames \cup {NoFrame} /\ k \in Int /\ ctx[q] \in CtxRec
      BY <1>1 DEF Labels, CtxType
    <3>3. r \in CtxRec /\ r.pc = l /\ r.msdu = f
      <4> HIDE DEF l, f, k
      <4> QED
        BY <3>2 DEF CtxRec
    <3> HIDE DEF r
    <3> QED
      BY <1>1, <3>1, <3>3, PutShape
  <2>2. CASE ctx[q].n # 1
    BY <1>1, <2>2, ReturnShape
  <2> QED
    BY <2>1, <2>2
<1>3. Enqueue(q)
  BY <1>2 DEF Enqueue, At, Free, Own, Locked, Drain
<1>4. ctx[q].msdu \in Frames
  BY <1>1 DEF CtxType, CtxRec, HandInv, At, Own
<1>5. txq' \in [Vdevs -> Seq(Frames)] /\ freed' \subseteq Frames
  BY <1>1, <1>4, SeqFacts DEF TypeOK
<1>6. ll_timer' \in [Vdevs -> BOOLEAN]
  BY <1>1 DEF TypeOK, CtxType, CtxRec
<1>7. TypeOK'
  BY <1>2, <1>5, <1>6
  DEF TypeOK, Local, CtxType, CtxRec, llVars, poolVars, throttleVars, flowVars, hddVars
<1> QED
  BY <1>3, <1>7

LEMMA GiveType ==
  ASSUME TypeOK, NEW f \in Frames, ol_tx_ll(f)
  PROVE  num_free' \in Int /\ mgmt' \in Nat /\ target' \subseteq Frames /\ freed' \subseteq Frames
BY DEF TypeOK, ol_tx_ll

LEMMA SendStep ==
  ASSUME TypeOK, HandInv, NEW q \in Queues, ol_tx_ll_queue_send(q)
  PROVE  TypeOK' /\ Give(q)
<1> USE DEF ol_tx_ll_queue_send
<1>1. q \in Contexts /\ CtxType
  BY DEF Contexts, TypeOK, CtxType, CtxRec
<1>2. Local(q) /\ ctx'[q].pc = "idle" /\ ctx'[q].msdu = NoFrame
  BY <1>1, ReturnShape
<1>3. Give(q)
  BY <1>2 DEF Give, At, Free, Own, Locked, Drain, llVars
<1>4. ctx[q].msdu \in Frames
  BY <1>1 DEF CtxType, CtxRec, HandInv, At, Own
<1>5. TypeOK'
  BY <1>2, <1>4, GiveType
  DEF TypeOK, Local, CtxType, CtxRec, llVars, throttleVars, flowVars, hddVars
<1> QED
  BY <1>3, <1>5

LEMMA CheckThrottleStep ==
  ASSUME TypeOK, NEW c \in Contexts, CheckThrottle(c)
  PROVE  TypeOK' /\ Quiet(c)
<1> USE DEF CheckThrottle
<1>1. CtxType
  BY DEF TypeOK, CtxType, CtxRec
<1>2. Local(c) /\ ctx'[c].pc \in {"base", "idle"} /\ ctx'[c].msdu \in {ctx[c].msdu, NoFrame}
  BY <1>1, ReturnShape, GotoShape DEF Labels
<1>3. Quiet(c)
  BY <1>2 DEF Quiet, At, Free, Own, Locked, Drain, llVars, poolVars
<1>4. TypeOK'
  BY <1>2
  DEF TypeOK, Local, CtxType, CtxRec, llVars, poolVars, throttleVars, flowVars, hddVars
<1> QED
  BY <1>3, <1>4

(* One pass of the loop with the lock held. *)
LEMMA LoopShape ==
  ASSUME TypeOK, NEW c \in Contexts, NEW budget \in Int, SendBaseLoop(c, budget),
         UNCHANGED <<next, paused_reason>>
  PROVE  /\ txq' \in [Vdevs -> Seq(Frames)] /\ mutex' \in [Vdevs -> Contexts \cup {Nobody}]
         /\ ll_timer' \in [Vdevs -> BOOLEAN] /\ Local(c)
         /\ \/ TakeHead(c)
            \/ /\ ctx'[c].pc = "idle" /\ ctx'[c].msdu = NoFrame /\ UNCHANGED txq
               /\ mutex' = [mutex EXCEPT ![ctx[c].v] = Nobody]
<1> DEFINE v == ctx[c].v
<1>1. CtxType /\ ctx[c] \in CtxRec /\ v \in Vdevs
  BY DEF TypeOK, CtxType, CtxRec
<1>2. CASE budget > 0 /\ txq[v] # <<>>
  <2> DEFINE l == "tx"
             f == Head(txq[v])
             k == budget - 1
             r == [ctx[c] EXCEPT !.pc = l, !.msdu = f, !.n = k]
  <2>1. /\ mutex' = [mutex EXCEPT ![v] = c] /\ txq' = [txq EXCEPT ![v] = Tail(@)]
        /\ ctx' = [ctx EXCEPT ![c] = r] /\ UNCHANGED ll_timer
    BY <1>1, <1>2 DEF SendBaseLoop, CtxType
  <2>2. txq[v] \in Seq(Frames) /\ f \in Frames /\ Tail(txq[v]) \in Seq(Frames)
    BY <1>1, <1>2, SeqFacts DEF TypeOK
  <2>3. l \in Labels /\ k \in Int
    BY DEF Labels
  <2>4. r \in CtxRec /\ r.pc = l /\ r.msdu = f /\ r.v = v
    <3> HIDE DEF l, f, k
    <3> QED
      BY <1>1, <2>2, <2>3 DEF CtxRec
  <2>5. Local(c) /\ ctx'[c].pc = "tx" /\ ctx'[c].msdu = f /\ ctx'[c].v = v
    <3> HIDE DEF r
    <3> QED
      BY <1>1, <2>1, <2>4, PutShape
  <2>6. TakeHead(c)
    BY <1>2, <2>1, <2>5 DEF TakeHead, Drain
  <2>7. txq' \in [Vdevs -> Seq(Frames)] /\ mutex' \in [Vdevs -> Contexts \cup {Nobody}]
    <3> HIDE DEF r, f
    <3> QED
      BY <1>1, <2>1, <2>2 DEF TypeOK
  <2> QED
    BY <2>1, <2>5, <2>6, <2>7 DEF TypeOK
<1>3. CASE ~(budget > 0 /\ txq[v] # <<>>)
  <2>1. /\ mutex' = [mutex EXCEPT ![v] = Nobody] /\ Return(c) /\ UNCHANGED txq
        /\ ll_timer' = [ll_timer EXCEPT ![v] = @ \/ txq[v] # <<>>]
    BY <1>3 DEF SendBaseLoop
  <2>2. Local(c) /\ ctx'[c].pc = "idle" /\ ctx'[c].msdu = NoFrame
    BY <1>1, <2>1, ReturnShape
  <2> QED
    BY <1>1, <2>1, <2>2 DEF TypeOK
<1> QED
  BY <1>2, <1>3

LEMMA MarginType ==
  ASSUME TypeOK, NEW v \in Vdevs
  PROVE  margin(v) \in Int
BY FlowAssumption DEF TypeOK, margin

LEMMA SendBaseLockStep ==
  ASSUME TypeOK, NEW c \in Contexts, SendBaseLock(c)
  PROVE  TypeOK' /\ (Quiet(c) \/ Take(c))
<1> DEFINE v == ctx[c].v
<1>1. CtxType /\ v \in Vdevs
  BY DEF TypeOK, CtxType, CtxRec
<1>2. /\ ctx[c].pc = "base" /\ Unlocked(v) /\ Free(c)
      /\ UNCHANGED <<next, paused_reason, attached, poolVars, throttleVars, flowVars, hddVars>>
  BY DEF SendBaseLock, At, Free, Own, Locked, Drain
<1>3. CASE paused_reason[v] # {}
  <2>1. Return(c) /\ UNCHANGED <<txq, ll_timer, mutex>>
    BY <1>3 DEF SendBaseLock
  <2>2. Local(c) /\ ctx'[c].pc = "idle" /\ ctx'[c].msdu = NoFrame
    BY <1>1, <2>1, ReturnShape
  <2>3. Quiet(c)
    BY <1>2, <2>1, <2>2 DEF Quiet, Free, Own, Locked, Drain
  <2>4. TypeOK'
    BY <1>2, <2>1, <2>2
    DEF TypeOK, Local, CtxType, CtxRec, poolVars, throttleVars, flowVars, hddVars
  <2> QED
    BY <2>3, <2>4
<1>4. CASE paused_reason[v] = {}
  <2>1. SendBaseLoop(c, num_free - margin(v))
    BY <1>4 DEF SendBaseLock
  <2>2. num_free - margin(v) \in Int
    BY <1>1, MarginType, SMTT(30) DEF TypeOK
  <2>3. /\ txq' \in [Vdevs -> Seq(Frames)] /\ mutex' \in [Vdevs -> Contexts \cup {Nobody}]
        /\ ll_timer' \in [Vdevs -> BOOLEAN] /\ Local(c)
        /\ \/ TakeHead(c)
           \/ /\ ctx'[c].pc = "idle" /\ ctx'[c].msdu = NoFrame /\ UNCHANGED txq
              /\ mutex' = [mutex EXCEPT ![v] = Nobody]
    BY <1>2, <2>1, <2>2, LoopShape
  <2>4. TypeOK'
    BY <1>2, <2>3
    DEF TypeOK, Local, CtxType, CtxRec, poolVars, throttleVars, flowVars, hddVars
  <2>5. CASE TakeHead(c)
    BY <1>2, <1>4, <2>4, <2>5 DEF Take
  <2>6. CASE /\ ctx'[c].pc = "idle" /\ ctx'[c].msdu = NoFrame /\ UNCHANGED txq
             /\ mutex' = [mutex EXCEPT ![v] = Nobody]
    <3>1. UNCHANGED mutex
      BY <1>1, <1>2, <2>6 DEF Unlocked, TypeOK
    <3> QED
      BY <1>2, <2>3, <2>4, <2>6, <3>1 DEF Quiet, Free, Own, Locked, Drain
  <2> QED
    BY <2>3, <2>5, <2>6
<1> QED
  BY <1>3, <1>4

LEMMA SendBaseTxStep ==
  ASSUME TypeOK, HandInv, NEW c \in Contexts, SendBaseTx(c)
  PROVE  TypeOK' /\ (Give(c) \/ GiveTake(c))
<1> DEFINE v == ctx[c].v
<1>1. /\ ctx[c].pc = "tx" /\ ol_tx_ll(ctx[c].msdu) /\ SendBaseLoop(c, ctx[c].n)
      /\ UNCHANGED <<next, paused_reason, attached, throttleVars, flowVars, hddVars>>
  BY DEF SendBaseTx, At
<1>2. ctx[c].n \in Int /\ ctx[c].msdu \in Frames
  BY <1>1 DEF TypeOK, HandInv, Drain
<1>3. /\ txq' \in [Vdevs -> Seq(Frames)] /\ mutex' \in [Vdevs -> Contexts \cup {Nobody}]
      /\ ll_timer' \in [Vdevs -> BOOLEAN] /\ Local(c)
      /\ \/ TakeHead(c)
         \/ /\ ctx'[c].pc = "idle" /\ ctx'[c].msdu = NoFrame /\ UNCHANGED txq
            /\ mutex' = [mutex EXCEPT ![v] = Nobody]
  BY <1>1, <1>2, LoopShape
<1>4. Give(c) \/ GiveTake(c)
  BY <1>1, <1>3 DEF Give, GiveTake, Free, Own, Locked, Drain
<1>5. TypeOK'
  BY <1>1, <1>2, <1>3, GiveType
  DEF TypeOK, Local, CtxType, CtxRec, throttleVars, flowVars, hddVars
<1> QED
  BY <1>4, <1>5

LEMMA TimerStep ==
  ASSUME TypeOK, NEW v \in Vdevs, ol_tx_vdev_ll_pause_queue_send(v)
  PROVE  TypeOK' /\ Quiet(v)
<1> USE DEF ol_tx_vdev_ll_pause_queue_send
<1>1. CtxType /\ v \in Contexts
  BY DEF TypeOK, CtxType, CtxRec, Contexts
<1>2. Local(v) /\ ctx'[v].pc \in {"base", "idle"} /\ ctx'[v].msdu = ctx[v].msdu
  BY <1>1, GotoShape DEF Labels, Local, At, CtxType
<1>3. Quiet(v)
  BY <1>2 DEF Quiet, At, Free, Own, Locked, Drain, poolVars
<1>4. TypeOK'
  BY <1>2
  DEF TypeOK, Local, CtxType, CtxRec, poolVars, throttleVars, flowVars, hddVars
<1> QED
  BY <1>3, <1>4

LEMMA PauseStep ==
  ASSUME TypeOK, NEW v \in Vdevs, NEW r \in Reasons, ol_txrx_vdev_pause(v, r)
  PROVE  TypeOK' /\ PauseVdev(v)
<1> USE DEF ol_txrx_vdev_pause
<1>1. PauseVdev(v)
  BY DEF PauseVdev, poolVars, TypeOK
<1>2. paused_reason' \in [Vdevs -> SUBSET PauseReasons]
  BY FlowAssumption DEF TypeOK
<1>3. TypeOK'
  BY <1>2 DEF TypeOK, poolVars, throttleVars, flowVars, hddVars
<1> QED
  BY <1>1, <1>3

LEMMA UnpauseStep ==
  ASSUME TypeOK, NEW v \in Vdevs, NEW R \in SUBSET Reasons, ol_txrx_vdev_unpause(v, R)
  PROVE  TypeOK' /\ Quiet("ctl")
<1> DEFINE left == paused_reason[v] \ R
           l == IF R = {"VDEV_SUSPEND"} THEN "restart"
                ELSE IF left = {} THEN "throttle" ELSE "idle"
           w == IF l = "idle" THEN ctx["ctl"].v ELSE v
           r == [ctx["ctl"] EXCEPT !.v = w, !.pc = l]
<1>1. CtxType /\ "ctl" \in Contexts
  BY DEF TypeOK, CtxType, CtxRec, Contexts, Singles
<1>2. /\ ctx["ctl"].pc = "idle" /\ paused_reason' = [paused_reason EXCEPT ![v] = left]
      /\ ctx' = [ctx EXCEPT !["ctl"] = r]
      /\ UNCHANGED <<next, txq, ll_timer, mutex, attached, poolVars, throttleVars,
                     flowVars, hddVars>>
  BY <1>1 DEF ol_txrx_vdev_unpause, At, CtxType, CtxRec
<1>3. l \in {"restart", "throttle", "idle"} /\ l \in Labels /\ w \in Vdevs
  BY <1>1 DEF Labels, CtxType, CtxRec
<1>4. r \in CtxRec /\ r.pc = l /\ r.msdu = ctx["ctl"].msdu
  <2>1. ctx["ctl"] \in CtxRec
    BY <1>1 DEF CtxType
  <2> HIDE DEF l, w
  <2> QED
    BY <1>3, <2>1 DEF CtxRec
<1>5. Local("ctl") /\ ctx'["ctl"].pc = l /\ ctx'["ctl"].msdu = ctx["ctl"].msdu
  <2> HIDE DEF r
  <2> QED
    BY <1>1, <1>2, <1>4, PutShape
<1>6. /\ paused_reason' \in [Vdevs -> SUBSET PauseReasons]
      /\ \A u \in Vdevs : paused_reason'[u] \subseteq paused_reason[u]
  BY <1>2 DEF TypeOK
<1> HIDE DEF l, r, w
<1>7. Quiet("ctl")
  BY <1>2, <1>3, <1>5, <1>6 DEF Quiet, Free, Own, Locked, Drain
<1>8. TypeOK'
  BY <1>2, <1>5, <1>6
  DEF TypeOK, Local, CtxType, CtxRec, poolVars, throttleVars, flowVars, hddVars
<1> QED
  BY <1>7, <1>8

LEMMA QueuedType ==
  ASSUME TypeOK, NEW v \in Vdevs
  PROVE  Range(txq[v]) \subseteq Frames
<1>1. txq[v] \in Seq(Frames)
  BY DEF TypeOK
<1> QED
  BY <1>1 DEF Range

LEMMA FlushStep ==
  ASSUME TypeOK, NEW v \in Vdevs, ol_txrx_vdev_flush(v)
  PROVE  TypeOK' /\ Empty(v)
<1> USE DEF ol_txrx_vdev_flush
<1>1. Empty(v)
  BY DEF Empty
<1>2. freed' \subseteq Frames
  BY QueuedType DEF TypeOK
<1>3. txq' \in [Vdevs -> Seq(Frames)] /\ ll_timer' \in [Vdevs -> BOOLEAN]
  BY EmptySeq DEF TypeOK
<1>4. TypeOK'
  BY <1>2, <1>3 DEF TypeOK, throttleVars, flowVars, hddVars
<1> QED
  BY <1>1, <1>4

LEMMA DetachLockStep ==
  ASSUME TypeOK, NEW v \in Vdevs, DetachLock(v)
  PROVE  TypeOK' /\ LockVdev(v)
<1> DEFINE l == "timerfree"
           r == [ctx["ctl"] EXCEPT !.pc = l, !.v = v]
<1>1. CtxType /\ "ctl" \in Contexts
  BY DEF TypeOK, CtxType, CtxRec, Contexts, Singles
<1>2. ctx' = [ctx EXCEPT !["ctl"] = r]
  BY <1>1 DEF DetachLock, CtxType, CtxRec
<1>3. r \in CtxRec /\ r.pc = l /\ r.msdu = ctx["ctl"].msdu /\ r.v = v
  <2>1. ctx["ctl"] \in CtxRec /\ l \in Labels
    BY <1>1 DEF CtxType, Labels
  <2> HIDE DEF l
  <2> QED
    BY <2>1 DEF CtxRec
<1>4. /\ Local("ctl") /\ ctx'["ctl"].pc = l /\ ctx'["ctl"].v = v
      /\ ctx'["ctl"].msdu = ctx["ctl"].msdu
  <2> HIDE DEF r
  <2> QED
    BY <1>1, <1>2, <1>3, PutShape
<1> HIDE DEF r
<1>5. LockVdev(v)
  BY <1>4 DEF LockVdev, DetachLock, At, Free, Own, Locked, Drain, poolVars
<1>6. mutex' \in [Vdevs -> Contexts \cup {Nobody}] /\ ll_timer' \in [Vdevs -> BOOLEAN]
  BY <1>1 DEF TypeOK, DetachLock
<1>7. TypeOK'
  BY <1>4, <1>6
  DEF TypeOK, Local, CtxType, CtxRec, DetachLock, poolVars, throttleVars, flowVars, hddVars
<1> QED
  BY <1>5, <1>7

LEMMA TimerFreeStep ==
  ASSUME TypeOK, adf_os_timer_free
  PROVE  TypeOK' /\ ctx["ctl"].v \in Vdevs /\ Empty(ctx["ctl"].v)
<1> DEFINE v == ctx["ctl"].v
<1> USE DEF adf_os_timer_free
<1>1. CtxType /\ "ctl" \in Contexts /\ v \in Vdevs
  BY DEF TypeOK, CtxType, CtxRec, Contexts, Singles
<1>2. Local("ctl") /\ ctx'["ctl"].pc = "idle" /\ ctx'["ctl"].msdu = NoFrame
  BY <1>1, ReturnShape
<1>3. Empty(v)
  BY <1>2 DEF Empty, At, Free, Own, Locked, Drain
<1>4. freed' \subseteq Frames
  BY <1>1, QueuedType DEF TypeOK
<1>5. /\ txq' \in [Vdevs -> Seq(Frames)] /\ attached' \in [Vdevs -> BOOLEAN]
      /\ mutex' \in [Vdevs -> Contexts \cup {Nobody}]
  BY <1>1, EmptySeq DEF TypeOK
<1>6. TypeOK'
  BY <1>2, <1>4, <1>5
  DEF TypeOK, Local, CtxType, CtxRec, throttleVars, flowVars, hddVars
<1> QED
  BY <1>1, <1>3, <1>6

LEMMA CtlStepQuiet ==
  ASSUME TypeOK, \/ ol_tx_vdev_ll_pause_start_timer \/ ThrottleRestartPhase
                 \/ \E l \in Levels : ol_tx_throttle_set_level(l)
  PROVE  TypeOK' /\ Quiet("ctl")
<1>1. CtxType /\ "ctl" \in Contexts /\ ctx["ctl"].v \in Vdevs
  BY DEF TypeOK, CtxType, CtxRec, Contexts, Singles
<1>2. CASE ol_tx_vdev_ll_pause_start_timer
  <2>1. Local("ctl") /\ ctx'["ctl"].pc = "idle" /\ ctx'["ctl"].msdu = NoFrame
    BY <1>1, <1>2, ReturnShape DEF ol_tx_vdev_ll_pause_start_timer
  <2>2. Quiet("ctl")
    BY <1>2, <2>1
    DEF ol_tx_vdev_ll_pause_start_timer, Quiet, At, Free, Own, Locked, Drain, poolVars
  <2>3. ll_timer' \in [Vdevs -> BOOLEAN]
    BY <1>1, <1>2 DEF ol_tx_vdev_ll_pause_start_timer, TypeOK
  <2>4. TypeOK'
    BY <1>2, <2>1, <2>3 DEF ol_tx_vdev_ll_pause_start_timer, TypeOK, Local, CtxType, CtxRec,
                            poolVars, throttleVars, flowVars, hddVars
  <2> QED
    BY <2>2, <2>4
<1>3. CASE ThrottleRestartPhase
  <2>1. Local("ctl") /\ ctx'["ctl"].pc = "idle" /\ ctx'["ctl"].msdu = NoFrame
    BY <1>1, <1>3, ReturnShape DEF ThrottleRestartPhase
  <2>2. Quiet("ctl")
    BY <1>3, <2>1
    DEF ThrottleRestartPhase, Quiet, At, Free, Own, Locked, Drain, llVars, poolVars
  <2>3. TypeOK'
    BY <1>3, <2>1 DEF ThrottleRestartPhase, TypeOK, Local, CtxType, CtxRec, llVars,
                      poolVars, flowVars, hddVars
  <2> QED
    BY <2>2, <2>3
<1>4. CASE \E l \in Levels : ol_tx_throttle_set_level(l)
  <2>1. PICK l \in Levels : ol_tx_throttle_set_level(l)
    BY <1>4
  <2>2. Local("ctl") /\ ctx'["ctl"].pc = "setlevel" /\ ctx'["ctl"].msdu = ctx["ctl"].msdu
    BY <1>1, <2>1, GotoShape DEF ol_tx_throttle_set_level, Labels
  <2>3. Quiet("ctl")
    BY <2>1, <2>2
    DEF ol_tx_throttle_set_level, Quiet, At, Free, Own, Locked, Drain, llVars, poolVars
  <2>4. TypeOK'
    BY <2>1, <2>2, FlowAssumption
    DEF ol_tx_throttle_set_level, TypeOK, Local, CtxType, CtxRec, llVars,
        poolVars, flowVars, hddVars
  <2> QED
    BY <2>3, <2>4
<1> QED
  BY <1>2, <1>3, <1>4

LEMMA RoundsShape ==
  ASSUME CtxType, NEW c \in Contexts, StartRounds(c), OnList # {}
  PROVE  Local(c) /\ ctx'[c].pc = "round" /\ ctx'[c].msdu = ctx[c].msdu
<1> DEFINE l == "round"
           k == tx_threshold
           w == FirstVdev
           r == [ctx[c] EXCEPT !.pc = l, !.n = k, !.v = w]
<1>1. ctx' = [ctx EXCEPT ![c] = r]
  BY DEF StartRounds, CtxType, CtxRec
<1>2. r \in CtxRec /\ r.pc = l /\ r.msdu = ctx[c].msdu
  <2>1. ctx[c] \in CtxRec /\ l \in Labels /\ k \in Int /\ w \in Vdevs
    BY WalkType, FlowAssumption DEF CtxType, Labels
  <2> HIDE DEF l, k, w
  <2> QED
    BY <2>1 DEF CtxRec
<1> HIDE DEF r
<1> QED
  BY <1>1, <1>2, PutShape

LEMMA ThrottleTimerStep ==
  ASSUME TypeOK, NEW c \in {"phase", "tx"},
         IF c = "phase" THEN ol_tx_pdev_throttle_phase_timer ELSE ol_tx_pdev_throttle_tx_timer
  PROVE  TypeOK' /\ Quiet(c)
<1>1. CtxType /\ c \in Contexts
  BY DEF TypeOK, CtxType, CtxRec, Contexts, Singles
<1>2. CASE c = "phase"
  <2>1. ol_tx_pdev_throttle_phase_timer
    BY <1>2
  <2>2. Local(c) /\ ctx'[c].pc \in {"round", "idle"} /\ ctx'[c].msdu = ctx[c].msdu
    BY <1>1, <1>2, <2>1, RoundsShape
    DEF ol_tx_pdev_throttle_phase_timer, At, Local, CtxType
  <2>3. phase_timer' \in BOOLEAN /\ throttle_phase' \in {"OFF", "ON"}
    BY <2>1 DEF ol_tx_pdev_throttle_phase_timer
  <2>4. Quiet(c)
    BY <1>2, <2>1, <2>2
    DEF ol_tx_pdev_throttle_phase_timer, Quiet, At, Free, Own, Locked, Drain, llVars, poolVars
  <2>5. TypeOK'
    BY <2>1, <2>2, <2>3 DEF ol_tx_pdev_throttle_phase_timer, TypeOK, Local, CtxType, CtxRec,
                            llVars, poolVars, flowVars, hddVars
  <2> QED
    BY <2>4, <2>5
<1>3. CASE c = "tx"
  <2>1. ol_tx_pdev_throttle_tx_timer
    BY <1>3
  <2>2. Local(c) /\ ctx'[c].pc \in {"round", "idle"} /\ ctx'[c].msdu = ctx[c].msdu
    BY <1>1, <1>3, <2>1, RoundsShape
    DEF ol_tx_pdev_throttle_tx_timer, At, Local, CtxType
  <2>3. Quiet(c)
    BY <1>3, <2>1, <2>2
    DEF ol_tx_pdev_throttle_tx_timer, Quiet, At, Free, Own, Locked, Drain, llVars, poolVars
  <2>4. TypeOK'
    BY <2>1, <2>2 DEF ol_tx_pdev_throttle_tx_timer, TypeOK, Local, CtxType, CtxRec,
                      llVars, poolVars, flowVars, hddVars
  <2> QED
    BY <2>3, <2>4
<1> QED
  BY <1>2, <1>3

LEMMA AdvanceShape ==
  ASSUME CtxType, NEW c \in Contexts, NEW budget \in Int, NEW more \in BOOLEAN,
         Advance(c, budget, more)
  PROVE  Local(c) /\ ctx'[c].pc \in {"round", "backlog"} /\ ctx'[c].msdu = NoFrame
<1> DEFINE v == ctx[c].v
           last == IsLast(v)
           l == IF ~last \/ (more /\ budget # 0) THEN "round" ELSE "backlog"
           w == IF ~last THEN NextVdev(v) ELSE IF OnList = {} THEN v ELSE FirstVdev
           x == IF ~last THEN more ELSE FALSE
           f == NoFrame
           r == [ctx[c] EXCEPT !.pc = l, !.v = w, !.n = budget, !.b = x, !.msdu = f]
<1>1. ctx[c] \in CtxRec /\ v \in Vdevs
  BY DEF CtxType, CtxRec
<1>2. /\ l \in {"round", "backlog"} /\ l \in Labels /\ w \in Vdevs /\ x \in BOOLEAN
      /\ f \in Frames \cup {NoFrame}
  BY <1>1, WalkType DEF Labels
<1>3. ctx' = [ctx EXCEPT ![c] = r]
  <2>1. CASE ~IsLast(v)
    BY <2>1 DEF Advance, CtxType
  <2>2. CASE IsLast(v)
    BY <2>2 DEF Advance, CtxType
  <2> QED
    BY <2>1, <2>2
<1>4. r \in CtxRec /\ r.pc = l /\ r.msdu = f
  <2> HIDE DEF l, w, x, f
  <2> QED
    BY <1>1, <1>2 DEF CtxRec
<1> HIDE DEF r
<1> QED
  BY <1>2, <1>3, <1>4, PutShape

LEMMA SendAllDequeueStep ==
  ASSUME TypeOK, NEW c \in Contexts, SendAllDequeue(c)
  PROVE  TypeOK' /\ (Quiet(c) \/ Take(c))
<1> DEFINE v == ctx[c].v
<1>1. CtxType /\ ctx[c] \in CtxRec /\ v \in Vdevs /\ ctx[c].n \in Int /\ ctx[c].b \in BOOLEAN
  BY DEF TypeOK, CtxType, CtxRec
<1>2. /\ ctx[c].pc = "round" /\ Unlocked(v) /\ Free(c)
      /\ UNCHANGED <<next, paused_reason, ll_timer, attached, poolVars, throttleVars,
                     flowVars, hddVars>>
  BY DEF SendAllDequeue, At, Free, Own, Locked, Drain
<1>3. CASE txq[v] = <<>> \/ paused_reason[v] # {}
  <2>1. Advance(c, ctx[c].n, ctx[c].b) /\ UNCHANGED <<txq, mutex>>
    BY <1>3 DEF SendAllDequeue
  <2>2. Local(c) /\ ctx'[c].pc \in {"round", "backlog"} /\ ctx'[c].msdu = NoFrame
    BY <1>1, <2>1, AdvanceShape
  <2>3. Quiet(c)
    BY <1>2, <2>1, <2>2 DEF Quiet, Free, Own, Locked, Drain
  <2>4. TypeOK'
    BY <1>2, <2>1, <2>2
    DEF TypeOK, Local, CtxType, CtxRec, poolVars, throttleVars, flowVars, hddVars
  <2> QED
    BY <2>3, <2>4
<1>4. CASE txq[v] # <<>> /\ paused_reason[v] = {}
  <2> DEFINE l == "roundtx"
             k == ctx[c].n - 1
             f == Head(txq[v])
             r == [ctx[c] EXCEPT !.pc = l, !.n = k, !.msdu = f]
  <2>1. /\ mutex' = [mutex EXCEPT ![v] = c] /\ txq' = [txq EXCEPT ![v] = Tail(@)]
        /\ ctx' = [ctx EXCEPT ![c] = r]
    BY <1>4 DEF SendAllDequeue
  <2>2. f \in Frames /\ Tail(txq[v]) \in Seq(Frames)
    BY <1>1, <1>4, SeqFacts DEF TypeOK
  <2>3. l \in Labels /\ k \in Int
    BY <1>1 DEF Labels
  <2>4. r \in CtxRec /\ r.pc = l /\ r.msdu = f /\ r.v = v
    <3> HIDE DEF l, f, k
    <3> QED
      BY <1>1, <2>2, <2>3 DEF CtxRec
  <2>5. Local(c) /\ ctx'[c].pc = "roundtx" /\ ctx'[c].msdu = f /\ ctx'[c].v = v
    <3> HIDE DEF r
    <3> QED
      BY <1>1, <2>1, <2>4, PutShape
  <2>6. Take(c)
    BY <1>2, <1>4, <2>1, <2>5 DEF Take, TakeHead, Drain
  <2>7. txq' \in [Vdevs -> Seq(Frames)] /\ mutex' \in [Vdevs -> Contexts \cup {Nobody}]
    <3> HIDE DEF r, f
    <3> QED
      BY <1>1, <2>1, <2>2 DEF TypeOK
  <2>8. TypeOK'
    BY <1>2, <2>5, <2>7
    DEF TypeOK, Local, CtxType, CtxRec, poolVars, throttleVars, flowVars, hddVars
  <2> QED
    BY <2>6, <2>8
<1> QED
  BY <1>3, <1>4

LEMMA SendAllTxStep ==
  ASSUME TypeOK, HandInv, NEW c \in Contexts, SendAllTx(c)
  PROVE  TypeOK' /\ Give(c)
<1> DEFINE v == ctx[c].v
           more == ctx[c].b \/ txq[v] # <<>>
<1>1. CtxType /\ v \in Vdevs /\ ctx[c].n \in Int /\ more \in BOOLEAN
  BY DEF TypeOK, CtxType, CtxRec
<1>2. /\ ctx[c].pc = "roundtx" /\ ol_tx_ll(ctx[c].msdu)
      /\ mutex' = [mutex EXCEPT ![v] = Nobody] /\ Advance(c, ctx[c].n, more)
      /\ UNCHANGED <<next, paused_reason, txq, ll_timer, attached, throttleVars,
                     flowVars, hddVars>>
  BY DEF SendAllTx, At
<1>3. Local(c) /\ ctx'[c].pc \in {"round", "backlog"} /\ ctx'[c].msdu = NoFrame
  <2> HIDE DEF more
  <2> QED
    BY <1>1, <1>2, AdvanceShape
<1>4. Give(c)
  BY <1>2, <1>3 DEF Give, Free, Own, Locked, Drain
<1>5. ctx[c].msdu \in Frames
  BY <1>2 DEF TypeOK, HandInv, Drain
<1>6. mutex' \in [Vdevs -> Contexts \cup {Nobody}]
  BY <1>1, <1>2 DEF TypeOK
<1>7. TypeOK'
  BY <1>2, <1>3, <1>5, <1>6, GiveType
  DEF TypeOK, Local, CtxType, CtxRec, throttleVars, flowVars, hddVars
<1> QED
  BY <1>4, <1>7

LEMMA NextVdevShape ==
  ASSUME CtxType, NEW c \in Contexts, NEW l \in Labels, NEW w \in Vdevs,
         ctx' = [ctx EXCEPT ![c].pc = l, ![c].v = w]
  PROVE  Local(c) /\ ctx'[c].pc = l /\ ctx'[c].v = w /\ ctx'[c].msdu = ctx[c].msdu
<1> DEFINE r == [ctx[c] EXCEPT !.pc = l, !.v = w]
<1>1. ctx' = [ctx EXCEPT ![c] = r]
  BY DEF CtxType, CtxRec
<1>2. r \in CtxRec /\ r.pc = l /\ r.v = w /\ r.msdu = ctx[c].msdu
  BY DEF CtxType, CtxRec
<1> HIDE DEF r
<1> QED
  BY <1>1, <1>2, PutShape

LEMMA SendAllBacklogStep ==
  ASSUME TypeOK, NEW c \in Contexts, SendAllBacklog(c)
  PROVE  TypeOK' /\ Quiet(c)
<1> USE DEF SendAllBacklog
<1> DEFINE v == ctx[c].v
<1>1. CtxType
  BY DEF TypeOK, CtxType, CtxRec
<1>2. Local(c) /\ ctx'[c].pc \in {"backlog", "idle"} /\ ctx'[c].msdu \in {ctx[c].msdu, NoFrame}
  <2>1. CASE Return(c)
    BY <1>1, <2>1, ReturnShape
  <2>2. CASE ~IsLast(v) /\ ctx' = [ctx EXCEPT ![c].v = NextVdev(v)]
    <3> DEFINE w == NextVdev(v)
    <3>1. w \in Vdevs /\ ctx' = [ctx EXCEPT ![c].v = w]
      BY <2>2, WalkType
    <3> HIDE DEF w
    <3> QED
      BY <1>1, <3>1 DEF CtxType, CtxRec, Local, At
  <2> QED
    BY <2>1, <2>2
<1>3. Quiet(c)
  BY <1>2 DEF Quiet, At, Free, Own, Locked, Drain, llVars, poolVars
<1>4. tx_timer' \in BOOLEAN /\ phase_timer' \in BOOLEAN
  BY DEF TypeOK
<1>5. TypeOK'
  BY <1>2, <1>4 DEF TypeOK, Local, CtxType, CtxRec, llVars, poolVars, flowVars, hddVars
<1> QED
  BY <1>3, <1>5

LEMMA CompletionStep ==
  ASSUME TypeOK, IsFiniteSet(target), NEW S \in SUBSET target, ol_tx_completion_handler(S)
  PROVE  TypeOK' /\ Complete(S)
<1> USE DEF ol_tx_completion_handler
<1>1. CtxType /\ "cpl" \in Contexts
  BY DEF TypeOK, CtxType, CtxRec, Contexts, Singles
<1>2. Local("cpl") /\ ctx'["cpl"].pc \in {"unpause", "idle"} /\ ctx'["cpl"].msdu = ctx["cpl"].msdu
  <2>1. CASE low_watermark # 0 /\ OnList # {}
    <3>1. FirstVdev \in Vdevs /\ "unpause" \in Labels
      BY <2>1, WalkType DEF Labels
    <3> QED
      BY <1>1, <2>1, <3>1, NextVdevShape
  <2>2. CASE ~(low_watermark # 0 /\ OnList # {})
    BY <1>1, <2>2 DEF Local, CtxType, At
  <2> QED
    BY <2>1, <2>2
<1>3. Complete(S)
  BY <1>2 DEF Complete, At, Free, Own, Locked, Drain, llVars
<1>4. num_free' \in Int
  <2>1. Cardinality(S) \in Nat
    BY FS_Subset, FS_CardinalityType
  <2> QED
    BY <2>1 DEF TypeOK
<1>5. TypeOK'
  BY <1>2, <1>4
  DEF TypeOK, Local, CtxType, CtxRec, llVars, throttleVars, flowVars, hddVars
<1> QED
  BY <1>3, <1>5

LEMMA MgmtStep ==
  ASSUME TypeOK, ol_txrx_mgmt_send \/ ol_tx_single_completion_handler
  PROVE  TypeOK' /\ Manage
<1>1. \E k \in -1..1 : num_free' = num_free - k /\ mgmt' = mgmt + k
  <2>1. CASE ol_txrx_mgmt_send
    BY <2>1 DEF ol_txrx_mgmt_send
  <2>2. CASE ol_tx_single_completion_handler
    <3>1. num_free' = num_free - (-1) /\ mgmt' = mgmt + (-1)
      BY <2>2 DEF TypeOK, ol_tx_single_completion_handler
    <3> QED
      BY <3>1
  <2> QED
    BY <2>1, <2>2
<1>2. UNCHANGED <<ctx, next, target, freed, llVars, throttleVars, flowVars, hddVars>>
  BY DEF ol_txrx_mgmt_send, ol_tx_single_completion_handler
<1>3. num_free' \in Int /\ mgmt' \in Nat
  BY DEF TypeOK, ol_txrx_mgmt_send, ol_tx_single_completion_handler
<1> QED
  BY <1>1, <1>2, <1>3 DEF TypeOK, Manage, llVars, throttleVars, flowVars, hddVars

LEMMA UnpauseNextShape ==
  ASSUME CtxType, UnpauseNext
  PROVE  /\ Local("cpl") /\ ctx'["cpl"].pc \in {"unpause", "idle"}
         /\ ctx'["cpl"].msdu \in {ctx["cpl"].msdu, NoFrame}
<1>1. "cpl" \in Contexts /\ "unpause" \in Labels
  BY DEF Contexts, Singles, Labels
<1>2. CASE IsLast(ctx["cpl"].v)
  BY <1>1, <1>2, ReturnShape DEF UnpauseNext
<1>3. CASE ~IsLast(ctx["cpl"].v)
  BY <1>1, <1>3, WalkType, NextVdevShape DEF UnpauseNext
<1> QED
  BY <1>2, <1>3

LEMMA ResumeStepQuiet ==
  ASSUME TypeOK, ResumeStep
  PROVE  TypeOK' /\ Quiet("cpl")
<1> DEFINE v == ctx["cpl"].v
           llRest == UNCHANGED <<next, llVars, poolVars, throttleVars>>
<1>1. CtxType /\ "cpl" \in Contexts /\ v \in Vdevs
  BY DEF TypeOK, CtxType, CtxRec, Contexts, Singles
<1>2. CASE OL_TX_FLOW_CT_UNPAUSE_OS_Q
  <2>1. /\ Local("cpl") /\ ctx'["cpl"].pc \in {"resume", "unpause", "idle"}
        /\ ctx'["cpl"].msdu \in {ctx["cpl"].msdu, NoFrame}
    BY <1>1, <1>2, UnpauseNextShape, GotoShape DEF OL_TX_FLOW_CT_UNPAUSE_OS_Q, Labels
  <2>2. os_q_paused' \in [Vdevs -> BOOLEAN]
    BY <1>1, <1>2 DEF OL_TX_FLOW_CT_UNPAUSE_OS_Q, TypeOK
  <2>3. Quiet("cpl")
    BY <1>2, <2>1
    DEF OL_TX_FLOW_CT_UNPAUSE_OS_Q, Quiet, At, Free, Own, Locked, Drain, llVars, poolVars
  <2>4. TypeOK'
    BY <1>2, <2>1, <2>2 DEF OL_TX_FLOW_CT_UNPAUSE_OS_Q, TypeOK, Local, CtxType, CtxRec,
                            llVars, poolVars, throttleVars, hddVars
  <2> QED
    BY <2>3, <2>4
<1>3. CASE vos_timer_stop
  <2>1. Local("cpl") /\ ctx'["cpl"].pc = "wake" /\ ctx'["cpl"].msdu = ctx["cpl"].msdu
    BY <1>1, <1>3, GotoShape DEF vos_timer_stop, Labels
  <2>2. Quiet("cpl")
    BY <1>3, <2>1 DEF vos_timer_stop, Quiet, At, Free, Own, Locked, Drain, llVars, poolVars
  <2>3. TypeOK'
    BY <1>1, <1>3, <2>1 DEF vos_timer_stop, TypeOK, Local, CtxType, CtxRec,
                            llVars, poolVars, throttleVars, flowVars
  <2> QED
    BY <2>2, <2>3
<1>4. CASE hdd_tx_resume_cb
  <2>1. Local("cpl") /\ ctx'["cpl"].pc = "unflag" /\ ctx'["cpl"].msdu = ctx["cpl"].msdu
    <3>1. ctx' = [ctx EXCEPT !["cpl"].pc = "unflag", !["cpl"].v = v]
      BY <1>4 DEF hdd_tx_resume_cb, Wake
    <3>2. "unflag" \in Labels
      BY DEF Labels
    <3> HIDE DEF v
    <3> QED
      BY <1>1, <3>1, <3>2, NextVdevShape
  <2>2. Quiet("cpl")
    BY <1>4, <2>1
    DEF hdd_tx_resume_cb, Wake, Quiet, At, Free, Own, Locked, Drain, llVars, poolVars
  <2>3. TypeOK'
    BY <1>1, <1>4, <2>1 DEF hdd_tx_resume_cb, Wake, TypeOK, Local, CtxType, CtxRec,
                            llVars, poolVars, throttleVars, flowVars
  <2> QED
    BY <2>2, <2>3
<1>5. CASE hdd_tx_resume_cb_flag
  <2>1. /\ Local("cpl") /\ ctx'["cpl"].pc \in {"unpause", "idle"}
        /\ ctx'["cpl"].msdu \in {ctx["cpl"].msdu, NoFrame}
    BY <1>1, <1>5, UnpauseNextShape DEF hdd_tx_resume_cb_flag
  <2>2. Quiet("cpl")
    BY <1>5, <2>1
    DEF hdd_tx_resume_cb_flag, Quiet, At, Free, Own, Locked, Drain, llVars, poolVars
  <2>3. TypeOK'
    BY <1>1, <1>5, <2>1 DEF hdd_tx_resume_cb_flag, TypeOK, Local, CtxType, CtxRec,
                            llVars, poolVars, throttleVars, flowVars
  <2> QED
    BY <2>2, <2>3
<1> QED
  BY <1>2, <1>3, <1>4, <1>5 DEF ResumeStep

LEMMA CallbackStep ==
  ASSUME TypeOK, NEW v \in Vdevs, vos_linux_timer_callback(v)
  PROVE  TypeOK' /\ Manage
<1>1. fc_posted' \in [Vdevs -> Nat] /\ fc_timer' \in [Vdevs -> {"STOPPED", "RUNNING"}]
  BY DEF TypeOK, vos_linux_timer_callback
<1>2. UNCHANGED <<ctx, next, llVars, poolVars, throttleVars, flowVars, netif_stopped,
                  is_txflow_paused>>
  BY DEF vos_linux_timer_callback
<1>3. num_free' = num_free - 0 /\ mgmt' = mgmt + 0
  BY <1>2 DEF TypeOK, poolVars
<1> QED
  BY <1>1, <1>2, <1>3 DEF TypeOK, Manage, llVars, poolVars, throttleVars, flowVars

LEMMA MessageStep ==
  ASSUME TypeOK, \/ \E v \in Vdevs : hdd_tx_resume_timer_expired_handler(v)
                 \/ hdd_clear_txflow_paused
  PROVE  TypeOK' /\ Quiet("mc")
<1>1. CtxType /\ "mc" \in Contexts /\ ctx["mc"].v \in Vdevs
  BY DEF TypeOK, CtxType, CtxRec, Contexts, Singles
<1>2. CASE \E v \in Vdevs : hdd_tx_resume_timer_expired_handler(v)
  <2>1. PICK v \in Vdevs : hdd_tx_resume_timer_expired_handler(v)
    BY <1>2
  <2>2. Local("mc") /\ ctx'["mc"].pc = "unflag" /\ ctx'["mc"].msdu = ctx["mc"].msdu
    BY <1>1, <2>1, NextVdevShape DEF hdd_tx_resume_timer_expired_handler, Wake, Labels
  <2>3. Quiet("mc")
    BY <2>1, <2>2 DEF hdd_tx_resume_timer_expired_handler, Wake, Quiet, At, Free, Own,
                      Locked, Drain, llVars, poolVars
  <2>4. fc_posted' \in [Vdevs -> Nat] /\ netif_stopped' \in [Vdevs -> BOOLEAN]
    BY <2>1 DEF hdd_tx_resume_timer_expired_handler, Wake, TypeOK
  <2>5. TypeOK'
    BY <2>1, <2>2, <2>4 DEF hdd_tx_resume_timer_expired_handler, Wake, TypeOK, Local,
                            CtxType, CtxRec, llVars, poolVars, throttleVars, flowVars
  <2> QED
    BY <2>3, <2>5
<1>3. CASE hdd_clear_txflow_paused
  <2>1. Local("mc") /\ ctx'["mc"].pc = "idle" /\ ctx'["mc"].msdu = NoFrame
    BY <1>1, <1>3, ReturnShape DEF hdd_clear_txflow_paused
  <2>2. Quiet("mc")
    BY <1>3, <2>1
    DEF hdd_clear_txflow_paused, Quiet, At, Free, Own, Locked, Drain, llVars, poolVars
  <2>3. TypeOK'
    BY <1>1, <1>3, <2>1 DEF hdd_clear_txflow_paused, TypeOK, Local, CtxType, CtxRec,
                            llVars, poolVars, throttleVars, flowVars
  <2> QED
    BY <2>2, <2>3
<1> QED
  BY <1>2, <1>3

LEMMA NextMoves ==
  ASSUME TypeOK, HandInv, IsFiniteSet(target), Next
  PROVE  TypeOK' /\ Move
<1>1. ASSUME NEW q \in Queues, hdd_hard_start_xmit(q) \/ XmitStep(q)
      PROVE  TypeOK' /\ Move
  <2>1. q \in Contexts
    BY DEF Contexts
  <2> QED
    BY <1>1, <2>1, ArriveStep, DecideStep, SendStep, EnqueueStep DEF XmitStep, Move
<1>2. ASSUME NEW c \in Queues \cup Vdevs \cup {"ctl"}, DrainStep(c)
      PROVE  TypeOK' /\ Move
  <2>1. c \in Contexts
    BY DEF Contexts, Singles
  <2> QED
    BY <1>2, <2>1, CheckThrottleStep, SendBaseLockStep, SendBaseTxStep DEF DrainStep, Move
<1>3. ASSUME NEW c \in {"phase", "tx"}, SendAllStep(c)
      PROVE  TypeOK' /\ Move
  <2>1. c \in Contexts
    BY DEF Contexts, Singles
  <2> QED
    BY <1>3, <2>1, SendAllDequeueStep, SendAllTxStep, SendAllBacklogStep DEF SendAllStep, Move
<1>4. ASSUME NEW v \in Vdevs,
             ol_tx_vdev_ll_pause_queue_send(v) \/ vos_linux_timer_callback(v)
      PROVE  TypeOK' /\ Move
  <2>1. v \in Contexts
    BY DEF Contexts
  <2> QED
    BY <1>4, <2>1, TimerStep, CallbackStep DEF Move
<1>5. /\ "ctl" \in Contexts /\ "phase" \in Contexts /\ "tx" \in Contexts
      /\ "cpl" \in Contexts /\ "mc" \in Contexts
  BY DEF Contexts, Singles
<1>6. ASSUME \/ \E v \in Vdevs : hdd_tx_resume_timer_expired_handler(v)
             \/ hdd_clear_txflow_paused
      PROVE  TypeOK' /\ Move
  BY <1>5, <1>6, MessageStep DEF Move
<1>7. ASSUME ol_tx_pdev_throttle_phase_timer \/ ol_tx_pdev_throttle_tx_timer
      PROVE  TypeOK' /\ Move
  <2>1. CASE ol_tx_pdev_throttle_phase_timer
    <3>1. TypeOK' /\ Quiet("phase")
      BY <2>1, ThrottleTimerStep
    <3> QED
      BY <1>5, <3>1 DEF Move
  <2>2. CASE ol_tx_pdev_throttle_tx_timer
    <3>1. TypeOK' /\ Quiet("tx")
      BY <2>2, ThrottleTimerStep
    <3> QED
      BY <1>5, <3>1 DEF Move
  <2> QED
    BY <1>7, <2>1, <2>2
<1>8. ASSUME Control \/ CtlStep
      PROVE  TypeOK' /\ Move
  <2>1. ASSUME NEW v \in Vdevs, NEW R \in {{r} : r \in Reasons} \cup {Reasons},
               ol_txrx_vdev_unpause(v, R)
        PROVE  TypeOK' /\ Move
    <3>1. R \in SUBSET Reasons
      OBVIOUS
    <3> QED
      BY <1>5, <2>1, <3>1, UnpauseStep DEF Move
  <2>2. ASSUME NEW v \in Vdevs, \/ \E r \in Reasons : ol_txrx_vdev_pause(v, r)
                                \/ ol_txrx_vdev_flush(v) \/ DetachLock(v)
        PROVE  TypeOK' /\ Move
    BY <2>2, PauseStep, FlushStep, DetachLockStep DEF Move
  <2>3. ASSUME \/ ol_tx_vdev_ll_pause_start_timer \/ ThrottleRestartPhase
               \/ \E l \in Levels : ol_tx_throttle_set_level(l)
        PROVE  TypeOK' /\ Move
    BY <1>5, <2>3, CtlStepQuiet DEF Move
  <2>4. ASSUME adf_os_timer_free
        PROVE  TypeOK' /\ Move
    BY <2>4, TimerFreeStep DEF Move
  <2> QED
    BY <1>8, <2>1, <2>2, <2>3, <2>4 DEF Control, CtlStep
<1>9. ASSUME ol_txrx_mgmt_send \/ Completion \/ ResumeStep
      PROVE  TypeOK' /\ Move
  <2>1. ASSUME NEW S \in SUBSET target, ol_tx_completion_handler(S)
        PROVE  TypeOK' /\ Move
    BY <2>1, CompletionStep DEF Move
  <2> QED
    BY <1>5, <1>9, <2>1, MgmtStep, ResumeStepQuiet DEF Completion, Move
<1> QED
  BY <1>1, <1>2, <1>3, <1>4, <1>6, <1>7, <1>8, <1>9 DEF Next

-----------------------------------------------------------------------------
(* Every move preserves the invariant *)

(* The frames stay where they are, or go from the target to the stack. *)
LEMMA FramesStay ==
  ASSUME TypeOK, FrameInv, UNCHANGED <<next, txq>>,
         target' \cup freed' = target \cup freed, target' \cap freed' = {},
         \A c \in Contexts :
           /\ ctx'[c].msdu = ctx[c].msdu
           /\ ctx'[c].pc \in Own \cup Drain => ctx'[c] = ctx[c]
           /\ ctx'[c].pc \notin Own \cup Drain => ctx[c].pc \notin Own \cup Drain
  PROVE  HandInv' /\ HomeInv' /\ OnceInv' /\ KnownInv' /\ OrderInv'
<1>1. HandInv'
  BY DEF FrameInv, HandInv
<1>2. HomeInv'
  BY DEF FrameInv, HomeInv
<1>3. OnceInv'
  <2>1. \A c, d \in Contexts : ctx'[c].msdu = ctx'[d].msdu /\ ctx'[c].msdu # NoFrame => c = d
    BY DEF FrameInv, OnceInv
  <2>2. \A c \in Contexts :
          /\ ctx'[c].msdu \notin target' \cup freed'
          /\ \A v \in Vdevs : \A i \in 1..Len(txq'[v]) : ctx'[c].msdu # txq'[v][i]
    BY DEF FrameInv, OnceInv
  <2>3. \A v \in Vdevs : \A i \in 1..Len(txq'[v]) : txq'[v][i] \notin target' \cup freed'
    BY DEF FrameInv, OnceInv
  <2> QED
    BY <2>1, <2>2, <2>3 DEF FrameInv, OnceInv
<1>4. KnownInv'
  BY DEF FrameInv, KnownInv, Somewhere
<1>5. OrderInv'
  <2>1. "send" \in Own /\ \A q \in Queues : q \in Contexts
    BY DEF Own, Contexts
  <2> QED
    BY <2>1, SMTT(30) DEF FrameInv, OrderInv
<1> QED
  BY <1>1, <1>2, <1>3, <1>4, <1>5

(* The lock of one vdev changes hands, or a vdev that nobody holds is paused. *)
LEMMA QuietKeeps ==
  ASSUME TypeOK, FrameInv, NEW c \in Contexts, Quiet(c)
  PROVE  FrameInv'
<1>1. /\ \A d \in Contexts \ {c} : ctx'[d] = ctx[d]
      /\ ctx[c].msdu = NoFrame /\ ctx'[c].msdu = NoFrame
      /\ ctx[c].pc \notin Own \cup Locked /\ ctx'[c].pc \notin Own \cup Locked
  BY DEF Quiet, Local, Free, FrameInv, HandInv, Locked
<1>2. HandInv' /\ HomeInv' /\ OnceInv' /\ KnownInv' /\ OrderInv'
  BY <1>1, FramesStay DEF Quiet, poolVars, FrameInv, OnceInv, Locked
<1>3. LockInv'
  <2>1. \A d \in Contexts : ctx[d].v \in Vdevs
    BY DEF TypeOK
  <2> QED
    BY <1>1, <2>1 DEF Quiet, FrameInv, LockInv, Locked
<1>4. PoolInv'
  BY DEF Quiet, poolVars, FrameInv, PoolInv
<1> QED
  BY <1>2, <1>3, <1>4 DEF FrameInv

LEMMA LockVdevKeeps ==
  ASSUME TypeOK, FrameInv, NEW v \in Vdevs, LockVdev(v)
  PROVE  FrameInv'
<1>1. /\ "ctl" \in Contexts /\ "ctl" # Nobody
      /\ \A d \in Contexts \ {"ctl"} : ctx'[d] = ctx[d]
      /\ ctx'["ctl"].msdu = ctx["ctl"].msdu
      /\ ctx["ctl"].pc \notin Own \cup Locked /\ ctx'["ctl"].pc = "timerfree"
  BY DEF LockVdev, Local, Free, Contexts, Singles, Nobody
<1>2. "timerfree" \notin Own \cup Drain
  BY DEF Own, Drain
<1>3. HandInv' /\ HomeInv' /\ OnceInv' /\ KnownInv' /\ OrderInv'
  BY <1>1, <1>2, FramesStay DEF LockVdev, poolVars, FrameInv, OnceInv, Locked
<1>4. LockInv'
  <2>1. \A d \in Contexts : ctx[d].v \in Vdevs /\ d # Nobody
    BY ContextAssumption DEF TypeOK, Contexts, Singles, Nobody
  <2>2. \A d \in Contexts : ctx[d].pc \in Locked => ctx[d].v # v
    BY <2>1 DEF FrameInv, LockInv, LockVdev, Unlocked
  <2> QED
    <3>1. mutex'[v] = "ctl" /\ ctx'["ctl"].v = v /\ \A w \in Vdevs \ {v} : mutex'[w] = mutex[w]
      BY DEF LockVdev, TypeOK
    <3>2. \A d \in Contexts \ {"ctl"} :
            /\ ctx'[d].pc \in Locked => mutex'[ctx'[d].v] = d
            /\ ctx'[d].pc \in Drain => paused_reason'[ctx'[d].v] = {}
      BY <1>1, <2>1, <2>2, <3>1 DEF LockVdev, FrameInv, LockInv
    <3> QED
      BY <1>1, <1>2, <3>1, <3>2 DEF LockInv
<1>5. PoolInv'
  BY DEF LockVdev, poolVars, FrameInv, PoolInv
<1> QED
  BY <1>3, <1>4, <1>5 DEF FrameInv

LEMMA PauseVdevKeeps ==
  ASSUME TypeOK, FrameInv, NEW v \in Vdevs, PauseVdev(v)
  PROVE  FrameInv'
<1>1. HandInv' /\ HomeInv' /\ OnceInv' /\ KnownInv' /\ OrderInv'
  BY FramesStay DEF PauseVdev, poolVars, FrameInv, OnceInv
<1>2. LockInv'
  <2>1. \A d \in Contexts : ctx[d].v \in Vdevs /\ d # Nobody
    BY ContextAssumption DEF TypeOK, Contexts, Singles, Nobody
  <2>2. \A d \in Contexts : ctx[d].pc \in Locked => ctx[d].v # v
    BY <2>1 DEF FrameInv, LockInv, PauseVdev, Unlocked
  <2> QED
    BY <2>1, <2>2 DEF PauseVdev, FrameInv, LockInv, Locked
<1>3. PoolInv'
  BY DEF PauseVdev, poolVars, FrameInv, PoolInv
<1> QED
  BY <1>1, <1>2, <1>3 DEF FrameInv

LEMMA ManageKeeps ==
  ASSUME TypeOK, FrameInv, Manage
  PROVE  FrameInv'
<1>1. HandInv' /\ HomeInv' /\ OnceInv' /\ KnownInv' /\ OrderInv'
  BY FramesStay DEF Manage, FrameInv, OnceInv
<1>2. LockInv'
  BY DEF Manage, FrameInv, LockInv
<1>3. PoolInv'
  <2>1. Cardinality(target) \in Nat
    BY FS_CardinalityType DEF FrameInv, PoolInv
  <2>2. PICK k \in -1..1 : num_free' = num_free - k /\ mgmt' = mgmt + k
    BY DEF Manage
  <2>3. num_free' + Cardinality(target) + mgmt' = PoolSize
    BY <2>1, <2>2 DEF FrameInv, PoolInv, TypeOK
  <2> QED
    BY <2>3 DEF Manage, FrameInv, PoolInv
<1> QED
  BY <1>1, <1>2, <1>3 DEF FrameInv

LEMMA CompleteKeeps ==
  ASSUME TypeOK, FrameInv, NEW S \in SUBSET target, Complete(S)
  PROVE  FrameInv'
<1>1. /\ "cpl" \in Contexts /\ \A d \in Contexts \ {"cpl"} : ctx'[d] = ctx[d]
      /\ ctx'["cpl"].msdu = ctx["cpl"].msdu
      /\ ctx["cpl"].pc \notin Own \cup Locked /\ ctx'["cpl"].pc \notin Own \cup Locked
  BY DEF Complete, Local, Free, Contexts, Singles
<1>2. target' \cup freed' = target \cup freed /\ target' \cap freed' = {}
  BY DEF Complete, FrameInv, OnceInv
<1>3. HandInv' /\ HomeInv' /\ OnceInv' /\ KnownInv' /\ OrderInv'
  BY <1>1, <1>2, FramesStay DEF Complete, Locked
<1>4. LockInv'
  BY <1>1 DEF Complete, FrameInv, LockInv, Locked
<1>5. PoolInv'
  <2>1. IsFiniteSet(S) /\ IsFiniteSet(target)
    BY FS_Subset DEF FrameInv, PoolInv
  <2>2. /\ IsFiniteSet(target \ S)
        /\ Cardinality(target \ S) = Cardinality(target) - Cardinality(target \cap S)
    BY <2>1, FS_Difference
  <2>3. target \cap S = S
    OBVIOUS
  <2>4. Cardinality(target) \in Nat /\ Cardinality(S) \in Nat
    BY <2>1, FS_CardinalityType
  <2>5. num_free \in Int /\ mgmt \in Int
    BY DEF TypeOK
  <2>6. num_free' + Cardinality(target \ S) + mgmt = PoolSize
    <3> DEFINE k == Cardinality(target)
               m == Cardinality(S)
               d == Cardinality(target \ S)
    <3>1. num_free + k + mgmt = PoolSize /\ k \in Nat /\ m \in Nat
      BY <2>4 DEF FrameInv, PoolInv
    <3>2. num_free' = num_free + m /\ d = k - m
      BY <2>2, <2>3 DEF Complete
    <3> HIDE DEF k, m, d
    <3>3. num_free' + d + mgmt = PoolSize
      BY <2>5, <3>1, <3>2
    <3> QED
      BY <3>3 DEF d
  <2> QED
    BY <2>2, <2>6 DEF Complete, FrameInv, PoolInv
<1> QED
  BY <1>3, <1>4, <1>5 DEF FrameInv

LEMMA DecideKeeps ==
  ASSUME TypeOK, FrameInv, NEW q \in Queues, Decide(q)
  PROVE  FrameInv'
<1>1. /\ q \in Contexts /\ \A d \in Contexts \ {q} : ctx'[d] = ctx[d]
      /\ ctx'[q].msdu = ctx[q].msdu /\ ctx[q].pc \in Own /\ ctx'[q].pc \in Own
      /\ UNCHANGED <<next, txq, mutex, num_free, target, mgmt, freed, paused_reason>>
  BY DEF Decide, Local, Contexts, poolVars
<1>2. Own \cap Locked = {} /\ Own \cap Drain = {} /\ "send" \in Own
  BY DEF Own, Locked, Drain
<1>3. HandInv'
  BY <1>1 DEF FrameInv, HandInv
<1>4. LockInv'
  BY <1>1, <1>2 DEF FrameInv, LockInv, Locked
<1>5. HomeInv'
  BY <1>1, <1>2 DEF FrameInv, HomeInv
<1>6. OnceInv'
  BY <1>1 DEF FrameInv, OnceInv
<1>7. KnownInv'
  BY <1>1 DEF FrameInv, KnownInv, Somewhere
<1>8. OrderInv'
  <2>1. \A c \in Contexts : ctx'[c].pc \in Drain => ctx'[c] = ctx[c]
    BY <1>1, <1>2
  <2>2. \A p \in Queues : ctx'[p].pc = "send" /\ ctx'[p].msdu \notin Eapol =>
          \A i \in 1..Len(txq'[VdevOf[p]]) : txq'[VdevOf[p]][i][1] # p
    <3>1. CASE ctx'[q].pc = "send" /\ ctx'[q].msdu \notin Eapol
      <4>1. txq[VdevOf[q]] = <<>>
        BY <1>1, <3>1 DEF Decide
      <4>2. \A p \in Queues : p \in Contexts
        BY DEF Contexts
      <4> QED
        BY <1>1, <4>1, <4>2 DEF FrameInv, OrderInv
    <3>2. CASE ~(ctx'[q].pc = "send" /\ ctx'[q].msdu \notin Eapol)
      <4>1. \A p \in Queues : p \in Contexts
        BY DEF Contexts
      <4> QED
        BY <1>1, <3>2, <4>1 DEF FrameInv, OrderInv
    <3> QED
      BY <3>1, <3>2
  <2> QED
    BY <1>1, <2>1, <2>2 DEF FrameInv, OrderInv
<1>9. PoolInv'
  BY <1>1 DEF FrameInv, PoolInv
<1> QED
  BY <1>3, <1>4, <1>5, <1>6, <1>7, <1>8, <1>9 DEF FrameInv

LEMMA ArriveKeeps ==
  ASSUME TypeOK, TypeOK', FrameInv, NEW q \in Queues, Arrive(q)
  PROVE  FrameInv'
<1> DEFINE f == <<q, next[q] + 1>>
<1>1. /\ q \in Contexts /\ \A d \in Contexts \ {q} : ctx'[d] = ctx[d]
      /\ ctx'[q].msdu = f /\ ctx'[q].pc \in Own \ {"send"} /\ ctx[q].pc \notin Own \cup Locked
      /\ UNCHANGED <<txq, mutex, num_free, target, mgmt, freed, paused_reason>>
  BY DEF Arrive, Local, Contexts, poolVars, Free
<1>2. Own \cap Locked = {} /\ Own \cap Drain = {}
  BY DEF Own, Locked, Drain
<1>3. next[q] \in Nat /\ next'[q] = next[q] + 1 /\ \A p \in Queues \ {q} : next'[p] = next[p]
  BY DEF Arrive, TypeOK
<1>4. f \in Frames /\ f # NoFrame /\ ~Somewhere(f) /\ ctx[q].msdu = NoFrame
  <2>1. f \in Frames
    BY <1>3, FrameMade DEF Arrive
  <2>2. f # NoFrame
    BY <2>1, FrameFacts
  <2>3. ~(f[2] <= next[f[1]])
    BY <1>3
  <2> HIDE DEF f
  <2> QED
    BY <1>1, <2>1, <2>2, <2>3 DEF FrameInv, KnownInv, HandInv, Locked
<1>5. \A p \in Queues : p \in Contexts
  BY DEF Contexts
<1>6. HandInv'
  <2>1. \A c \in Contexts \ {q} : /\ ctx'[c].msdu = NoFrame <=> ctx'[c].pc \notin Own \cup Drain
                                  /\ ctx'[c].pc \in Own => c \in Queues /\ ctx'[c].msdu = <<c, next'[c]>>
    BY <1>1, <1>3 DEF FrameInv, HandInv
  <2> QED
    BY <1>1, <1>3, <1>4, <2>1 DEF HandInv
<1>7. LockInv'
  BY <1>1, <1>2 DEF FrameInv, LockInv, Locked
<1>8. HomeInv'
  BY <1>1, <1>2 DEF FrameInv, HomeInv
<1> HIDE DEF f
<1>9. OnceInv'
  <2>1. /\ f \notin target \cup freed
        /\ \A c \in Contexts : ctx[c].msdu # f
        /\ \A v \in Vdevs : \A i \in 1..Len(txq[v]) : txq[v][i] # f
    BY <1>4 DEF Somewhere
  <2>2. \A c, d \in Contexts : ctx'[c].msdu = ctx'[d].msdu /\ ctx'[c].msdu # NoFrame => c = d
    BY <1>1, <2>1 DEF FrameInv, OnceInv
  <2>3. \A c \in Contexts :
          /\ ctx'[c].msdu \notin target \cup freed
          /\ \A v \in Vdevs : \A i \in 1..Len(txq[v]) : ctx'[c].msdu # txq[v][i]
    BY <1>1, <2>1 DEF FrameInv, OnceInv
  <2> QED
    BY <1>1, <2>2, <2>3 DEF FrameInv, OnceInv
<1>10. KnownInv'
  <2>1. ASSUME NEW g \in Frames
        PROVE  g[2] <= next'[g[1]] <=> Somewhere(g)'
    <3>1. g[1] \in Queues /\ g[2] \in Nat /\ g = <<g[1], g[2]>> /\ next[g[1]] \in Nat
      BY FrameFacts DEF TypeOK
    <3>2. g[2] <= next'[g[1]] <=> g = f \/ g[2] <= next[g[1]]
      BY <1>3, <3>1 DEF f
    <3>3. Somewhere(g)' <=> g = f \/ Somewhere(g)
      <4>1. \A c \in Contexts \ {q} : ctx'[c].msdu = ctx[c].msdu
        BY <1>1
      <4>2. g # NoFrame
        BY FrameFacts
      <4> QED
        BY <1>1, <1>4, <4>1, <4>2 DEF Somewhere
    <3> QED
      BY <3>2, <3>3 DEF FrameInv, KnownInv
  <2> QED
    BY <2>1 DEF KnownInv
<1>11. OrderInv'
  <2>1. \A c \in Contexts : ctx'[c].pc \in Drain \cup {"send"} => ctx'[c] = ctx[c]
    BY <1>1, <1>2
  <2>2. UNCHANGED txq
    BY <1>1
  <2> QED
    BY <1>5, <2>1, <2>2 DEF FrameInv, OrderInv
<1>12. PoolInv'
  BY <1>1 DEF FrameInv, PoolInv
<1> QED
  BY <1>6, <1>7, <1>8, <1>9, <1>10, <1>11, <1>12 DEF FrameInv

(* A lock that a context holds, nobody else holds. *)
LEMMA Alone ==
  ASSUME TypeOK, FrameInv, NEW c \in Contexts,
         ctx[c].pc \in Locked \/ Unlocked(ctx[c].v)
  PROVE  \A d \in Contexts \ {c} : ctx[d].pc \in Locked => ctx[d].v # ctx[c].v
<1>1. \A d \in Contexts : d # Nobody
  BY ContextAssumption DEF Contexts, Singles, Nobody
<1> QED
  BY <1>1 DEF FrameInv, LockInv, Unlocked

(* A frame in hand goes to the target or back: the union grows by it. *)
LEMMA GiveSets ==
  ASSUME TypeOK, FrameInv, NEW f \in Frames, f \notin target \cup freed, ol_tx_ll(f)
  PROVE  /\ target' \cup freed' = target \cup freed \cup {f} /\ target' \cap freed' = {}
         /\ IsFiniteSet(target') /\ num_free' + Cardinality(target') + mgmt' = PoolSize
<1>1. target' \cup freed' = target \cup freed \cup {f} /\ target' \cap freed' = {}
  BY DEF ol_tx_ll, FrameInv, OnceInv
<1>2. CASE num_free' = num_free - 1 /\ target' = target \cup {f} /\ UNCHANGED mgmt
  <2>1. /\ IsFiniteSet(target \cup {f})
        /\ Cardinality(target \cup {f}) = Cardinality(target) + 1
    BY FS_AddElement DEF FrameInv, PoolInv
  <2>2. Cardinality(target) \in Nat
    BY FS_CardinalityType DEF FrameInv, PoolInv
  <2>3. num_free' + Cardinality(target \cup {f}) + mgmt = PoolSize
    BY <1>2, <2>1, <2>2 DEF FrameInv, PoolInv, TypeOK
  <2> QED
    BY <1>1, <1>2, <2>1, <2>3
<1>3. CASE UNCHANGED <<num_free, target, mgmt>>
  BY <1>1, <1>3 DEF FrameInv, PoolInv
<1> QED
  BY <1>2, <1>3 DEF ol_tx_ll

(* A context's frame joins the target's or the freed ones. *)
LEMMA GoneKeeps ==
  ASSUME TypeOK, FrameInv, NEW c \in Contexts,
         \A d \in Contexts \ {c} : ctx'[d] = ctx[d],
         ctx[c].pc \in Own \cup Drain, ctx'[c].pc \notin Own \cup Locked,
         ctx'[c].msdu = NoFrame, UNCHANGED <<next, txq>>,
         target' \cup freed' = target \cup freed \cup {ctx[c].msdu}, target' \cap freed' = {}
  PROVE  HandInv' /\ HomeInv' /\ OnceInv' /\ KnownInv' /\ OrderInv'
<1> DEFINE f == ctx[c].msdu
<1>1. "send" \in Own /\ Own \cap Locked = {} /\ Drain \subseteq Locked
  BY DEF Own, Locked, Drain
<1>2. f \in Frames /\ f # NoFrame
  BY <1>1 DEF FrameInv, HandInv, TypeOK
<1>3. \A p \in Queues : p \in Contexts
  BY DEF Contexts
<1>4. HandInv'
  BY <1>1 DEF FrameInv, HandInv
<1>5. HomeInv'
  BY <1>1 DEF FrameInv, HomeInv
<1>6. OnceInv'
  <2>1. \A d \in Contexts \ {c} : ctx[d].msdu # f
    BY <1>2 DEF FrameInv, OnceInv
  <2>2. \A v \in Vdevs : \A i \in 1..Len(txq[v]) : txq[v][i] # f /\ txq[v][i] # NoFrame
    <3>1. \A v \in Vdevs : \A i \in 1..Len(txq[v]) : txq[v][i] \in Frames
      BY SeqFacts DEF TypeOK
    <3> QED
      BY <3>1, FrameFacts DEF FrameInv, OnceInv
  <2>3. NoFrame \notin target \cup freed \cup {f}
    BY <1>2, FrameFacts DEF TypeOK
  <2>4. \A d, e \in Contexts : ctx'[d].msdu = ctx'[e].msdu /\ ctx'[d].msdu # NoFrame => d = e
    BY DEF FrameInv, OnceInv
  <2>5. \A d \in Contexts :
          /\ ctx'[d].msdu \notin target' \cup freed'
          /\ \A v \in Vdevs : \A i \in 1..Len(txq[v]) : ctx'[d].msdu # txq[v][i]
    BY <2>1, <2>2, <2>3 DEF FrameInv, OnceInv
  <2>6. \A v \in Vdevs : \A i \in 1..Len(txq[v]) : txq[v][i] \notin target' \cup freed'
    BY <2>2 DEF FrameInv, OnceInv
  <2> QED
    BY <2>4, <2>5, <2>6 DEF FrameInv, OnceInv
<1>7. KnownInv'
  <2>1. ASSUME NEW g \in Frames
        PROVE  Somewhere(g)' <=> Somewhere(g)
    <3>1. g # NoFrame
      BY FrameFacts
    <3>2. (\E d \in Contexts : ctx[d].msdu = g) <=>
             g = f \/ (\E d \in Contexts : ctx'[d].msdu = g)
      BY <3>1
    <3> QED
      BY <3>2 DEF Somewhere
  <2> QED
    BY <2>1 DEF FrameInv, KnownInv
<1>8. OrderInv'
  <2>1. \A d \in Contexts : ctx'[d].pc \in Drain \cup {"send"} => ctx'[d] = ctx[d]
    BY <1>1
  <2> QED
    BY <1>3, <2>1 DEF FrameInv, OrderInv
<1> QED
  BY <1>4, <1>5, <1>6, <1>7, <1>8

LEMMA GiveKeeps ==
  ASSUME TypeOK, FrameInv, NEW c \in Contexts, Give(c)
  PROVE  FrameInv'
<1> DEFINE f == ctx[c].msdu
<1>1. /\ \A d \in Contexts \ {c} : ctx'[d] = ctx[d]
      /\ ctx[c].pc \in Drain \cup {"send"} /\ ctx'[c].pc \notin Own \cup Locked
      /\ ctx'[c].msdu = NoFrame /\ UNCHANGED <<next, txq, paused_reason>>
  BY DEF Give, Local, Free
<1>2. "send" \in Own /\ Own \cap Locked = {} /\ Drain \subseteq Locked
  BY DEF Own, Locked, Drain
<1>3. f \in Frames /\ f # NoFrame
  BY <1>1, <1>2 DEF FrameInv, HandInv, TypeOK
<1>4. /\ target' \cup freed' = target \cup freed \cup {f} /\ target' \cap freed' = {}
      /\ IsFiniteSet(target') /\ num_free' + Cardinality(target') + mgmt' = PoolSize
  BY <1>3, GiveSets DEF Give, FrameInv, OnceInv
<1>5. HandInv' /\ HomeInv' /\ OnceInv' /\ KnownInv' /\ OrderInv'
  BY <1>1, <1>2, <1>4, GoneKeeps
<1>6. LockInv'
  <2>1. CASE ctx[c].pc = "send"
    BY <1>1, <1>2, <2>1 DEF Give, FrameInv, LockInv
  <2>2. CASE ctx[c].pc \in Drain
    <3>1. \A d \in Contexts \ {c} : ctx[d].pc \in Locked => ctx[d].v # ctx[c].v
      BY <1>2, <2>2, Alone
    <3>2. ctx[c].v \in Vdevs /\ \A d \in Contexts : ctx[d].v \in Vdevs
      BY DEF TypeOK
    <3>3. \A w \in Vdevs \ {ctx[c].v} : mutex'[w] = mutex[w]
      BY <1>2, <2>2 DEF Give, TypeOK
    <3> QED
      BY <1>1, <1>2, <3>1, <3>2, <3>3 DEF FrameInv, LockInv
  <2> QED
    BY <1>1, <2>1, <2>2
<1>7. PoolInv'
  BY <1>1, <1>4 DEF FrameInv, PoolInv
<1> QED
  BY <1>5, <1>6, <1>7 DEF FrameInv

(* Taking the head of an unlocked or own queue, the last frame given first. *)
LEMMA TakeKeeps ==
  ASSUME TypeOK, FrameInv, NEW c \in Contexts, Take(c) \/ GiveTake(c)
  PROVE  FrameInv'
<1> DEFINE v == ctx[c].v
           f == Head(txq[v])
           old == ctx[c].msdu
           k(w) == IF w = v THEN 1 ELSE 0
<1>1. /\ v \in Vdevs /\ \A d \in Contexts \ {c} : ctx'[d] = ctx[d]
      /\ ctx'[c].pc \in Drain /\ ctx'[c].v = v /\ ctx'[c].msdu = f
      /\ txq[v] # <<>> /\ txq' = [txq EXCEPT ![v] = Tail(@)]
      /\ mutex' = [mutex EXCEPT ![v] = c] /\ UNCHANGED <<next, paused_reason>>
  BY DEF Take, GiveTake, TakeHead, Local, TypeOK
<1>2. Own \cap Locked = {} /\ Drain \subseteq Locked /\ "send" \in Own
  BY DEF Own, Locked, Drain
<1>3. /\ \A d \in Contexts \ {c} : ctx[d].pc \in Locked => ctx[d].v # v
      /\ paused_reason[v] = {} /\ ctx[c].pc \notin Own
  BY <1>2, Alone DEF Take, GiveTake, FrameInv, LockInv, Free
<1>4. /\ target' \cup freed' = target \cup freed \cup ({old} \ {NoFrame})
      /\ target' \cap freed' = {}
      /\ IsFiniteSet(target') /\ num_free' + Cardinality(target') + mgmt' = PoolSize
  <2>1. CASE Take(c)
    <3>1. old = NoFrame
      BY <1>2, <2>1 DEF Take, Free, FrameInv, HandInv
    <3> QED
      BY <2>1, <3>1 DEF Take, poolVars, FrameInv, OnceInv, PoolInv
  <2>2. CASE GiveTake(c)
    <3>1. old \in Frames /\ old # NoFrame /\ old \notin target \cup freed
      BY <1>2, <2>2 DEF GiveTake, FrameInv, HandInv, OnceInv, TypeOK
    <3> QED
      BY <2>2, <3>1, GiveSets DEF GiveTake
  <2> QED
    BY <2>1, <2>2
<1>5. \A p \in Queues : p \in Contexts
  BY DEF Contexts
<1>6. /\ \A w \in Vdevs : txq[w] \in Seq(Frames) /\ Len(txq[w]) \in Nat
      /\ \A w \in Vdevs \ {v} : txq'[w] = txq[w]
      /\ txq'[v] = Tail(txq[v]) /\ Len(txq'[v]) = Len(txq[v]) - 1
      /\ 1 \in 1..Len(txq[v]) /\ txq[v][1] = f /\ f \in Frames /\ f # NoFrame
  <2>1. \A w \in Vdevs : txq[w] \in Seq(Frames) /\ Len(txq[w]) \in Nat
    BY SeqFacts DEF TypeOK
  <2>2. /\ \A w \in Vdevs \ {v} : txq'[w] = txq[w]
        /\ txq'[v] = Tail(txq[v])
    BY <1>1 DEF TypeOK
  <2>3. Len(txq'[v]) = Len(txq[v]) - 1 /\ 1 \in 1..Len(txq[v]) /\ txq[v][1] = f /\ f \in Frames
    <3> DEFINE s == txq[v]
    <3>1. s \in Seq(Frames) /\ s # <<>>
      BY <1>1, <2>1
    <3> HIDE DEF s
    <3>2. /\ 1 \in 1..Len(s) /\ Head(s) = s[1] /\ s[1] \in Frames
          /\ Len(Tail(s)) = Len(s) - 1
      BY <3>1, SeqFacts
    <3> QED
      BY <2>2, <3>2 DEF s
  <2>4. f # NoFrame
    BY <2>3, FrameFacts
  <2> QED
    BY <2>1, <2>2, <2>3, <2>4
<1>7. \A w \in Vdevs : \A i \in 1..Len(txq'[w]) :
        /\ i + k(w) \in 1..Len(txq[w]) /\ txq'[w][i] = txq[w][i + k(w)]
        /\ w = v => i + k(w) # 1
  <2>1. \A i \in 1..Len(txq'[v]) : i + 1 \in 1..Len(txq[v]) /\ txq'[v][i] = txq[v][i + 1] /\ i + 1 # 1
    BY <1>1, <1>6, SeqFacts
  <2>2. \A w \in Vdevs \ {v} : \A i \in 1..Len(txq'[w]) : i + 0 = i /\ i \in 1..Len(txq[w])
    BY <1>6
  <2> QED
    BY <1>6, <2>1, <2>2
<1>8. \A w \in Vdevs : \A j \in 1..Len(txq[w]) :
        (w = v /\ j = 1) \/ (\E i \in 1..Len(txq'[w]) : txq'[w][i] = txq[w][j])
  <2>1. \A j \in 1..Len(txq[v]) : j # 1 =>
          j - 1 \in 1..Len(txq'[v]) /\ txq'[v][j - 1] = txq[v][j]
    BY <1>1, <1>6, SeqFacts
  <2> QED
    BY <1>6, <2>1
<1>9. k(v) = 1 /\ \A w \in Vdevs : k(w) \in Nat
  OBVIOUS
<1> HIDE DEF k, v, f, old
<1>10. HandInv'
  BY <1>1, <1>2, <1>6 DEF FrameInv, HandInv
<1>11. LockInv'
  <2>1. mutex'[v] = c /\ \A w \in Vdevs \ {v} : mutex'[w] = mutex[w]
    BY <1>1 DEF TypeOK
  <2>2. \A d \in Contexts : ctx[d].v \in Vdevs
    BY DEF TypeOK
  <2>3. \A d \in Contexts \ {c} : /\ ctx'[d].pc \in Locked => mutex'[ctx'[d].v] = d
                                  /\ ctx'[d].pc \in Drain => paused_reason'[ctx'[d].v] = {}
    BY <1>1, <1>3, <2>1, <2>2 DEF FrameInv, LockInv
  <2> QED
    BY <1>1, <1>3, <2>1, <2>3 DEF LockInv
<1>12. HomeInv'
  <2>1. VdevOf[f[1]] = v
    BY <1>1, <1>6 DEF FrameInv, HomeInv
  <2>2. \A w \in Vdevs : \A i \in 1..Len(txq'[w]) : VdevOf[txq'[w][i][1]] = w
    BY <1>7 DEF FrameInv, HomeInv
  <2> QED
    BY <1>1, <2>1, <2>2 DEF FrameInv, HomeInv
<1>13. OnceInv'
  <2>1. \A d \in Contexts : ctx[d].msdu # f
    BY <1>1, <1>6 DEF FrameInv, OnceInv
  <2>2. f \notin target' \cup freed'
    BY <1>1, <1>4, <1>6, <2>1 DEF FrameInv, OnceInv, old
  <2>3. \A d \in Contexts \ {c} : ctx[d].msdu \notin target' \cup freed'
    <3>1. \A d \in Contexts \ {c} : ctx[d].msdu = old => old = NoFrame
      BY DEF FrameInv, OnceInv, old
    <3> QED
      BY <1>4, <3>1 DEF FrameInv, OnceInv
  <2>4. \A d, e \in Contexts : ctx'[d].msdu = ctx'[e].msdu /\ ctx'[d].msdu # NoFrame => d = e
    BY <1>1, <2>1 DEF FrameInv, OnceInv
  <2>5. \A u, w \in Vdevs : \A i \in 1..Len(txq'[u]), j \in 1..Len(txq'[w]) :
          txq'[u][i] = txq'[w][j] => u = w /\ i = j
    <3> SUFFICES ASSUME NEW u \in Vdevs, NEW w \in Vdevs, NEW i \in 1..Len(txq'[u]),
                        NEW j \in 1..Len(txq'[w]), txq'[u][i] = txq'[w][j]
                 PROVE  u = w /\ i = j
      OBVIOUS
    <3> DEFINE a == i + k(u)
               b == j + k(w)
    <3>1. /\ a \in 1..Len(txq[u]) /\ txq'[u][i] = txq[u][a]
          /\ b \in 1..Len(txq[w]) /\ txq'[w][j] = txq[w][b]
      BY <1>7
    <3> HIDE DEF a, b
    <3>2. u = w /\ a = b
      <4>1. txq[u][a] = txq[w][b]
        BY <3>1
      <4>2. \A y \in 1..Len(txq[w]) : txq[u][a] = txq[w][y] => u = w /\ a = y
        BY <3>1 DEF FrameInv, OnceInv
      <4> QED
        BY <3>1, <4>1, <4>2
    <3>3. k(u) \in Nat /\ i + k(u) = j + k(u)
      BY <1>9, <3>2 DEF a, b
    <3> QED
      BY <1>6, <3>2, <3>3
  <2>6. \A w \in Vdevs : \A i \in 1..Len(txq'[w]) :
          /\ txq'[w][i] # f /\ txq'[w][i] \notin target' \cup freed'
          /\ \A d \in Contexts : txq'[w][i] # ctx[d].msdu
    <3> SUFFICES ASSUME NEW w \in Vdevs, NEW i \in 1..Len(txq'[w])
                 PROVE  /\ txq'[w][i] # f /\ txq'[w][i] \notin target' \cup freed'
                        /\ \A d \in Contexts : txq'[w][i] # ctx[d].msdu
      OBVIOUS
    <3> DEFINE j == i + k(w)
    <3>1. j \in 1..Len(txq[w]) /\ txq'[w][i] = txq[w][j] /\ (w = v => j # 1)
      BY <1>7
    <3> HIDE DEF j
    <3>2. txq[w][j] # f
      BY <1>1, <1>6, <3>1 DEF FrameInv, OnceInv
    <3>3. \A d \in Contexts : txq[w][j] # ctx[d].msdu
      BY <3>1 DEF FrameInv, OnceInv
    <3>4. txq[w][j] \notin target' \cup freed'
      BY <1>4, <3>1, <3>3 DEF FrameInv, OnceInv, old
    <3> QED
      BY <3>1, <3>2, <3>3, <3>4
  <2>7. ASSUME NEW d \in Contexts
        PROVE  /\ ctx'[d].msdu \notin target' \cup freed'
               /\ \A w \in Vdevs : \A i \in 1..Len(txq'[w]) : ctx'[d].msdu # txq'[w][i]
    <3>1. CASE d = c
      <4>1. ctx'[d].msdu = f
        BY <1>1, <3>1
      <4> QED
        BY <2>2, <2>6, <4>1
    <3>2. CASE d # c
      <4>1. ctx'[d].msdu = ctx[d].msdu /\ d \in Contexts \ {c}
        BY <1>1, <3>2
      <4>2. \A w \in Vdevs : \A i \in 1..Len(txq'[w]) : txq'[w][i] # ctx[d].msdu
        BY <2>6
      <4> QED
        BY <2>3, <4>1, <4>2
    <3> QED
      BY <3>1, <3>2
  <2> QED
    BY <1>4, <2>4, <2>5, <2>6, <2>7 DEF OnceInv
<1>14. KnownInv'
  <2>1. ASSUME NEW g \in Frames
        PROVE  Somewhere(g)' <=> Somewhere(g)
    <3>1. g # NoFrame
      BY FrameFacts
    <3>2. ASSUME Somewhere(g) PROVE Somewhere(g)'
      <4>1. CASE g \in target \cup freed
        BY <1>4, <4>1 DEF Somewhere
      <4>2. CASE \E d \in Contexts : ctx[d].msdu = g
        <5>1. PICK d \in Contexts : ctx[d].msdu = g
          BY <4>2
        <5>2. CASE d = c
          BY <1>4, <3>1, <5>1, <5>2 DEF Somewhere, old
        <5>3. CASE d # c
          BY <1>1, <5>1, <5>3 DEF Somewhere
        <5> QED
          BY <5>2, <5>3
      <4>3. CASE \E w \in Vdevs : \E j \in 1..Len(txq[w]) : txq[w][j] = g
        <5>0. PICK w \in Vdevs : \E j \in 1..Len(txq[w]) : txq[w][j] = g
          BY <4>3
        <5>1. PICK j \in 1..Len(txq[w]) : txq[w][j] = g
          BY <5>0
        <5>2. CASE w = v /\ j = 1
          BY <1>1, <1>6, <5>1, <5>2 DEF Somewhere
        <5>3. CASE \E i \in 1..Len(txq'[w]) : txq'[w][i] = txq[w][j]
          BY <5>1, <5>3 DEF Somewhere
        <5> QED
          BY <1>8, <5>2, <5>3
      <4> QED
        BY <3>2, <4>1, <4>2, <4>3 DEF Somewhere
    <3>3. ASSUME Somewhere(g)' PROVE Somewhere(g)
      <4>1. CASE g \in target' \cup freed'
        BY <1>4, <4>1 DEF Somewhere, old
      <4>2. CASE \E d \in Contexts : ctx'[d].msdu = g
        <5>1. PICK d \in Contexts : ctx'[d].msdu = g
          BY <4>2
        <5>2. CASE d = c
          BY <1>1, <1>6, <5>1, <5>2 DEF Somewhere
        <5>3. CASE d # c
          BY <1>1, <5>1, <5>3 DEF Somewhere
        <5> QED
          BY <5>2, <5>3
      <4>3. CASE \E w \in Vdevs : \E i \in 1..Len(txq'[w]) : txq'[w][i] = g
        BY <1>7, <4>3 DEF Somewhere
      <4> QED
        BY <3>3, <4>1, <4>2, <4>3 DEF Somewhere
    <3> QED
      BY <3>2, <3>3
  <2> QED
    BY <1>1, <2>1 DEF FrameInv, KnownInv
<1>15. OrderInv'
  <2>1. \A w \in Vdevs : \A i, j \in 1..Len(txq'[w]) :
          i < j /\ txq'[w][i][1] = txq'[w][j][1] => txq'[w][i][2] < txq'[w][j][2]
    <3> SUFFICES ASSUME NEW w \in Vdevs, NEW i \in 1..Len(txq'[w]), NEW j \in 1..Len(txq'[w]),
                        i < j, txq'[w][i][1] = txq'[w][j][1]
                 PROVE  txq'[w][i][2] < txq'[w][j][2]
      OBVIOUS
    <3> DEFINE a == i + k(w)
               b == j + k(w)
    <3>1. /\ a \in 1..Len(txq[w]) /\ txq'[w][i] = txq[w][a]
          /\ b \in 1..Len(txq[w]) /\ txq'[w][j] = txq[w][b]
      BY <1>7
    <3>2. a < b
      BY <1>9
    <3> HIDE DEF a, b
    <3> QED
      BY <3>1, <3>2 DEF FrameInv, OrderInv
  <2>2. \A i \in 1..Len(txq'[v]) : f[1] = txq'[v][i][1] => f[2] < txq'[v][i][2]
    <3> SUFFICES ASSUME NEW i \in 1..Len(txq'[v]), f[1] = txq'[v][i][1]
                 PROVE  f[2] < txq'[v][i][2]
      OBVIOUS
    <3> DEFINE a == i + k(v)
    <3>1. a \in 1..Len(txq[v]) /\ txq'[v][i] = txq[v][a] /\ 1 < a
      BY <1>1, <1>7, <1>9
    <3> HIDE DEF a
    <3>2. f = txq[v][1] /\ v \in Vdevs /\ 1 \in 1..Len(txq[v])
      BY <1>1, <1>6
    <3>3. \A x, y \in 1..Len(txq[v]) :
            x < y /\ txq[v][x][1] = txq[v][y][1] => txq[v][x][2] < txq[v][y][2]
      BY <3>2 DEF FrameInv, OrderInv
    <3> QED
      BY <3>1, <3>2, <3>3
  <2>3. ASSUME NEW d \in Contexts \ {c}, ctx'[d].pc \in Drain, NEW i \in 1..Len(txq'[ctx'[d].v]),
               ctx'[d].msdu[1] = txq'[ctx'[d].v][i][1]
        PROVE  ctx'[d].msdu[2] < txq'[ctx'[d].v][i][2]
    <3>1. ctx[d].v \in Vdevs \ {v} /\ ctx'[d] = ctx[d]
      BY <1>1, <1>2, <1>3, <2>3 DEF TypeOK
    <3>2. \A x \in 1..Len(txq[ctx[d].v]) : ctx[d].msdu[1] = txq[ctx[d].v][x][1] =>
            ctx[d].msdu[2] < txq[ctx[d].v][x][2]
      BY <2>3, <3>1 DEF FrameInv, OrderInv
    <3> QED
      BY <1>6, <2>3, <3>1, <3>2
  <2>4. ASSUME NEW q \in Queues, ctx'[q].pc = "send", ctx'[q].msdu \notin Eapol,
               NEW i \in 1..Len(txq'[VdevOf[q]])
        PROVE  txq'[VdevOf[q]][i][1] # q
    <3>1. q \in Contexts /\ ctx'[q] = ctx[q] /\ VdevOf[q] \in Vdevs
      BY <1>1, <1>2, <1>5, <2>4, FlowAssumption
    <3> QED
      BY <1>7, <2>4, <3>1 DEF FrameInv, OrderInv
  <2> QED
    BY <1>1, <2>1, <2>2, <2>3, <2>4 DEF OrderInv
<1>16. PoolInv'
  <2>1. \A w \in Vdevs : Len(txq'[w]) <= max_q_depth
    <3>1. max_q_depth \in Nat /\ \A w \in Vdevs : Len(txq[w]) <= max_q_depth
      BY FlowAssumption DEF FrameInv, PoolInv
    <3>2. Len(txq'[v]) <= max_q_depth
      <4> DEFINE m == Len(txq[v])
      <4>1. m \in Nat /\ m <= max_q_depth /\ Len(txq'[v]) = m - 1
        BY <1>1, <1>6, <3>1
      <4> HIDE DEF m
      <4> QED
        BY <3>1, <4>1
    <3> QED
      BY <1>6, <3>1, <3>2
  <2> QED
    BY <1>4, <2>1 DEF PoolInv
<1> QED
  BY <1>10, <1>11, <1>12, <1>13, <1>14, <1>15, <1>16 DEF FrameInv

LEMMA EnqueueKeeps ==
  ASSUME TypeOK, FrameInv, NEW q \in Queues, Enqueue(q)
  PROVE  FrameInv'
<1> DEFINE v == VdevOf[q]
           f == ctx[q].msdu
           n == Len(txq[v])
<1>1. /\ q \in Contexts /\ v \in Vdevs /\ \A d \in Contexts \ {q} : ctx'[d] = ctx[d]
      /\ ctx[q].pc = "append" /\ ctx'[q].pc \notin Own \cup Locked /\ ctx'[q].msdu = NoFrame
      /\ Unlocked(v) /\ UNCHANGED <<next, mutex, num_free, target, mgmt, paused_reason>>
  BY FlowAssumption DEF Enqueue, Local, Contexts, Free
<1>2. "append" \in Own /\ "send" \in Own /\ Own \cap Locked = {} /\ Drain \subseteq Locked
  BY DEF Own, Locked, Drain
<1>3. f \in Frames /\ f # NoFrame /\ f = <<q, next[q]>> /\ next[q] \in Nat
  BY <1>1, <1>2 DEF FrameInv, HandInv, TypeOK
<1>4. LockInv'
  BY <1>1, <1>2 DEF FrameInv, LockInv
<1>5. \A w \in Vdevs : txq[w] \in Seq(Frames) /\ Len(txq[w]) \in Nat
  BY SeqFacts DEF TypeOK
<1>6. CASE n >= max_q_depth
  <2>1. UNCHANGED txq /\ freed' = freed \cup {f}
    <3>1. ~(n < max_q_depth)
      BY <1>1, <1>5, <1>6, FlowAssumption
    <3> QED
      BY <1>1, <3>1 DEF Enqueue, TypeOK
  <2>2. /\ target' \cup freed' = target \cup freed \cup {f} /\ target' \cap freed' = {}
    BY <1>1, <2>1 DEF FrameInv, OnceInv
  <2>3. HandInv' /\ HomeInv' /\ OnceInv' /\ KnownInv' /\ OrderInv'
    BY <1>1, <1>2, <2>1, <2>2, GoneKeeps
  <2>4. PoolInv'
    BY <1>1, <2>1 DEF FrameInv, PoolInv
  <2> QED
    BY <1>4, <2>3, <2>4 DEF FrameInv
<1>7. CASE n < max_q_depth
  <2>1. /\ freed' = freed /\ txq'[v] = Append(txq[v], f)
        /\ \A w \in Vdevs \ {v} : txq'[w] = txq[w]
    BY <1>1, <1>7 DEF Enqueue, TypeOK
  <2>2. /\ n \in Nat /\ Len(txq'[v]) = n + 1 /\ txq'[v][n + 1] = f
        /\ \A i \in 1..n : txq'[v][i] = txq[v][i]
    <3> DEFINE s == txq[v]
    <3>1. s \in Seq(Frames)
      BY <1>1, <1>5
    <3> HIDE DEF s
    <3>2. /\ Len(s) \in Nat /\ Len(Append(s, f)) = Len(s) + 1 /\ Append(s, f)[Len(s) + 1] = f
          /\ \A i \in 1..Len(s) : Append(s, f)[i] = s[i]
      BY <1>3, <3>1, SeqFacts
    <3> QED
      BY <2>1, <3>2 DEF s
  <2>3. \A w \in Vdevs : \A i \in 1..Len(txq'[w]) :
          \/ w = v /\ i = n + 1 /\ txq'[w][i] = f
          \/ i \in 1..Len(txq[w]) /\ txq'[w][i] = txq[w][i]
    <3>1. \A i \in 1..(n + 1) : i = n + 1 \/ i \in 1..n
      BY <2>2
    <3>2. \A i \in 1..Len(txq'[v]) :
            \/ i = n + 1 /\ txq'[v][i] = f
            \/ i \in 1..Len(txq[v]) /\ txq'[v][i] = txq[v][i]
      BY <2>2, <3>1
    <3> QED
      BY <2>1, <3>2
  <2>4. \A w \in Vdevs : \A i \in 1..Len(txq[w]) :
          i \in 1..Len(txq'[w]) /\ txq'[w][i] = txq[w][i]
    BY <2>1, <2>2
  <2>5. /\ f \notin target \cup freed /\ \A d \in Contexts \ {q} : ctx[d].msdu # f
        /\ \A w \in Vdevs : \A i \in 1..Len(txq[w]) : txq[w][i] # f
    BY <1>1, <1>3 DEF FrameInv, OnceInv
  <2>6. n + 1 \in 1..Len(txq'[v]) /\ n + 1 \notin 1..n
    BY <2>2
  <2>7. \A w \in Vdevs : \A i \in 1..Len(txq[w]) : txq[w][i] \in Frames
    BY <1>5
  <2> HIDE DEF v, f, n
  <2>8. HandInv'
    BY <1>1, <1>2 DEF FrameInv, HandInv
  <2>9. HomeInv'
    <3>1. VdevOf[f[1]] = v
      BY <1>3 DEF v
    <3>2. \A w \in Vdevs : \A i \in 1..Len(txq'[w]) : VdevOf[txq'[w][i][1]] = w
      BY <2>3, <3>1 DEF FrameInv, HomeInv
    <3> QED
      BY <1>1, <1>2, <3>2 DEF FrameInv, HomeInv
  <2>10. OnceInv'
    <3>1. \A c, d \in Contexts : ctx'[c].msdu = ctx'[d].msdu /\ ctx'[c].msdu # NoFrame => c = d
      BY <1>1 DEF FrameInv, OnceInv
    <3>2. ASSUME NEW u \in Vdevs, NEW w \in Vdevs, NEW i \in 1..Len(txq'[u]),
                 NEW j \in 1..Len(txq'[w]), txq'[u][i] = txq'[w][j]
          PROVE  u = w /\ i = j
      <4>1. CASE txq'[u][i] = f
        <5>1. u = v /\ i = n + 1
          BY <2>3, <2>5, <4>1
        <5>2. w = v /\ j = n + 1
          <6>1. txq'[w][j] = f
            BY <3>2, <4>1
          <6> QED
            BY <2>3, <2>5, <6>1
        <5> QED
          BY <5>1, <5>2
      <4>2. CASE txq'[u][i] # f
        <5>1. /\ i \in 1..Len(txq[u]) /\ txq'[u][i] = txq[u][i]
              /\ j \in 1..Len(txq[w]) /\ txq'[w][j] = txq[w][j]
          BY <2>3, <3>2, <4>2
        <5>2. txq[u][i] = txq[w][j]
          BY <3>2, <5>1
        <5> QED
          BY <5>1, <5>2 DEF FrameInv, OnceInv
      <4> QED
        BY <4>1, <4>2
    <3>3. ASSUME NEW c \in Contexts
          PROVE  /\ ctx'[c].msdu \notin target' \cup freed'
                 /\ \A w \in Vdevs : \A i \in 1..Len(txq'[w]) : ctx'[c].msdu # txq'[w][i]
      <4>1. CASE c = q
        <5>1. NoFrame \notin target \cup freed
          BY FrameFacts DEF TypeOK
        <5>2. \A w \in Vdevs : \A i \in 1..Len(txq'[w]) : NoFrame # txq'[w][i]
          BY <1>3, <2>3, <2>7, FrameFacts
        <5> QED
          BY <1>1, <2>1, <4>1, <5>1, <5>2
      <4>2. CASE c # q
        <5>1. ctx'[c].msdu = ctx[c].msdu /\ ctx[c].msdu # f
          BY <1>1, <2>5, <4>2
        <5>2. ctx[c].msdu \notin target \cup freed
          BY DEF FrameInv, OnceInv
        <5>3. \A w \in Vdevs : \A i \in 1..Len(txq[w]) : ctx[c].msdu # txq[w][i]
          BY DEF FrameInv, OnceInv
        <5> QED
          BY <1>1, <2>1, <2>3, <5>1, <5>2, <5>3
      <4> QED
        BY <4>1, <4>2
    <3>4. \A w \in Vdevs : \A i \in 1..Len(txq'[w]) : txq'[w][i] \notin target' \cup freed'
      <4>1. \A w \in Vdevs : \A i \in 1..Len(txq[w]) : txq[w][i] \notin target \cup freed
        BY DEF FrameInv, OnceInv
      <4> QED
        BY <1>1, <2>1, <2>3, <2>5, <4>1
    <3>5. target' \cap freed' = {}
      BY <1>1, <2>1 DEF FrameInv, OnceInv
    <3> QED
      BY <3>1, <3>2, <3>3, <3>4, <3>5 DEF OnceInv
  <2>11. KnownInv'
    <3>1. ASSUME NEW g \in Frames
          PROVE  Somewhere(g)' <=> Somewhere(g)
      <4>1. g # NoFrame
        BY FrameFacts
      <4>2. (\E d \in Contexts : ctx[d].msdu = g) <=> g = f \/ (\E d \in Contexts : ctx'[d].msdu = g)
        BY <1>1, <4>1 DEF f
      <4>3. (\E w \in Vdevs : \E i \in 1..Len(txq'[w]) : txq'[w][i] = g) <=>
              g = f \/ (\E w \in Vdevs : \E i \in 1..Len(txq[w]) : txq[w][i] = g)
        <5>1. ASSUME NEW w \in Vdevs, NEW i \in 1..Len(txq'[w]), txq'[w][i] = g
              PROVE  g = f \/ (\E u \in Vdevs : \E j \in 1..Len(txq[u]) : txq[u][j] = g)
          BY <2>3, <5>1
        <5>2. ASSUME NEW w \in Vdevs, NEW i \in 1..Len(txq[w]), txq[w][i] = g
              PROVE  \E u \in Vdevs : \E j \in 1..Len(txq'[u]) : txq'[u][j] = g
          BY <2>4, <5>2
        <5>3. v \in Vdevs /\ n + 1 \in 1..Len(txq'[v]) /\ txq'[v][n + 1] = f
          BY <1>1, <2>2, <2>6
        <5> QED
          BY <5>1, <5>2, <5>3
      <4> QED
        BY <1>1, <2>1, <4>2, <4>3 DEF Somewhere
    <3> QED
      BY <1>1, <3>1 DEF FrameInv, KnownInv
  <2>12. OrderInv'
    <3>1. ASSUME NEW i \in 1..Len(txq[v]), txq[v][i][1] = q
          PROVE  txq[v][i][2] < f[2]
      <4> DEFINE g == txq[v][i]
      <4>1. g \in Frames /\ g # f /\ Somewhere(g)
        BY <1>1, <2>5, <2>7 DEF Somewhere
      <4>2. g[2] \in Nat /\ g = <<g[1], g[2]>>
        BY <4>1, FrameFacts
      <4>3. g[2] <= next[q]
        BY <3>1, <4>1 DEF FrameInv, KnownInv
      <4>4. g[2] # next[q]
        BY <1>3, <3>1, <4>1, <4>2
      <4> HIDE DEF g
      <4>5. g[2] < next[q]
        BY <1>3, <4>2, <4>3, <4>4
      <4> QED
        BY <1>3, <4>5 DEF g
    <3>2. ASSUME NEW w \in Vdevs, NEW i \in 1..Len(txq'[w]), NEW j \in 1..Len(txq'[w]),
                 i < j, txq'[w][i][1] = txq'[w][j][1]
          PROVE  txq'[w][i][2] < txq'[w][j][2]
      <4>1. CASE w = v /\ j = n + 1 /\ txq'[w][j] = f
        <5>1. i \in 1..Len(txq[v]) /\ txq'[w][i] = txq[v][i]
          BY <2>2, <3>2, <4>1 DEF n
        <5>2. f[1] = q
          BY <1>3
        <5> QED
          BY <3>1, <3>2, <4>1, <5>1, <5>2
      <4>2. CASE j \in 1..Len(txq[w]) /\ txq'[w][j] = txq[w][j]
        <5>1. i \in 1..Len(txq[w])
          BY <1>5, <3>2, <4>2
        <5>2. txq'[w][i] = txq[w][i]
          BY <2>4, <5>1
        <5> QED
          BY <3>2, <4>2, <5>1, <5>2 DEF FrameInv, OrderInv
      <4> QED
        BY <2>3, <4>1, <4>2
    <3>3. ASSUME NEW c \in Contexts, ctx'[c].pc \in Drain, NEW i \in 1..Len(txq'[ctx'[c].v]),
                 ctx'[c].msdu[1] = txq'[ctx'[c].v][i][1]
          PROVE  ctx'[c].msdu[2] < txq'[ctx'[c].v][i][2]
      <4>1. ctx'[c] = ctx[c] /\ ctx[c].v \in Vdevs
        BY <1>1, <1>2, <3>3 DEF TypeOK
      <4>2. ctx[c].v # v
        <5>1. c # Nobody
          BY ContextAssumption DEF Contexts, Singles, Nobody
        <5> QED
          BY <1>1, <1>2, <3>3, <4>1, <5>1 DEF FrameInv, LockInv, Unlocked
      <4> DEFINE w == ctx[c].v
      <4>3. txq'[w] = txq[w]
        BY <2>1, <4>1, <4>2
      <4>4. ctx[c].pc \in Drain /\ i \in 1..Len(txq[w]) /\ ctx[c].msdu[1] = txq[w][i][1]
        BY <3>3, <4>1, <4>3
      <4>5. ctx[c].msdu[2] < txq[w][i][2]
        BY <4>4 DEF FrameInv, OrderInv
      <4> QED
        BY <4>1, <4>3, <4>5
    <3>4. ASSUME NEW p \in Queues, ctx'[p].pc = "send", ctx'[p].msdu \notin Eapol,
                 NEW i \in 1..Len(txq'[VdevOf[p]])
          PROVE  txq'[VdevOf[p]][i][1] # p
      <4>1. p \in Contexts /\ p # q /\ ctx'[p] = ctx[p] /\ VdevOf[p] \in Vdevs
        BY <1>1, <1>2, <3>4, FlowAssumption DEF Contexts
      <4>2. f[1] = q
        BY <1>3
      <4> QED
        BY <2>3, <3>4, <4>1, <4>2 DEF FrameInv, OrderInv
    <3> QED
      BY <3>2, <3>3, <3>4 DEF OrderInv
  <2>13. PoolInv'
    <3>1. \A w \in Vdevs : Len(txq'[w]) <= max_q_depth
      <4>1. Len(txq'[v]) <= max_q_depth
        BY <1>7, <2>2, FlowAssumption
      <4> QED
        BY <2>1, <4>1 DEF FrameInv, PoolInv
    <3> QED
      BY <1>1, <3>1 DEF FrameInv, PoolInv
  <2> QED
    BY <1>4, <2>8, <2>9, <2>10, <2>11, <2>12, <2>13 DEF FrameInv
<1>8. n \in Nat /\ max_q_depth \in Nat
  BY <1>1, <1>5, FlowAssumption
<1> QED
  BY <1>6, <1>7, <1>8

LEMMA EmptyKeeps ==
  ASSUME TypeOK, FrameInv, NEW v \in Vdevs, Empty(v)
  PROVE  FrameInv'
<1>1. /\ freed' = freed \cup Range(txq[v]) /\ txq'[v] = <<>>
      /\ \A w \in Vdevs \ {v} : txq'[w] = txq[w]
      /\ UNCHANGED <<next, num_free, target, mgmt, paused_reason>>
  BY DEF Empty, TypeOK
<1>2. /\ "timerfree" \notin Own \cup Drain /\ "timerfree" \in Locked
      /\ "ctl" \in Contexts /\ "ctl" # Nobody /\ "send" \in Own
  BY DEF Own, Drain, Locked, Contexts, Singles, Nobody
<1>3. \A c \in Contexts :
        /\ ctx'[c].msdu = ctx[c].msdu
        /\ ctx'[c].pc \in Own \cup Locked => ctx'[c] = ctx[c]
        /\ ctx'[c].pc \notin Own \cup Drain => ctx[c].pc \notin Own \cup Drain
  <2>1. CASE UNCHANGED ctx
    BY <2>1
  <2>2. CASE /\ ctx["ctl"].pc = "timerfree" /\ Local("ctl") /\ Free("ctl")'
             /\ ctx'["ctl"].msdu = NoFrame
    BY <1>2, <2>2 DEF Local, Free, FrameInv, HandInv
  <2> QED
    BY <2>1, <2>2 DEF Empty
<1>4. /\ \A w \in Vdevs : txq[w] \in Seq(Frames) /\ Len(txq[w]) \in Nat
      /\ \A x : x \in Range(txq[v]) <=> \E i \in 1..Len(txq[v]) : x = txq[v][i]
  <2>1. \A w \in Vdevs : txq[w] \in Seq(Frames) /\ Len(txq[w]) \in Nat
    BY SeqFacts DEF TypeOK
  <2>2. Range(txq[v]) = {txq[v][i] : i \in 1..Len(txq[v])}
    BY <2>1, SeqFacts
  <2> QED
    BY <2>1, <2>2
<1>5. \A w \in Vdevs : \A i \in 1..Len(txq'[w]) :
        w # v /\ i \in 1..Len(txq[w]) /\ txq'[w][i] = txq[w][i]
  <2>1. Len(txq'[v]) = 0
    BY <1>1
  <2>2. 1..0 = {}
    OBVIOUS
  <2> QED
    BY <1>1, <2>1, <2>2
<1>6. Drain \subseteq Locked
  BY DEF Locked
<1>7. HandInv'
  BY <1>1, <1>3, <1>6 DEF FrameInv, HandInv
<1>8. LockInv'
  <2>1. CASE UNCHANGED mutex
    BY <1>1, <1>3, <1>6, <2>1 DEF FrameInv, LockInv
  <2>2. CASE /\ ctx["ctl"].pc = "timerfree" /\ ctx["ctl"].v = v /\ Free("ctl")'
             /\ mutex' = [mutex EXCEPT ![v] = Nobody]
    <3>1. \A d \in Contexts \ {"ctl"} : ctx[d].pc \in Locked => ctx[d].v # v
      BY <1>2, <2>2, Alone
    <3>2. \A d \in Contexts : ctx[d].v \in Vdevs
      BY DEF TypeOK
    <3>3. \A w \in Vdevs \ {v} : mutex'[w] = mutex[w]
      BY <2>2 DEF TypeOK
    <3>4. \A d \in Contexts : ctx'[d].pc \in Locked => d # "ctl" /\ ctx'[d] = ctx[d]
      BY <1>3, <2>2 DEF Free
    <3> QED
      BY <1>1, <1>6, <3>1, <3>2, <3>3, <3>4 DEF FrameInv, LockInv
  <2> QED
    BY <2>1, <2>2 DEF Empty
<1>9. HomeInv'
  BY <1>3, <1>5, <1>6 DEF FrameInv, HomeInv
<1>10. OnceInv'
  <2>1. \A c, d \in Contexts : ctx'[c].msdu = ctx'[d].msdu /\ ctx'[c].msdu # NoFrame => c = d
    BY <1>3 DEF FrameInv, OnceInv
  <2>2. \A u, w \in Vdevs : \A i \in 1..Len(txq'[u]), j \in 1..Len(txq'[w]) :
          txq'[u][i] = txq'[w][j] => u = w /\ i = j
    <3>1. \A u, w \in Vdevs : \A i \in 1..Len(txq[u]), j \in 1..Len(txq[w]) :
            txq[u][i] = txq[w][j] => u = w /\ i = j
      BY DEF FrameInv, OnceInv
    <3> QED
      BY <1>5, <3>1
  <2>3. \A c \in Contexts :
          /\ ctx'[c].msdu \notin target' \cup freed'
          /\ \A w \in Vdevs : \A i \in 1..Len(txq'[w]) : ctx'[c].msdu # txq'[w][i]
    BY <1>1, <1>3, <1>4, <1>5 DEF FrameInv, OnceInv
  <2>4. \A w \in Vdevs : \A i \in 1..Len(txq'[w]) : txq'[w][i] \notin target' \cup freed'
    <3> SUFFICES ASSUME NEW w \in Vdevs, NEW i \in 1..Len(txq'[w])
                 PROVE  txq'[w][i] \notin target' \cup freed'
      OBVIOUS
    <3>1. w # v /\ i \in 1..Len(txq[w]) /\ txq'[w][i] = txq[w][i]
      BY <1>5
    <3>2. txq[w][i] \notin target \cup freed
      BY <3>1 DEF FrameInv, OnceInv
    <3>3. \A j \in 1..Len(txq[v]) : txq[w][i] # txq[v][j]
      BY <3>1 DEF FrameInv, OnceInv
    <3> QED
      BY <1>1, <1>4, <3>1, <3>2, <3>3
  <2>5. target' \cap freed' = {}
    BY <1>1, <1>4 DEF FrameInv, OnceInv
  <2> QED
    BY <2>1, <2>2, <2>3, <2>4, <2>5 DEF OnceInv
<1>11. KnownInv'
  <2>1. ASSUME NEW g \in Frames
        PROVE  Somewhere(g)' <=> Somewhere(g)
    <3>1. ASSUME NEW w \in Vdevs, NEW i \in 1..Len(txq[w]), txq[w][i] = g
          PROVE  g \in Range(txq[v]) \/ \E u \in Vdevs : \E j \in 1..Len(txq'[u]) : txq'[u][j] = g
      BY <1>1, <1>4, <3>1
    <3>2. ASSUME NEW w \in Vdevs, NEW i \in 1..Len(txq'[w]), txq'[w][i] = g
          PROVE  \E u \in Vdevs : \E j \in 1..Len(txq[u]) : txq[u][j] = g
      BY <1>5, <3>2
    <3>3. g \in Range(txq[v]) => \E u \in Vdevs : \E j \in 1..Len(txq[u]) : txq[u][j] = g
      BY <1>4
    <3> QED
      BY <1>1, <1>3, <3>1, <3>2, <3>3 DEF Somewhere
  <2> QED
    BY <1>1, <2>1 DEF FrameInv, KnownInv
<1>12. OrderInv'
  <2>1. \A w \in Vdevs : \A i, j \in 1..Len(txq'[w]) :
          i < j /\ txq'[w][i][1] = txq'[w][j][1] => txq'[w][i][2] < txq'[w][j][2]
    BY <1>5, SMTT(30) DEF FrameInv, OrderInv
  <2>2. ASSUME NEW c \in Contexts, ctx'[c].pc \in Drain, NEW i \in 1..Len(txq'[ctx'[c].v]),
               ctx'[c].msdu[1] = txq'[ctx'[c].v][i][1]
        PROVE  ctx'[c].msdu[2] < txq'[ctx'[c].v][i][2]
    <3> DEFINE w == ctx[c].v
    <3>1. ctx'[c] = ctx[c] /\ w \in Vdevs
      BY <1>3, <1>6, <2>2 DEF TypeOK
    <3>2. txq'[w] = txq[w]
      BY <1>1, <1>5, <2>2, <3>1
    <3>3. ctx[c].pc \in Drain /\ i \in 1..Len(txq[w]) /\ ctx[c].msdu[1] = txq[w][i][1]
      BY <2>2, <3>1, <3>2
    <3>4. ctx[c].msdu[2] < txq[w][i][2]
      BY <3>3 DEF FrameInv, OrderInv
    <3> QED
      BY <3>1, <3>2, <3>4
  <2>3. ASSUME NEW p \in Queues, ctx'[p].pc = "send", ctx'[p].msdu \notin Eapol,
               NEW i \in 1..Len(txq'[VdevOf[p]])
        PROVE  txq'[VdevOf[p]][i][1] # p
    <3>1. p \in Contexts /\ ctx'[p] = ctx[p] /\ VdevOf[p] \in Vdevs
      BY <1>2, <1>3, <2>3, FlowAssumption DEF Contexts
    <3> QED
      BY <1>5, <2>3, <3>1 DEF FrameInv, OrderInv
  <2> QED
    BY <2>1, <2>2, <2>3 DEF OrderInv
<1>13. PoolInv'
  <2>1. \A w \in Vdevs : Len(txq'[w]) <= max_q_depth
    <3>1. Len(txq'[v]) <= max_q_depth
      BY <1>1, FlowAssumption
    <3> QED
      BY <1>1, <3>1 DEF FrameInv, PoolInv
  <2> QED
    BY <1>1, <2>1 DEF FrameInv, PoolInv
<1> QED
  BY <1>7, <1>8, <1>9, <1>10, <1>11, <1>12, <1>13 DEF FrameInv

-----------------------------------------------------------------------------
(* The invariant holds *)

LEMMA InitHolds ==
  ASSUME Init
  PROVE  TypeOK /\ FrameInv
<1>1. vdev_list[1] \in Vdevs /\ "idle" \in Labels
  BY WalkType DEF Labels
<1>2. Idle \in CtxRec /\ Idle.pc = "idle" /\ Idle.msdu = NoFrame
  BY <1>1 DEF CtxRec, Idle
<1>3. ASSUME NEW w \in Vdevs
      PROVE  /\ [Idle EXCEPT !.v = w] \in CtxRec
             /\ [Idle EXCEPT !.v = w].pc = "idle" /\ [Idle EXCEPT !.v = w].msdu = NoFrame
  BY <1>2 DEF CtxRec
<1>4. \A c \in Contexts : ctx[c] \in CtxRec /\ ctx[c].pc = "idle" /\ ctx[c].msdu = NoFrame
  BY <1>2, <1>3, FlowAssumption DEF Init
<1>5. ctx \in [Contexts -> CtxRec]
  BY <1>4 DEF Init
<1>6. /\ throttle_level \in 0..3 /\ num_free \in Int /\ mgmt \in Nat
      /\ target = {} /\ freed = {} /\ PoolSize \in Nat
  BY FlowAssumption DEF Init
<1>7. TypeOK
  <2>1. txq \in [Vdevs -> Seq(Frames)]
    BY EmptySeq DEF Init
  <2>2. mutex \in [Vdevs -> Contexts \cup {Nobody}] /\ next \in [Queues -> Nat]
    BY DEF Init
  <2> QED
    BY <1>5, <1>6, <2>1, <2>2 DEF TypeOK, CtxRec, Init
<1>8. "idle" \notin Own \cup Locked /\ Drain \subseteq Locked /\ "send" # "idle"
  BY DEF Own, Locked, Drain
<1>9. \A v \in Vdevs : txq[v] = <<>> /\ Len(txq[v]) = 0 /\ 1..Len(txq[v]) = {}
  BY DEF Init
<1>10. HandInv /\ LockInv /\ HomeInv
  BY <1>4, <1>8, <1>9 DEF HandInv, LockInv, HomeInv
<1>11. OnceInv
  BY <1>4, <1>6, <1>9 DEF OnceInv
<1>12. KnownInv
  <2>1. \A f \in Frames : ~(f[2] <= next[f[1]])
    BY FrameFacts DEF Init
  <2>2. \A f \in Frames : ~Somewhere(f)
    BY <1>4, <1>6, <1>9, FrameFacts DEF Somewhere
  <2> QED
    BY <2>1, <2>2 DEF KnownInv
<1>13. OrderInv
  <2>1. \A q \in Queues : q \in Contexts /\ VdevOf[q] \in Vdevs
    BY FlowAssumption DEF Contexts
  <2> QED
    BY <1>4, <1>8, <1>9, <2>1 DEF OrderInv
<1>14. PoolInv
  <2>1. IsFiniteSet({}) /\ Cardinality({}) = 0
    BY FS_EmptySet
  <2>2. max_q_depth \in Nat /\ num_free = PoolSize /\ mgmt = 0
    BY FlowAssumption DEF Init
  <2> QED
    BY <1>6, <1>9, <2>1, <2>2 DEF PoolInv
<1> QED
  BY <1>7, <1>10, <1>11, <1>12, <1>13, <1>14 DEF FrameInv

LEMMA MoveKeeps ==
  ASSUME TypeOK, TypeOK', FrameInv, Move
  PROVE  FrameInv'
BY QuietKeeps, GiveKeeps, TakeKeeps, DecideKeeps, ArriveKeeps, EnqueueKeeps, EmptyKeeps,
   LockVdevKeeps, PauseVdevKeeps, CompleteKeeps, ManageKeeps DEF Move

LEMMA StutterKeeps ==
  ASSUME TypeOK, FrameInv, UNCHANGED vars
  PROVE  TypeOK' /\ FrameInv'
<1>1. TypeOK'
  BY DEF TypeOK, vars, llVars, poolVars, throttleVars, flowVars, hddVars
<1>2. /\ UNCHANGED <<ctx, next, txq, target, freed, mutex, paused_reason>>
      /\ num_free' = num_free - 0 /\ mgmt' = mgmt + 0
  BY DEF TypeOK, vars, llVars, poolVars
<1>3. Manage
  BY <1>2 DEF Manage
<1> QED
  BY <1>1, <1>3, ManageKeeps

(* Every reachable state of TxFlow satisfies the inductive invariant. *)
THEOREM Invariance == Spec => [](TypeOK /\ FrameInv)
<1>1. Init => TypeOK /\ FrameInv
  BY InitHolds
<1>2. TypeOK /\ FrameInv /\ [Next]_vars => (TypeOK /\ FrameInv)'
  <2>1. ASSUME TypeOK, FrameInv, Next
        PROVE  TypeOK' /\ FrameInv'
    <3>1. HandInv /\ IsFiniteSet(target)
      BY <2>1 DEF FrameInv, PoolInv
    <3>2. TypeOK' /\ Move
      BY <2>1, <3>1, NextMoves
    <3> QED
      BY <2>1, <3>2, MoveKeeps
  <2> QED
    BY <2>1, StutterKeeps
<1> QED
  BY <1>1, <1>2, PTL DEF Spec

-----------------------------------------------------------------------------
(* The theorems *)

LEMMA ConservedFromInv ==
  ASSUME TypeOK, FrameInv
  PROVE  FramesConserved
<1> DEFINE A(f) == {c \in Contexts : ctx[c].msdu = f}
           B(f) == {p \in Vdevs \X (1..max_q_depth) :
                      p[2] \in DOMAIN txq[p[1]] /\ txq[p[1]][p[2]] = f}
<1>1. \A v \in Vdevs : DOMAIN txq[v] = 1..Len(txq[v]) /\ Len(txq[v]) \in Nat
                       /\ Len(txq[v]) <= max_q_depth
  <2>1. \A v \in Vdevs : txq[v] \in Seq(Frames)
    BY DEF TypeOK
  <2> QED
    BY <2>1, SeqFacts DEF FrameInv, PoolInv
<1>2. max_q_depth \in Nat
  BY FlowAssumption
<1>3. ASSUME NEW f \in Frames
      PROVE  Cardinality(A(f)) + Cardinality(B(f))
               + (IF f \in target THEN 1 ELSE 0) + (IF f \in freed THEN 1 ELSE 0)
             = IF f[2] <= next[f[1]] THEN 1 ELSE 0
  <2>1. f[2] <= next[f[1]] <=> Somewhere(f)
    BY DEF FrameInv, KnownInv
  <2>2. f # NoFrame
    BY FrameFacts
  <2>3. A(f) # {} <=> \E c \in Contexts : ctx[c].msdu = f
    OBVIOUS
  <2>4. B(f) # {} <=> \E v \in Vdevs : \E i \in 1..Len(txq[v]) : txq[v][i] = f
    <3>1. ASSUME NEW v \in Vdevs, NEW i \in 1..Len(txq[v]), txq[v][i] = f
          PROVE  <<v, i>> \in B(f)
      BY <1>1, <1>2, <3>1
    <3>2. ASSUME NEW x \in B(f)
          PROVE  \E v \in Vdevs : \E i \in 1..Len(txq[v]) : txq[v][i] = f
      <4>1. x[1] \in Vdevs /\ x[2] \in DOMAIN txq[x[1]] /\ txq[x[1]][x[2]] = f
        OBVIOUS
      <4>2. DOMAIN txq[x[1]] = 1..Len(txq[x[1]])
        BY <1>1, <4>1
      <4> QED
        BY <4>1, <4>2
    <3> HIDE DEF B
    <3> QED
      BY <3>1, <3>2
  <2>5. ASSUME NEW c \in Contexts, ctx[c].msdu = f
        PROVE  A(f) = {c} /\ B(f) = {} /\ f \notin target /\ f \notin freed
    BY <2>2, <2>4, <2>5 DEF FrameInv, OnceInv
  <2>6. ASSUME NEW v \in Vdevs, NEW i \in 1..Len(txq[v]), txq[v][i] = f
        PROVE  A(f) = {} /\ B(f) = {<<v, i>>} /\ f \notin target /\ f \notin freed
    <3>1. A(f) = {} /\ f \notin target /\ f \notin freed
      BY <2>6 DEF FrameInv, OnceInv
    <3>2. \A w \in Vdevs : \A j \in 1..Len(txq[w]) : txq[w][j] = f => w = v /\ j = i
      BY <2>6 DEF FrameInv, OnceInv
    <3>3. \A p \in B(f) : p = <<v, i>>
      <4> SUFFICES ASSUME NEW p \in B(f) PROVE p = <<v, i>>
        OBVIOUS
      <4>1. p = <<p[1], p[2]>> /\ p[1] \in Vdevs /\ p[2] \in 1..Len(txq[p[1]])
            /\ txq[p[1]][p[2]] = f
        BY <1>1
      <4> QED
        BY <3>2, <4>1
    <3>4. <<v, i>> \in B(f)
      BY <1>1, <1>2, <2>6
    <3> QED
      BY <3>1, <3>3, <3>4
  <2>7. ASSUME f \in target \cup freed
        PROVE  A(f) = {} /\ B(f) = {} /\ ~(f \in target /\ f \in freed)
    BY <2>3, <2>4, <2>7 DEF FrameInv, OnceInv
  <2>8. Cardinality({}) = 0 /\ \A x : Cardinality({x}) = 1
    BY FS_EmptySet, FS_Singleton
  <2> HIDE DEF A, B
  <2>9. CASE f \in target \cup freed
    <3>1. Cardinality(A(f)) = 0 /\ Cardinality(B(f)) = 0
      BY <2>7, <2>8, <2>9
    <3>2. f[2] <= next[f[1]]
      BY <2>1, <2>9 DEF Somewhere
    <3>3. f \in target => f \notin freed
      BY <2>7, <2>9
    <3>4. CASE f \in target
      BY <3>1, <3>2, <3>3, <3>4
    <3>5. CASE f \in freed
      BY <3>1, <3>2, <3>3, <3>5
    <3> QED
      BY <2>9, <3>4, <3>5
  <2>10. CASE \E c \in Contexts : ctx[c].msdu = f
    <3>1. PICK c \in Contexts : ctx[c].msdu = f
      BY <2>10
    <3>2. A(f) = {c} /\ B(f) = {} /\ f \notin target /\ f \notin freed
      BY <2>5, <3>1
    <3>3. Cardinality(A(f)) = 1 /\ Cardinality(B(f)) = 0
      BY <2>8, <3>2
    <3>4. f[2] <= next[f[1]]
      BY <2>1, <2>10 DEF Somewhere
    <3> QED
      BY <3>2, <3>3, <3>4
  <2>11. CASE \E v \in Vdevs : \E i \in 1..Len(txq[v]) : txq[v][i] = f
    <3>1. PICK v \in Vdevs : \E i \in 1..Len(txq[v]) : txq[v][i] = f
      BY <2>11
    <3>2. PICK i \in 1..Len(txq[v]) : txq[v][i] = f
      BY <3>1
    <3>3. A(f) = {} /\ B(f) = {<<v, i>>} /\ f \notin target /\ f \notin freed
      BY <2>6, <3>2
    <3>4. Cardinality(A(f)) = 0 /\ Cardinality(B(f)) = 1
      BY <2>8, <3>3
    <3>5. f[2] <= next[f[1]]
      BY <2>1, <2>11 DEF Somewhere
    <3> QED
      BY <3>3, <3>4, <3>5
  <2>12. CASE ~Somewhere(f)
    <3>1. A(f) = {} /\ B(f) = {} /\ f \notin target /\ f \notin freed
      BY <2>3, <2>4, <2>12 DEF Somewhere
    <3> QED
      BY <2>1, <2>8, <2>12, <3>1
  <2> QED
    BY <2>9, <2>10, <2>11, <2>12 DEF Somewhere
<1> QED
  BY <1>1, <1>3 DEF FramesConserved, FrameInv, PoolInv

(* Whatever the number of vdevs, queues and frames, a frame the stack       *)
(* handed over is in exactly one place, and no descriptor is lost: through  *)
(* pausing, throttling, flushing, a full queue and a detach.                *)
THEOREM Conserved == Spec => []FramesConserved
<1>1. TypeOK /\ FrameInv => FramesConserved
  BY ConservedFromInv
<1> QED
  BY <1>1, Invariance, PTL

(* What a step adds to the target was in a sender's or a drainer's hands. *)
LEMMA OnlyFromHands ==
  ASSUME TypeOK, FrameInv, Next, NEW f \in target' \ target
  PROVE  \E c \in Contexts : ctx[c].msdu = f /\ ctx[c].pc \in Drain \cup {"send"}
<1>1. Move
  BY NextMoves DEF FrameInv, PoolInv
<1>2. ASSUME NEW c \in Contexts, Give(c) \/ GiveTake(c)
      PROVE  ctx[c].msdu = f /\ ctx[c].pc \in Drain \cup {"send"}
  <2>1. ctx[c].pc \in Drain \cup {"send"} /\ ol_tx_ll(ctx[c].msdu)
    BY <1>2 DEF Give, GiveTake
  <2> QED
    BY <2>1 DEF ol_tx_ll
<1> QED
  BY <1>1, <1>2 DEF Move, Quiet, Take, Decide, Arrive, Enqueue, Empty, LockVdev, PauseVdev,
                    Complete, Manage, poolVars

(* While a vdev is paused, under any interleaving of pausing with senders,  *)
(* timers and the throttle, only a sender that looked before the pause      *)
(* reaches the target.                                                     *)
THEOREM PauseIsHonoured == Spec => PauseHonoured
<1> DEFINE P == \A f \in target' \ target :
                  paused_reason[VdevOf[f[1]]] # {} => At(f[1], "send") /\ ctx[f[1]].msdu = f
<1>1. TypeOK /\ FrameInv /\ [Next]_vars => [P]_vars
  <2> SUFFICES ASSUME TypeOK, FrameInv, Next, NEW f \in target' \ target,
                      paused_reason[VdevOf[f[1]]] # {}
               PROVE  At(f[1], "send") /\ ctx[f[1]].msdu = f
    OBVIOUS
  <2>1. PICK c \in Contexts : ctx[c].msdu = f /\ ctx[c].pc \in Drain \cup {"send"}
    BY OnlyFromHands
  <2>2. CASE ctx[c].pc \in Drain
    BY <2>1, <2>2 DEF FrameInv, HomeInv, LockInv
  <2>3. CASE ctx[c].pc = "send"
    <3>1. ctx[c].msdu = <<c, next[c]>>
      BY <2>3 DEF FrameInv, HandInv, Own
    <3> QED
      BY <2>1, <2>3, <3>1 DEF At
  <2> QED
    BY <2>1, <2>2, <2>3
<1> QED
  BY <1>1, Invariance, PTL DEF Spec, PauseHonoured

(* OvertakenInHand: frames of one OS queue reach the target in the order   *)
(* the stack handed them over, EAPOL apart, through any number of drainers *)
(* of the pause queue; only a sender that read depth 0 while a drainer held *)
(* the lock and an older frame in its hand overtakes, and that one frame.  *)
THEOREM QueueOrder == Spec => OvertakenInHand
<1> DEFINE P == \A f \in (target' \ target) \ Eapol, g \in Frames :
                  g[1] = f[1] /\ g[2] < f[2] /\ g \notin target \cup freed =>
                    /\ At(f[1], "send") /\ ctx[f[1]].msdu = f
                    /\ \E c \in Contexts \ {f[1]} :
                         ctx[c].msdu = g /\ mutex[VdevOf[f[1]]] = c
<1>1. TypeOK /\ FrameInv /\ [Next]_vars => [P]_vars
  <2> SUFFICES ASSUME TypeOK, FrameInv, Next, NEW f \in (target' \ target) \ Eapol,
                      NEW g \in Frames, g[1] = f[1], g[2] < f[2], g \notin target \cup freed
               PROVE  /\ At(f[1], "send") /\ ctx[f[1]].msdu = f
                      /\ \E c \in Contexts \ {f[1]} :
                           ctx[c].msdu = g /\ mutex[VdevOf[f[1]]] = c
    OBVIOUS
  <2>1. PICK c \in Contexts : ctx[c].msdu = f /\ ctx[c].pc \in Drain \cup {"send"}
    BY OnlyFromHands
  <2>2. "send" \in Own /\ f \in Frames
    BY <2>1, FrameFacts DEF TypeOK, Own, FrameInv, HandInv
  <2> DEFINE v == VdevOf[f[1]]
  <2>3. f[1] \in Queues /\ v \in Vdevs /\ f[2] \in Nat /\ g[2] \in Nat
    BY <2>2, FrameFacts, FlowAssumption
  <2>4. txq[v] \in Seq(Frames)
    BY <2>3 DEF TypeOK
  (* The older frame was handed over: it waits or is in a hand. *)
  <2>5. next[f[1]] \in Nat /\ f[2] <= next[f[1]]
    BY <2>1, <2>2, <2>3 DEF TypeOK, FrameInv, KnownInv, Somewhere
  <2>6. g[2] <= next[g[1]]
    BY <2>3, <2>5
  <2>7. \/ \E d \in Contexts : ctx[d].msdu = g
        \/ \E w \in Vdevs : \E i \in 1..Len(txq[w]) : txq[w][i] = g
    BY <2>6 DEF FrameInv, KnownInv, Somewhere
  (* Its place in a pause queue would be behind f, or f would not be sent. *)
  <2>8. ~\E w \in Vdevs : \E i \in 1..Len(txq[w]) : txq[w][i] = g
    <3> SUFFICES ASSUME NEW w \in Vdevs, NEW i \in 1..Len(txq[w]), txq[w][i] = g PROVE FALSE
      OBVIOUS
    <3>1. w = v
      BY DEF FrameInv, HomeInv
    <3>2. CASE ctx[c].pc \in Drain
      <4>1. ctx[c].v = v
        BY <2>1, <3>2 DEF FrameInv, HomeInv
      <4>2. f[2] < g[2]
        BY <2>1, <3>1, <3>2, <4>1 DEF FrameInv, OrderInv
      <4> QED
        BY <2>3, <4>2
    <3>3. CASE ctx[c].pc = "send"
      <4>1. c \in Queues /\ f = <<c, next[c]>>
        BY <2>1, <2>2, <3>3 DEF FrameInv, HandInv
      <4>2. f[1] = c
        BY <4>1
      <4>3. g[1] # c
        BY <2>1, <3>1, <3>3, <4>1, <4>2 DEF FrameInv, OrderInv
      <4> QED
        BY <4>2, <4>3
    <3> QED
      BY <2>1, <3>2, <3>3
  <2>9. PICK d \in Contexts : ctx[d].msdu = g
    BY <2>7, <2>8
  (* A sender's own frame is the newest, so g is in a drainer's hand. *)
  <2>10. ctx[d].pc \in Own \cup Drain
    BY <2>9, FrameFacts DEF FrameInv, HandInv
  <2>11. ctx[d].pc \notin Own
    <3> SUFFICES ASSUME ctx[d].pc \in Own PROVE FALSE
      OBVIOUS
    <3>1. g = <<d, next[d]>>
      BY <2>9 DEF FrameInv, HandInv
    <3>2. g[1] = d /\ g[2] = next[d]
      BY <3>1
    <3> QED
      BY <2>3, <2>5, <3>2
  <2>12. ctx[d].pc \in Drain /\ ctx[d].v = v /\ mutex[v] = d
    BY <2>9, <2>10, <2>11 DEF FrameInv, HomeInv, LockInv, Locked
  (* Two drainers would both hold the lock. *)
  <2>13. ctx[c].pc = "send"
    <3> SUFFICES ASSUME ctx[c].pc \in Drain PROVE FALSE
      BY <2>1
    <3>1. ctx[c].v = v /\ mutex[v] = c
      BY <2>1 DEF FrameInv, HomeInv, LockInv, Locked
    <3> QED
      BY <2>1, <2>3, <2>9, <2>12, <3>1
  <2>14. c = f[1]
    <3>1. f = <<c, next[c]>>
      BY <2>1, <2>2, <2>13 DEF FrameInv, HandInv
    <3> QED
      BY <3>1
  <2>15. d # f[1]
    BY <2>1, <2>3, <2>9, <2>14
  <2> QED
    BY <2>1, <2>9, <2>12, <2>13, <2>14, <2>15 DEF At
<1> QED
  BY <1>1, Invariance, PTL DEF Spec, OvertakenInHand

-----------------------------------------------------------------------------
(* Flow control: somebody will wake a stopped queue *)

(* A context that is not about to start the timer or to wake a queue leaves *)
(* what is owed as it is.                                                  *)
LEMMA WakeStay ==
  ASSUME WakeOwed, NEW c \in Contexts, Local(c), ctx[c].pc \notin {"timer", "start", "wake"},
         UNCHANGED <<netif_stopped, fc_timer, fc_posted>>
  PROVE  WakeOwed'
<1> SUFFICES ASSUME NEW v \in Vdevs, netif_stopped[v]
             PROVE  \/ fc_timer[v] = "RUNNING" \/ fc_posted[v] > 0
                    \/ \E q \in Queues : VdevOf[q] = v /\ ctx'[q].pc \in {"timer", "start"}
                    \/ ctx'["cpl"].pc = "wake" /\ ctx'["cpl"].v = v
  BY DEF WakeOwed, At
<1>1. CASE \E q \in Queues : VdevOf[q] = v /\ ctx[q].pc \in {"timer", "start"}
  <2>1. PICK q \in Queues : VdevOf[q] = v /\ ctx[q].pc \in {"timer", "start"}
    BY <1>1
  <2>2. q \in Contexts \ {c}
    BY <2>1 DEF Contexts
  <2> QED
    BY <2>1, <2>2 DEF Local
<1>2. CASE ctx["cpl"].pc = "wake" /\ ctx["cpl"].v = v
  <2>1. "cpl" \in Contexts \ {c}
    BY <1>2 DEF Contexts, Singles
  <2> QED
    BY <1>2, <2>1 DEF Local
<1> QED
  BY <1>1, <1>2 DEF WakeOwed, At

LEMMA XmitOwes ==
  ASSUME TypeOK, HandInv, WakeOwed, NEW q \in Queues, hdd_hard_start_xmit(q) \/ XmitStep(q)
  PROVE  WakeOwed'
<1>1. q \in Contexts /\ CtxType /\ VdevOf[q] \in Vdevs
  BY FlowAssumption DEF Contexts, TypeOK, CtxType, CtxRec
<1>2. CASE wlan_hdd_netif_queue_stop(q)
  <2>1. Local(q) /\ ctx'[q].pc = "timer" /\ ctx[q].pc = "stop"
    BY <1>1, <1>2, GotoShape DEF wlan_hdd_netif_queue_stop, At, Labels
  <2>2. netif_stopped' = [netif_stopped EXCEPT ![VdevOf[q]] = TRUE]
        /\ UNCHANGED <<fc_timer, fc_posted>>
    BY <1>2 DEF wlan_hdd_netif_queue_stop
  <2>3. ASSUME NEW v \in Vdevs, netif_stopped'[v]
        PROVE  \/ fc_timer[v] = "RUNNING" \/ fc_posted[v] > 0
               \/ \E p \in Queues : VdevOf[p] = v /\ ctx'[p].pc \in {"timer", "start"}
               \/ ctx'["cpl"].pc = "wake" /\ ctx'["cpl"].v = v
    <3>1. CASE v = VdevOf[q]
      BY <2>1, <3>1
    <3>2. CASE v # VdevOf[q]
      <4>1. netif_stopped[v]
        BY <2>2, <2>3, <3>2 DEF TypeOK
      <4>2. \A p \in Queues : VdevOf[p] = v => ctx'[p] = ctx[p]
        BY <2>1, <3>2 DEF Local, Contexts
      <4>3. ctx'["cpl"] = ctx["cpl"]
        BY <2>1, ContextAssumption DEF Local, Contexts, Singles
      <4> QED
        BY <4>1, <4>2, <4>3 DEF WakeOwed, At
    <3> QED
      BY <3>1, <3>2
  <2> QED
    BY <2>2, <2>3 DEF WakeOwed, At
<1>3. CASE vos_timer_getCurrentState(q)
  <2> DEFINE l == IF fc_timer[VdevOf[q]] = "STOPPED" THEN "start" ELSE "queue"
  <2>1. l \in Labels
    BY DEF Labels
  <2>2. Goto(q, l)
    BY <1>3 DEF vos_timer_getCurrentState
  <2>3. Local(q) /\ ctx'[q].pc = l
    <3> HIDE DEF l
    <3> QED
      BY <1>1, <2>1, <2>2, GotoShape
  <2>4. UNCHANGED <<netif_stopped, fc_timer, fc_posted>>
    BY <1>3 DEF vos_timer_getCurrentState, hddVars
  <2>5. ASSUME NEW v \in Vdevs, netif_stopped[v]
        PROVE  \/ fc_timer[v] = "RUNNING" \/ fc_posted[v] > 0
               \/ \E p \in Queues : VdevOf[p] = v /\ ctx'[p].pc \in {"timer", "start"}
               \/ ctx'["cpl"].pc = "wake" /\ ctx'["cpl"].v = v
    <3>1. CASE v = VdevOf[q]
      BY <2>3, <3>1 DEF TypeOK
    <3>2. CASE v # VdevOf[q]
      <4>2. \A p \in Queues : VdevOf[p] = v => ctx'[p] = ctx[p]
        BY <2>3, <3>2 DEF Local, Contexts
      <4>3. ctx'["cpl"] = ctx["cpl"]
        BY <2>3, ContextAssumption DEF Local, Contexts, Singles
      <4> QED
        BY <2>5, <4>2, <4>3 DEF WakeOwed, At
    <3> QED
      BY <3>1, <3>2
  <2> QED
    BY <2>4, <2>5 DEF WakeOwed, At
<1>4. CASE vos_timer_start(q)
  <2>1. Local(q)
    BY <1>1, <1>4, GotoShape DEF vos_timer_start, Labels
  <2>2. fc_timer' = [fc_timer EXCEPT ![VdevOf[q]] = "RUNNING"]
        /\ UNCHANGED <<netif_stopped, fc_posted>>
    BY <1>4 DEF vos_timer_start
  <2>3. ASSUME NEW v \in Vdevs, netif_stopped[v]
        PROVE  \/ fc_timer'[v] = "RUNNING" \/ fc_posted[v] > 0
               \/ \E p \in Queues : VdevOf[p] = v /\ ctx'[p].pc \in {"timer", "start"}
               \/ ctx'["cpl"].pc = "wake" /\ ctx'["cpl"].v = v
    <3>1. CASE v = VdevOf[q]
      BY <2>2, <3>1 DEF TypeOK
    <3>2. CASE v # VdevOf[q]
      <4>1. fc_timer'[v] = fc_timer[v]
        BY <2>2, <3>2 DEF TypeOK
      <4>2. \A p \in Queues : VdevOf[p] = v => ctx'[p] = ctx[p]
        BY <2>1, <3>2 DEF Local, Contexts
      <4>3. ctx'["cpl"] = ctx["cpl"]
        BY <2>1, ContextAssumption DEF Local, Contexts, Singles
      <4> QED
        BY <2>3, <4>1, <4>2, <4>3 DEF WakeOwed, At
    <3> QED
      BY <3>1, <3>2
  <2> QED
    BY <2>2, <2>3 DEF WakeOwed, At
<1>5. CASE hdd_hard_start_xmit(q)
  <2>1. Local(q)
    BY <1>5, ArriveStep DEF Arrive
  <2> QED
    BY <1>1, <1>5, <2>1, WakeStay DEF hdd_hard_start_xmit, At, hddVars
<1>6. CASE \/ ol_txrx_get_tx_resource(q) \/ hdd_set_txflow_paused(q)
           \/ ol_tx_ll_queue_reason(q) \/ ol_tx_ll_queue_depth(q)
  <2>1. Local(q)
    BY <1>6, DecideStep DEF Decide
  <2>2. ctx[q].pc \in {"resource", "flag", "queue", "depth"}
        /\ UNCHANGED <<netif_stopped, fc_timer, fc_posted>>
    BY <1>6 DEF ol_txrx_get_tx_resource, hdd_set_txflow_paused, ol_tx_ll_queue_reason,
                ol_tx_ll_queue_depth, At, hddVars
  <2> QED
    BY <1>1, <2>1, <2>2, WakeStay
<1>7. CASE ol_tx_ll_queue_send(q)
  <2>1. Local(q)
    BY <1>7, SendStep DEF Give
  <2> QED
    BY <1>1, <1>7, <2>1, WakeStay DEF ol_tx_ll_queue_send, At, hddVars
<1>8. CASE ol_tx_vdev_pause_queue_append(q)
  <2>1. Local(q)
    BY <1>8, EnqueueStep DEF Enqueue
  <2> QED
    BY <1>1, <1>8, <2>1, WakeStay DEF ol_tx_vdev_pause_queue_append, At, hddVars
<1> QED
  BY <1>2, <1>3, <1>4, <1>5, <1>6, <1>7, <1>8 DEF XmitStep

LEMMA DrainOwes ==
  ASSUME TypeOK, HandInv, WakeOwed, NEW c \in Contexts,
         \/ DrainStep(c) \/ SendAllStep(c)
         \/ c \in Vdevs /\ ol_tx_vdev_ll_pause_queue_send(c)
  PROVE  WakeOwed'
<1>1. Local(c)
  BY CheckThrottleStep, SendBaseLockStep, SendBaseTxStep, SendAllDequeueStep, SendAllTxStep,
     SendAllBacklogStep, TimerStep
     DEF DrainStep, SendAllStep, Quiet, Take, TakeHead, Give, GiveTake
<1>2. ctx[c].pc \in {"throttle", "base", "tx", "round", "roundtx", "backlog", "idle"}
  BY DEF DrainStep, SendAllStep, CheckThrottle, SendBaseLock, SendBaseTx, SendAllDequeue,
         SendAllTx, SendAllBacklog, ol_tx_vdev_ll_pause_queue_send, At
<1>3. UNCHANGED <<netif_stopped, fc_timer, fc_posted>>
  BY DEF DrainStep, SendAllStep, CheckThrottle, SendBaseLock, SendBaseTx, SendAllDequeue,
         SendAllTx, SendAllBacklog, ol_tx_vdev_ll_pause_queue_send, hddVars
<1> QED
  BY <1>1, <1>2, <1>3, WakeStay

LEMMA ControlOwes ==
  ASSUME TypeOK, WakeOwed,
         \/ Control \/ CtlStep \/ ol_tx_pdev_throttle_phase_timer \/ ol_tx_pdev_throttle_tx_timer
  PROVE  WakeOwed'
<1>1. {"ctl", "phase", "tx"} \subseteq Contexts
  BY DEF Contexts, Singles
<1>2. UNCHANGED <<netif_stopped, fc_timer, fc_posted>>
  BY DEF Control, CtlStep, ol_tx_pdev_throttle_phase_timer, ol_tx_pdev_throttle_tx_timer,
         ol_txrx_vdev_pause, ol_txrx_vdev_unpause, ol_txrx_vdev_flush, DetachLock,
         ol_tx_throttle_set_level, ol_tx_vdev_ll_pause_start_timer, adf_os_timer_free,
         ThrottleRestartPhase, hddVars
<1>3. CASE UNCHANGED ctx
  BY <1>2, <1>3 DEF WakeOwed, At
<1>4. CASE \/ ol_tx_pdev_throttle_phase_timer \/ ol_tx_pdev_throttle_tx_timer
  <2>1. \E c \in {"phase", "tx"} : Local(c) /\ ctx[c].pc = "idle"
    <3>1. CASE ol_tx_pdev_throttle_phase_timer
      <4>1. Quiet("phase")
        BY <3>1, ThrottleTimerStep
      <4> QED
        BY <3>1, <4>1 DEF Quiet, ol_tx_pdev_throttle_phase_timer, At
    <3>2. CASE ol_tx_pdev_throttle_tx_timer
      <4>1. Quiet("tx")
        BY <3>2, ThrottleTimerStep
      <4> QED
        BY <3>2, <4>1 DEF Quiet, ol_tx_pdev_throttle_tx_timer, At
    <3> QED
      BY <1>4, <3>1, <3>2
  <2> QED
    BY <1>1, <1>2, <2>1, WakeStay
<1>5. CASE Control \/ CtlStep
  <2>1. \/ UNCHANGED ctx
        \/ Local("ctl") /\ ctx["ctl"].pc \in {"idle", "restart", "timerfree", "setlevel"}
    <3>1. ASSUME NEW v \in Vdevs, NEW R \in {{r} : r \in Reasons} \cup {Reasons},
                 ol_txrx_vdev_unpause(v, R)
          PROVE  Local("ctl") /\ ctx["ctl"].pc = "idle"
      <4>1. R \in SUBSET Reasons
        OBVIOUS
      <4> QED
        BY <3>1, <4>1, UnpauseStep DEF Quiet, ol_txrx_vdev_unpause, At
    <3>2. ASSUME NEW v \in Vdevs, \/ \E r \in Reasons : ol_txrx_vdev_pause(v, r)
                                  \/ ol_txrx_vdev_flush(v)
          PROVE  ctx' = ctx
      BY <3>2 DEF ol_txrx_vdev_pause, ol_txrx_vdev_flush
    <3>3. ASSUME NEW v \in Vdevs, DetachLock(v)
          PROVE  Local("ctl") /\ ctx["ctl"].pc = "idle"
      BY <3>3, DetachLockStep DEF LockVdev, DetachLock, At
    <3>4. ASSUME \/ ol_tx_vdev_ll_pause_start_timer \/ ThrottleRestartPhase
                 \/ \E l \in Levels : ol_tx_throttle_set_level(l)
          PROVE  Local("ctl") /\ ctx["ctl"].pc \in {"idle", "restart", "setlevel"}
      <4>1. Local("ctl")
        BY <3>4, CtlStepQuiet DEF Quiet
      <4> QED
        BY <3>4, <4>1 DEF ol_tx_vdev_ll_pause_start_timer, ThrottleRestartPhase,
                          ol_tx_throttle_set_level, At
    <3>5. ASSUME adf_os_timer_free
          PROVE  Local("ctl") /\ ctx["ctl"].pc = "timerfree"
      <4>1. CtxType /\ Return("ctl") /\ ctx["ctl"].pc = "timerfree"
        BY <3>5 DEF adf_os_timer_free, At, TypeOK, CtxType, CtxRec
      <4> QED
        BY <1>1, <4>1, ReturnShape
    <3> QED
      BY <1>5, <3>1, <3>2, <3>3, <3>4, <3>5 DEF Control, CtlStep
  <2> QED
    BY <1>1, <1>2, <1>3, <2>1, WakeStay
<1> QED
  BY <1>4, <1>5

LEMMA TimerOwes ==
  ASSUME TypeOK, WakeOwed, NEW v \in Vdevs, vos_linux_timer_callback(v)
  PROVE  WakeOwed'
<1>1. /\ fc_posted' = [fc_posted EXCEPT ![v] = @ + 1]
      /\ fc_timer' = [fc_timer EXCEPT ![v] = "STOPPED"]
      /\ UNCHANGED <<ctx, netif_stopped>>
  BY DEF vos_linux_timer_callback
<1>2. \A w \in Vdevs : w # v => fc_posted'[w] = fc_posted[w] /\ fc_timer'[w] = fc_timer[w]
  BY <1>1 DEF TypeOK
<1>3. fc_posted'[v] > 0
  BY <1>1 DEF TypeOK
<1> QED
  BY <1>1, <1>2, <1>3 DEF WakeOwed, At

LEMMA WakeOwes ==
  ASSUME TypeOK, WakeOwed, NEW c \in {"mc", "cpl"}, NEW v \in Vdevs, Wake(v, c),
         ctx[c].pc \in {"idle", "wake"}, ctx[c].pc = "wake" => ctx[c].v = v,
         fc_posted' \in [Vdevs -> Nat],
         \A w \in Vdevs : w # v => fc_posted'[w] = fc_posted[w]
  PROVE  WakeOwed'
<1>1. c \in Contexts /\ c \notin Queues
  BY ContextAssumption DEF Contexts, Singles
<1>2. ctx' = [ctx EXCEPT ![c].pc = "unflag", ![c].v = v] /\ UNCHANGED fc_timer
      /\ netif_stopped' = [netif_stopped EXCEPT ![v] = FALSE]
  BY DEF Wake
<1>3. \A q \in Queues : ctx'[q] = ctx[q]
  BY <1>1, <1>2 DEF TypeOK, Contexts
<1>4. c # "cpl" => ctx'["cpl"] = ctx["cpl"]
  BY <1>2 DEF TypeOK, Contexts, Singles
<1>5. ASSUME NEW w \in Vdevs, netif_stopped'[w]
      PROVE  \/ fc_timer[w] = "RUNNING" \/ fc_posted'[w] > 0
             \/ \E p \in Queues : VdevOf[p] = w /\ ctx'[p].pc \in {"timer", "start"}
             \/ ctx'["cpl"].pc = "wake" /\ ctx'["cpl"].v = w
  <2>1. w # v /\ netif_stopped[w]
    BY <1>2, <1>5 DEF TypeOK
  <2> QED
    BY <1>3, <1>4, <2>1 DEF WakeOwed, At
<1> QED
  BY <1>2, <1>5 DEF WakeOwed, At

LEMMA MessageOwes ==
  ASSUME TypeOK, WakeOwed, \/ \E v \in Vdevs : hdd_tx_resume_timer_expired_handler(v)
                           \/ hdd_clear_txflow_paused
  PROVE  WakeOwed'
<1>1. ASSUME NEW v \in Vdevs, hdd_tx_resume_timer_expired_handler(v)
      PROVE  WakeOwed'
  <2>1. TypeOK'
    BY <1>1, MessageStep
  <2>2. Wake(v, "mc") /\ ctx["mc"].pc = "idle"
        /\ \A w \in Vdevs : w # v => fc_posted'[w] = fc_posted[w]
    BY <1>1 DEF hdd_tx_resume_timer_expired_handler, At, TypeOK
  <2>3. fc_posted' \in [Vdevs -> Nat]
    BY <2>1 DEF TypeOK
  <2> QED
    BY <2>2, <2>3, WakeOwes
<1>2. CASE hdd_clear_txflow_paused
  <2>1. Local("mc") /\ "mc" \in Contexts
    BY <1>2, MessageStep DEF Quiet, Contexts, Singles
  <2> QED
    BY <1>2, <2>1, WakeStay DEF hdd_clear_txflow_paused, At
<1> QED
  BY <1>1, <1>2

LEMMA CompletionOwes ==
  ASSUME TypeOK, WakeOwed, IsFiniteSet(target), ol_txrx_mgmt_send \/ Completion \/ ResumeStep
  PROVE  WakeOwed'
<1>1. "cpl" \in Contexts /\ CtxType /\ "cpl" \notin Queues
  BY ContextAssumption DEF Contexts, Singles, TypeOK, CtxType, CtxRec
<1>2. CASE ol_txrx_mgmt_send \/ ol_tx_single_completion_handler
  BY <1>2 DEF ol_txrx_mgmt_send, ol_tx_single_completion_handler, WakeOwed, At, hddVars
<1>3. ASSUME NEW S \in SUBSET target, ol_tx_completion_handler(S)
      PROVE  WakeOwed'
  <2>1. Local("cpl")
    BY <1>3, CompletionStep DEF Complete
  <2> QED
    BY <1>1, <1>3, <2>1, WakeStay DEF ol_tx_completion_handler, At, hddVars
<1>4. CASE ResumeStep
  <2>1. Local("cpl") /\ TypeOK'
    BY <1>4, ResumeStepQuiet DEF Quiet
  <2>2. CASE OL_TX_FLOW_CT_UNPAUSE_OS_Q \/ hdd_tx_resume_cb_flag
    <3>1. ctx["cpl"].pc \in {"unpause", "unflag"} /\ UNCHANGED <<netif_stopped, fc_timer, fc_posted>>
      BY <2>2 DEF OL_TX_FLOW_CT_UNPAUSE_OS_Q, hdd_tx_resume_cb_flag, At, hddVars
    <3> QED
      BY <1>1, <2>1, <3>1, WakeStay
  <2>3. CASE vos_timer_stop
    <3> DEFINE u == ctx["cpl"].v
    <3>1. ctx'["cpl"].pc = "wake" /\ ctx'["cpl"].v = u
      BY <1>1, <2>3, GotoShape DEF vos_timer_stop, Labels
    <3>2. \A q \in Queues : ctx'[q] = ctx[q]
      BY <1>1, <2>1 DEF Local, Contexts
    <3>3. ctx["cpl"].pc # "wake" /\ UNCHANGED <<netif_stopped, fc_posted>>
          /\ \A w \in Vdevs : w # u => fc_timer'[w] = fc_timer[w]
      BY <2>3 DEF vos_timer_stop, At, TypeOK
    <3> QED
      BY <3>1, <3>2, <3>3 DEF WakeOwed, At
  <2>4. CASE hdd_tx_resume_cb
    <3>1. ctx["cpl"].v \in Vdevs
      BY <1>1 DEF CtxType, CtxRec
    <3>2. Wake(ctx["cpl"].v, "cpl") /\ ctx["cpl"].pc = "wake" /\ UNCHANGED fc_posted
      BY <2>4 DEF hdd_tx_resume_cb, At
    <3>3. fc_posted' \in [Vdevs -> Nat]
      BY <3>2 DEF TypeOK
    <3> QED
      BY <3>1, <3>2, <3>3, WakeOwes
  <2> QED
    BY <1>4, <2>2, <2>3, <2>4 DEF ResumeStep
<1> QED
  BY <1>2, <1>3, <1>4 DEF Completion

LEMMA NextOwes ==
  ASSUME TypeOK, FrameInv, WakeOwed, Next
  PROVE  WakeOwed'
<1>1. HandInv /\ IsFiniteSet(target)
  BY DEF FrameInv, PoolInv
<1>2. Vdevs \subseteq Contexts /\ Queues \subseteq Contexts /\ {"ctl", "phase", "tx"} \subseteq Contexts
  BY DEF Contexts, Singles
<1>3. ASSUME NEW c \in Queues \cup Vdevs \cup {"ctl"}, DrainStep(c)
      PROVE  WakeOwed'
  BY <1>1, <1>2, <1>3, DrainOwes
<1>4. ASSUME NEW c \in {"phase", "tx"}, SendAllStep(c)
      PROVE  WakeOwed'
  BY <1>1, <1>2, <1>4, DrainOwes
<1>5. ASSUME NEW v \in Vdevs, ol_tx_vdev_ll_pause_queue_send(v)
      PROVE  WakeOwed'
  BY <1>1, <1>2, <1>5, DrainOwes
<1> QED
  BY <1>1, <1>3, <1>4, <1>5, XmitOwes, ControlOwes, TimerOwes, MessageOwes, CompletionOwes
     DEF Next

(* The OS queues of an adapter are never stopped with nobody left to wake   *)
(* them: whatever senders, the timer, its messages and the resume callback *)
(* do in between, and whatever the watermarks are.                         *)
THEOREM StopIsOwed == Spec => []WakeOwed
<1>1. Init => WakeOwed
  BY DEF Init, WakeOwed
<1>2. TypeOK /\ FrameInv /\ WakeOwed /\ [Next]_vars => WakeOwed'
  <2>1. ASSUME WakeOwed, UNCHANGED vars
        PROVE  WakeOwed'
    BY <2>1 DEF WakeOwed, At, vars, hddVars
  <2> QED
    BY <2>1, NextOwes
<1> QED
  BY <1>1, <1>2, Invariance, PTL DEF Spec
=============================================================================
