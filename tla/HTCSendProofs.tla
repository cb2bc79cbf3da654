--------------------------- MODULE HTCSendProofs ----------------------------
(***************************************************************************)
(* The transmit path of an HTC endpoint, proved for any number of packets, *)
(* contexts, credits and bus entries: type correctness, and that at most   *)
(* one context drains the endpoint at a time.                              *)
(*                                                                         *)
(* TypeOK is not inductive alone: HIFSend_head takes the first packet of   *)
(* sendQ, so a context at "hif" must be known to hold one (HifHolds).      *)
(***************************************************************************)
EXTENDS HTCSend, FiniteSetTheorems, SequenceTheorems, TLAPS

(* A context about to call HIFSend_head has a packet to send. *)
HifHolds == \A t \in Contexts : pc[t] = "hif" => sendQ[t] # <<>>

(* The inductive invariants. *)
TypeInv == TypeOK /\ HifHolds
DrainInv == pc \in [Contexts -> Places] /\ SingleDrainer

-----------------------------------------------------------------------------
(* Sequences, credits and queues.                                          *)

LEMMA SubSeqType ==
  ASSUME NEW q \in Seq(Packets), NEW m \in Nat \ {0}, NEW n \in Int, n <= Len(q)
  PROVE  SubSeq(q, m, n) \in Seq(Packets)
<1>1. CASE m <= n
  BY <1>1, SubSeqProperties
<1>2. CASE m > n
  BY <1>2, SubSeqEmpty, EmptySeq
<1> QED
  BY <1>1, <1>2

LEMMA RangeType ==
  ASSUME NEW q \in Seq(Packets)
  PROVE  Range(q) \subseteq Packets
BY DEF Range

LEMMA CreditsUsedNat == \A p \in Packets : CreditsUsed(p) \in Nat
<1> SUFFICES ASSUME NEW p \in Packets PROVE CreditsUsed(p) \in Nat
  OBVIOUS
<1>1. TransferLength[p] \in Nat /\ TxCreditSize \in Nat \ {0}
  BY ConstantsAssumption
<1>2. TransferLength[p] \div TxCreditSize \in Nat
  BY <1>1
<1>3. CreditsRequired(p) \in Nat
  BY <1>2 DEF CreditsRequired
<1> QED
  BY <1>3 DEF CreditsUsed

(* What a set of packets consumes is a number. *)
LEMMA CreditsNat ==
  ASSUME NEW S \in SUBSET Packets
  PROVE  Credits(S) \in Nat
<1>1. IsFiniteSet(S)
  BY ConstantsAssumption, FS_Subset
<1> DEFINE U(p) == {p} \X (1..CreditsUsed(p))
<1>2. \A p \in S : IsFiniteSet(U(p))
  <2> SUFFICES ASSUME NEW p \in S PROVE IsFiniteSet(U(p))
    OBVIOUS
  <2>1. IsFiniteSet({p})
    BY FS_Singleton
  <2>2. IsFiniteSet(1..CreditsUsed(p))
    BY CreditsUsedNat, FS_Interval
  <2> QED
    BY <2>1, <2>2, FS_Product
<1>3. IsFiniteSet({U(p) : p \in S})
  <2> DEFINE f == [p \in S |-> U(p)]
  <2>1. f \in Surjection(S, {U(p) : p \in S})
    BY DEF Surjection
  <2> QED
    BY <1>1, <2>1, FS_Surjection
<1>4. IsFiniteSet(UNION {U(p) : p \in S})
  BY <1>2, <1>3, FS_UNION
<1> QED
  BY <1>4, FS_CardinalityType DEF Credits, CreditUnits

LEMMA RemoveType ==
  ASSUME NEW q \in Seq(Packets), NEW p
  PROVE  HTC_PACKET_REMOVE(q, p) \in Seq(Packets)
<1>1. CASE p \notin Range(q)
  BY <1>1 DEF HTC_PACKET_REMOVE
<1>2. CASE p \in Range(q)
  <2> DEFINE i == CHOOSE j \in DOMAIN q : q[j] = p
  <2>1. i \in 1..Len(q)
    BY <1>2, LenProperties DEF Range
  <2>2. SubSeq(q, 1, i - 1) \in Seq(Packets) /\ SubSeq(q, i + 1, Len(q)) \in Seq(Packets)
    <3> HIDE DEF i
    <3> QED
      BY <2>1, SubSeqType
  <2>3. SubSeq(q, 1, i - 1) \o SubSeq(q, i + 1, Len(q)) \in Seq(Packets)
    BY <2>2, ConcatProperties
  <2> QED
    BY <1>2, <2>3 DEF HTC_PACKET_REMOVE
<1> QED
  BY <1>1, <1>2

LEMMA ReturnPlaces ==
  ASSUME NEW t, NEW left
  PROVE  ReturnPoint(t, left) \in {"cleanup", "clear", "recycle", "idle"}
BY DEF ReturnPoint

-----------------------------------------------------------------------------
(* Type correctness, action by action.                                     *)

LEMMA NetbufOps ==
  /\ Fresh \in Netbufs
  /\ \A b \in Netbufs : /\ PushHeader(b) \in Netbufs
                        /\ Map(b) \in Netbufs
                        /\ RestoreTxPacket(b) \in Netbufs
<1>1. Fresh \in Netbufs
  BY DEF Fresh, Netbufs
<1>2. ASSUME NEW b \in Netbufs PROVE PushHeader(b) \in Netbufs
  BY DEF Netbufs, PushHeader
<1>3. ASSUME NEW b \in Netbufs PROVE Map(b) \in Netbufs
  <2>1. (IF b.maps < MapsCounted THEN b.maps + 1 ELSE b.maps) \in Int
    BY DEF Netbufs, MapsCounted
  <2> DEFINE m == IF b.maps < MapsCounted THEN b.maps + 1 ELSE b.maps
  <2>2. Map(b) = [[b EXCEPT !.maps = m] EXCEPT !.fixup = TRUE]
    BY DEF Map
  <2> HIDE DEF m
  <2> QED
    BY <2>1, <2>2 DEF Netbufs, m
<1>4. ASSUME NEW b \in Netbufs PROVE RestoreTxPacket(b) \in Netbufs
  BY DEF Netbufs, RestoreTxPacket
<1> QED
  BY <1>1, <1>2, <1>3, <1>4

(* The packets a client gets back keep every variable in its type. *)
LEMMA GiveBackType ==
  ASSUME TypeOK, NEW S \in SUBSET Packets,
         NEW st \in {"none", "A_OK", "A_ECANCELED", "A_NO_RESOURCE"}, GiveBack(S, st)
  PROVE  /\ client' \subseteq Packets /\ needUpdate' \subseteq Packets
         /\ status' \in [Packets -> {"none", "A_OK", "A_ECANCELED", "A_NO_RESOURCE"}]
         /\ nbuf' \in [Packets -> Netbufs]
<1>1. nbuf' \in [Packets -> Netbufs]
  BY NetbufOps DEF GiveBack, OnNbufs, TypeOK
<1>2. status' \in [Packets -> {"none", "A_OK", "A_ECANCELED", "A_NO_RESOURCE"}]
  BY DEF GiveBack, TypeOK
<1> QED
  BY <1>1, <1>2 DEF GiveBack, TypeOK

LEMMA SendType ==
  ASSUME TypeInv, NEW t \in Threads, HTCSendPktsMultiple(t)
  PROVE  TypeInv'
<1>1. PICK s \in Batches, o \in {"send", "nodrop"} :
        /\ is_nodrop_pkt' = IF o = "nodrop" THEN TRUE ELSE is_nodrop_pkt
        /\ client' = client \ Range(s)
        /\ onBus' = onBus \ Range(s)
        /\ nbuf' = [p \in Packets |->
                       IF p \notin Range(s) THEN nbuf[p]
                       ELSE IF CreditFlow THEN PushHeader(Fresh) ELSE Map(PushHeader(Fresh))]
        /\ op' = [op EXCEPT ![t] = o]
        /\ callers' = [callers EXCEPT ![t] = s]
        /\ pc' = [pc EXCEPT ![t] = "overflow"]
        /\ status' = [p \in Packets |-> IF p \in Range(s) THEN "none" ELSE status[p]]
        /\ UNCHANGED <<TxQueue, TxLookupQueue, TxCredits, TxProcessCount, sendQ,
                       tx_resources, needUpdate, hifVars>>
  BY DEF HTCSendPktsMultiple
<1>2. s \in Seq(Packets)
  <2>1. PICK n \in 1..MaxBatch : s \in [1..n -> client]
    BY DEF Batches
  <2>2. n \in Nat
    BY ConstantsAssumption
  <2>3. s \in [1..n -> Packets]
    BY <2>1 DEF TypeInv, TypeOK
  <2> QED
    BY <2>2, <2>3, SeqDef
<1>3. nbuf' \in [Packets -> Netbufs]
  BY <1>1, NetbufOps DEF TypeInv, TypeOK
<1>4. t \in Contexts
  BY DEF Contexts
<1>5. /\ callers' \in [Contexts -> Seq(Packets)]
      /\ op' \in [Contexts -> {"send", "nodrop", "complete", "rpt"}]
      /\ pc' \in [Contexts -> Places]
      /\ status' \in [Packets -> {"none", "A_OK", "A_ECANCELED", "A_NO_RESOURCE"}]
  BY <1>1, <1>2, <1>4 DEF TypeInv, TypeOK, Places
<1>6. is_nodrop_pkt' \in BOOLEAN /\ client' \subseteq Packets /\ onBus' \subseteq Packets
  BY <1>1 DEF TypeInv, TypeOK
<1>7. HifHolds'
  BY <1>1, <1>4 DEF TypeInv, TypeOK, HifHolds
<1> QED
  BY <1>1, <1>3, <1>5, <1>6, <1>7 DEF TypeInv, TypeOK, hifVars

LEMMA OverflowType ==
  ASSUME TypeInv, NEW t \in Contexts, CheckOverflow(t)
  PROVE  TypeInv'
<1> DEFINE good  == Len(callers[t]) - Overflow(t)
           over  == SubSeq(callers[t], good + 1, Len(callers[t]))
           taken == IF Overflow(t) > 0 /\ EpSendFull = "DROP"
                    THEN SubSeq(callers[t], 1, good) ELSE callers[t]
<1>1. callers[t] \in Seq(Packets) /\ TxQueue \in Seq(Packets)
  BY DEF TypeInv, TypeOK
<1>2. /\ good \in Nat /\ Overflow(t) \in Int
      /\ Overflow(t) > 0 => good <= Len(callers[t])
  <2>1. Len(callers[t]) \in Nat /\ Len(TxQueue) \in Nat /\ MaxTxQueueDepth \in Nat
    BY <1>1, LenProperties, ConstantsAssumption
  <2>2. CASE Len(TxQueue) >= MaxTxQueueDepth
    <3>1. Overflow(t) = Len(callers[t])
      BY <2>2 DEF Overflow
    <3> QED
      BY <2>1, <3>1
  <2>3. CASE ~(Len(TxQueue) >= MaxTxQueueDepth)
    <3>1. Overflow(t) = Len(TxQueue) + Len(callers[t]) - MaxTxQueueDepth
      BY <2>3 DEF Overflow
    <3> QED
      BY <2>1, <2>3, <3>1
  <2> QED
    BY <2>2, <2>3
<1>3. over \in Seq(Packets)
  <2> HIDE DEF good
  <2> QED
    BY <1>1, <1>2, SubSeqType, LenProperties
<1>4. taken \in Seq(Packets)
  <2> HIDE DEF good
  <2> QED
    BY <1>1, <1>2, SubSeqType, LenProperties
<1>5. sendQ' = [sendQ EXCEPT ![t] = taken]
  BY DEF CheckOverflow
<1>6. callers' = [callers EXCEPT ![t] = IF taken = callers[t] THEN <<>> ELSE over]
  BY DEF CheckOverflow
<1>7. pc' = [pc EXCEPT ![t] = IF taken = <<>> THEN "cleanup" ELSE "resources"]
  BY DEF CheckOverflow
<1>8. UNCHANGED <<epVars, op, tx_resources, needUpdate, client, status, onBus, hifVars>>
  BY DEF CheckOverflow
<1>9. nbuf' \in [Packets -> Netbufs]
  <2>1. CASE Overflow(t) > 0 /\ EpSendFull # "NULL"
    <3>1. nbuf' = [p \in Packets |-> IF p \in Range(over)
                     THEN IF EpSendFull = "KEEP" THEN PushHeader(RestoreTxPacket(nbuf[p]))
                                                 ELSE RestoreTxPacket(nbuf[p])
                     ELSE nbuf[p]]
      BY <2>1 DEF CheckOverflow, OnNbufs
    <3> QED
      BY <3>1, NetbufOps DEF TypeInv, TypeOK
  <2>2. CASE ~(Overflow(t) > 0 /\ EpSendFull # "NULL")
    BY <2>2 DEF CheckOverflow, TypeInv, TypeOK
  <2> QED
    BY <2>1, <2>2
<1> HIDE DEF good, over, taken
<1>10. /\ sendQ' \in [Contexts -> Seq(Packets)]
       /\ callers' \in [Contexts -> Seq(Packets)]
  BY <1>3, <1>4, <1>5, <1>6, EmptySeq DEF TypeInv, TypeOK
<1>11. pc' \in [Contexts -> Places]
  BY <1>7 DEF TypeInv, TypeOK, Places
<1>12. HifHolds'
  BY <1>5, <1>7 DEF TypeInv, TypeOK, HifHolds
<1> QED
  BY <1>8, <1>9, <1>10, <1>11, <1>12 DEF TypeInv, TypeOK, epVars, hifVars

(* One pass of the drain loop on a queue of packets. *)
LEMMA DrainType ==
  ASSUME TypeInv, NEW t \in Contexts, NEW q \in Seq(Packets), DrainPass(t, q)
  PROVE  /\ TxQueue' \in Seq(Packets) /\ sendQ' \in [Contexts -> Seq(Packets)]
         /\ TxCredits' \in Int /\ needUpdate' \subseteq Packets
         /\ TxProcessCount' \in {0, 1} /\ pc' \in [Contexts -> Places]
         /\ HifHolds'
<1>1. PICK n \in 0..Len(q) :
        /\ TxQueue' = SubSeq(q, n + 1, Len(q))
        /\ sendQ' = [sendQ EXCEPT ![t] = SubSeq(q, 1, n)]
        /\ TxCredits' = TxCredits - Credits(First(q, n))
        /\ needUpdate' = (needUpdate \ First(q, n)) \cup LowCredit(q, n)
        /\ TxProcessCount' = IF n = 0 THEN 0 ELSE 1
        /\ pc' = [pc EXCEPT ![t] = IF n = 0 THEN ReturnPoint(t, callers[t]) ELSE "issue"]
  BY DEF DrainPass
<1>2. Len(q) \in Nat /\ n \in Nat /\ n <= Len(q)
  BY LenProperties
<1>3. SubSeq(q, n + 1, Len(q)) \in Seq(Packets) /\ SubSeq(q, 1, n) \in Seq(Packets)
  BY <1>2, SubSeqType
<1>4. First(q, n) \subseteq Packets
  BY <1>3, RangeType DEF First
<1>5. LowCredit(q, n) \subseteq Packets
  BY <1>2, ElementOfSeq DEF LowCredit
<1>6. TxCredits' \in Int
  BY <1>1, <1>4, CreditsNat DEF TypeInv, TypeOK
<1>7. pc' \in [Contexts -> Places]
  BY <1>1, ReturnPlaces DEF TypeInv, TypeOK, Places
<1>8. HifHolds'
  BY <1>1, ReturnPlaces DEF TypeInv, TypeOK, HifHolds
<1> QED
  BY <1>1, <1>3, <1>5, <1>6, <1>7, <1>8 DEF TypeInv, TypeOK

LEMMA EnterType ==
  ASSUME TypeInv, NEW t \in Contexts, EnterTrySend(t)
  PROVE  TypeInv'
<1>1. Enqueued(t) \in Seq(Packets)
  BY ConcatProperties DEF Enqueued, TypeInv, TypeOK
<1>2. /\ is_nodrop_pkt' \in BOOLEAN
      /\ UNCHANGED <<TxLookupQueue, op, callers, tx_resources, nbuf, client, status, onBus,
                     hifVars>>
  BY DEF EnterTrySend, TypeInv, TypeOK
<1>3. CASE TxProcessCount > 0
  <2>1. /\ TxQueue' = Enqueued(t)
        /\ sendQ' = [sendQ EXCEPT ![t] = <<>>]
        /\ pc' = [pc EXCEPT ![t] = ReturnPoint(t, callers[t])]
        /\ UNCHANGED <<TxCredits, TxProcessCount, needUpdate>>
    BY <1>3 DEF EnterTrySend
  <2>2. sendQ' \in [Contexts -> Seq(Packets)]
    BY <2>1, EmptySeq DEF TypeInv, TypeOK
  <2>3. pc' \in [Contexts -> Places]
    BY <2>1, ReturnPlaces DEF TypeInv, TypeOK, Places
  <2>4. HifHolds'
    BY <2>1, ReturnPlaces DEF TypeInv, TypeOK, HifHolds
  <2> QED
    BY <1>1, <1>2, <2>1, <2>2, <2>3, <2>4 DEF TypeInv, TypeOK, hifVars
<1>4. CASE ~(TxProcessCount > 0)
  <2>1. DrainPass(t, Enqueued(t))
    BY <1>4 DEF EnterTrySend
  <2> QED
    BY <1>1, <1>2, <2>1, DrainType DEF TypeInv, TypeOK, hifVars
<1> QED
  BY <1>3, <1>4

LEMMA DrainAgainType ==
  ASSUME TypeInv, NEW t \in Contexts, DrainAgain(t)
  PROVE  TypeInv'
<1>1. TxQueue \in Seq(Packets)
  BY DEF TypeInv, TypeOK
<1>2. /\ DrainPass(t, TxQueue)
      /\ UNCHANGED <<TxLookupQueue, is_nodrop_pkt, op, callers, tx_resources, nbuf, client,
                     status, onBus, hifVars>>
  BY DEF DrainAgain
<1> QED
  BY <1>1, <1>2, DrainType DEF TypeInv, TypeOK, hifVars

LEMMA IssueType ==
  ASSUME TypeInv, NEW t \in Contexts, IssuePacket(t)
  PROVE  TypeInv'
<1>1. sendQ[t] \in Seq(Packets) /\ sendQ[t] # <<>> /\ TxLookupQueue \in Seq(Packets)
  BY DEF IssuePacket, TypeInv, TypeOK
<1>2. Head(sendQ[t]) \in Packets
  BY <1>1, HeadTailProperties
<1>3. TxLookupQueue' \in Seq(Packets)
  BY <1>1, <1>2, AppendProperties DEF IssuePacket
<1>4. nbuf' \in [Packets -> Netbufs]
  <2>1. CASE CreditFlow
    <3>1. nbuf' = [p \in Packets |-> IF p \in {Head(sendQ[t])} THEN Map(nbuf[p]) ELSE nbuf[p]]
      BY <2>1 DEF IssuePacket, OnNbufs
    <3> QED
      BY <3>1, NetbufOps DEF TypeInv, TypeOK
  <2>2. CASE ~CreditFlow
    BY <2>2 DEF IssuePacket, TypeInv, TypeOK
  <2> QED
    BY <2>1, <2>2
<1>5. /\ pc' = [pc EXCEPT ![t] = "hif"]
      /\ UNCHANGED <<TxQueue, TxCredits, TxProcessCount, is_nodrop_pkt, op, callers,
                     sendQ, tx_resources, needUpdate, client, status, onBus, hifVars>>
  BY DEF IssuePacket
<1>6. pc' \in [Contexts -> Places]
  BY <1>5 DEF TypeInv, TypeOK, Places
<1>7. HifHolds'
  BY <1>1, <1>5 DEF TypeInv, TypeOK, HifHolds
<1> QED
  BY <1>3, <1>4, <1>5, <1>6, <1>7 DEF TypeInv, TypeOK, hifVars

LEMMA HifSendType ==
  ASSUME TypeInv, NEW t \in Contexts, HIFSend_head(t)
  PROVE  TypeInv'
<1> DEFINE p == Head(sendQ[t])
<1>1. sendQ[t] \in Seq(Packets) /\ sendQ[t] # <<>>
  BY DEF HIFSend_head, TypeInv, TypeOK, HifHolds
<1>2. p \in Packets /\ Tail(sendQ[t]) \in Seq(Packets)
  BY <1>1, HeadTailProperties
<1>3. CreditsUsed(p) \in Nat
  BY <1>2, CreditsUsedNat
<1>4. /\ num_sends_allowed > 0 /\ num_sends_allowed' = num_sends_allowed - 1
      /\ ring' = Append(ring, p)
      /\ onBus' = onBus \cup {p}
      /\ heldAsked' = heldAsked + (IF p \in needUpdate THEN CreditsUsed(p) ELSE 0)
      /\ heldQuiet' = heldQuiet + (IF p \in needUpdate THEN 0 ELSE CreditsUsed(p))
      /\ sendQ' = [sendQ EXCEPT ![t] = Tail(sendQ[t])]
      /\ pc' = [pc EXCEPT ![t] = "issue"]
      /\ UNCHANGED <<epVars, op, callers, tx_resources, needUpdate, nbuf, client, status>>
  BY DEF HIFSend_head, TypeInv, TypeOK
<1> HIDE DEF p
<1>5. num_sends_allowed' \in Nat /\ heldAsked' \in Nat /\ heldQuiet' \in Nat
  BY <1>3, <1>4 DEF TypeInv, TypeOK
<1>6. ring' \in Seq(Packets) /\ onBus' \subseteq Packets
  BY <1>2, <1>4, AppendProperties DEF TypeInv, TypeOK
<1>7. sendQ' \in [Contexts -> Seq(Packets)] /\ pc' \in [Contexts -> Places]
  BY <1>2, <1>4 DEF TypeInv, TypeOK, Places
<1>8. HifHolds'
  BY <1>4 DEF TypeInv, TypeOK, HifHolds
<1> QED
  BY <1>4, <1>5, <1>6, <1>7, <1>8 DEF TypeInv, TypeOK, epVars

LEMMA IssueFailedType ==
  ASSUME TypeInv, NEW t \in Contexts, IssueFailed(t)
  PROVE  TypeInv'
<1>1. Credits(Range(sendQ[t])) \in Nat
  BY RangeType, CreditsNat DEF TypeInv, TypeOK
<1>2. TxLookupQueue' \in Seq(Packets)
  BY RemoveType DEF IssueFailed, TypeInv, TypeOK
<1>3. /\ TxCredits' = TxCredits + Credits(Range(sendQ[t]))
      /\ pc' = [pc EXCEPT ![t] = "requeue"]
      /\ UNCHANGED <<TxQueue, TxProcessCount, is_nodrop_pkt, op, callers, sendQ,
                     tx_resources, pktVars, hifVars>>
  BY DEF IssueFailed
<1>4. pc' \in [Contexts -> Places] /\ TxCredits' \in Int
  BY <1>1, <1>3 DEF TypeInv, TypeOK, Places
<1>5. HifHolds'
  BY <1>3 DEF TypeInv, TypeOK, HifHolds
<1> QED
  BY <1>2, <1>3, <1>4, <1>5 DEF TypeInv, TypeOK, pktVars, hifVars

LEMMA RequeueType ==
  ASSUME TypeInv, NEW t \in Contexts, Requeue(t)
  PROVE  TypeInv'
<1>1. /\ TxQueue' = sendQ[t] \o TxQueue
      /\ sendQ' = [sendQ EXCEPT ![t] = <<>>]
      /\ TxProcessCount' = 0
      /\ pc' = [pc EXCEPT ![t] = ReturnPoint(t, callers[t])]
      /\ UNCHANGED <<TxLookupQueue, TxCredits, is_nodrop_pkt, op, callers, tx_resources,
                     pktVars, hifVars>>
  BY DEF Requeue
<1>2. TxQueue' \in Seq(Packets) /\ sendQ' \in [Contexts -> Seq(Packets)]
  BY <1>1, ConcatProperties, EmptySeq DEF TypeInv, TypeOK
<1>3. pc' \in [Contexts -> Places]
  BY <1>1, ReturnPlaces DEF TypeInv, TypeOK, Places
<1>4. HifHolds'
  BY <1>1, ReturnPlaces DEF TypeInv, TypeOK, HifHolds
<1> QED
  BY <1>1, <1>2, <1>3, <1>4 DEF TypeInv, TypeOK, pktVars, hifVars

(* Both unlocked reads of HIFGetFreeQueueNumber. *)
LEMMA ResourcesType ==
  ASSUME TypeInv, NEW t \in Contexts, ReadResources(t) \/ RefreshResources(t)
  PROVE  TypeInv'
<1>1. PICK w \in {"enter", "drain"} : pc' = [pc EXCEPT ![t] = w]
  BY DEF ReadResources, RefreshResources
<1>2. /\ tx_resources' = [tx_resources EXCEPT ![t] = IF CreditFlow THEN 0 ELSE num_sends_allowed]
      /\ UNCHANGED <<epVars, op, callers, sendQ, pktVars, hifVars>>
  BY DEF ReadResources, RefreshResources
<1>3. pc' \in [Contexts -> Places] /\ tx_resources' \in [Contexts -> Nat]
  BY <1>1, <1>2 DEF TypeInv, TypeOK, Places
<1>4. HifHolds'
  BY <1>1, <1>2 DEF TypeInv, TypeOK, HifHolds
<1> QED
  BY <1>2, <1>3, <1>4 DEF TypeInv, TypeOK, epVars, pktVars, hifVars

LEMMA LeftoversType ==
  ASSUME TypeInv, NEW t \in Contexts, CompleteLeftovers(t)
  PROVE  TypeInv'
<1>1. Range(callers[t]) \subseteq Packets
  BY RangeType DEF TypeInv, TypeOK
<1>2. /\ GiveBack(Range(callers[t]), "A_NO_RESOURCE")
      /\ callers' = [callers EXCEPT ![t] = <<>>]
      /\ pc' = [pc EXCEPT ![t] = ReturnPoint(t, <<>>)]
      /\ UNCHANGED <<epVars, op, sendQ, tx_resources, onBus, hifVars>>
  BY DEF CompleteLeftovers
<1>3. /\ client' \subseteq Packets /\ needUpdate' \subseteq Packets
      /\ status' \in [Packets -> {"none", "A_OK", "A_ECANCELED", "A_NO_RESOURCE"}]
      /\ nbuf' \in [Packets -> Netbufs]
  BY <1>1, <1>2, GiveBackType DEF TypeInv
<1>4. pc' \in [Contexts -> Places] /\ callers' \in [Contexts -> Seq(Packets)]
  BY <1>2, ReturnPlaces, EmptySeq DEF TypeInv, TypeOK, Places
<1>5. HifHolds'
  BY <1>2, ReturnPlaces DEF TypeInv, TypeOK, HifHolds
<1> QED
  BY <1>2, <1>3, <1>4, <1>5 DEF TypeInv, TypeOK, epVars, hifVars

LEMMA NodropType ==
  ASSUME TypeInv, NEW t \in Contexts, HTCSetNodropPkt(t)
  PROVE  TypeInv'
<1>1. /\ is_nodrop_pkt' = FALSE /\ pc' = [pc EXCEPT ![t] = "idle"]
      /\ UNCHANGED <<TxQueue, TxLookupQueue, TxCredits, TxProcessCount, op, callers,
                     sendQ, tx_resources, pktVars, hifVars>>
  BY DEF HTCSetNodropPkt
<1>2. pc' \in [Contexts -> Places] /\ is_nodrop_pkt' \in BOOLEAN
  BY <1>1 DEF TypeInv, TypeOK, Places
<1>3. HifHolds'
  BY <1>1 DEF TypeInv, TypeOK, HifHolds
<1> QED
  BY <1>1, <1>2, <1>3 DEF TypeInv, TypeOK, pktVars, hifVars

LEMMA FlushType ==
  ASSUME TypeInv, NEW t \in Threads, HTCFlushEndpointTX(t)
  PROVE  TypeInv'
<1>1. Range(TxQueue) \subseteq Packets
  BY RangeType DEF TypeInv, TypeOK
<1>2. /\ GiveBack(Range(TxQueue), "A_ECANCELED")
      /\ TxQueue' = <<>>
      /\ UNCHANGED <<TxLookupQueue, TxCredits, TxProcessCount, is_nodrop_pkt, ctxVars,
                     onBus, hifVars>>
  BY DEF HTCFlushEndpointTX
<1>3. /\ client' \subseteq Packets /\ needUpdate' \subseteq Packets
      /\ status' \in [Packets -> {"none", "A_OK", "A_ECANCELED", "A_NO_RESOURCE"}]
      /\ nbuf' \in [Packets -> Netbufs]
  BY <1>1, <1>2, GiveBackType DEF TypeInv
<1>4. TxQueue' \in Seq(Packets)
  BY <1>2, EmptySeq
<1>5. HifHolds'
  BY <1>2 DEF TypeInv, HifHolds, ctxVars
<1> QED
  BY <1>2, <1>3, <1>4, <1>5 DEF TypeInv, TypeOK, ctxVars, hifVars

LEMMA CompletionType ==
  ASSUME TypeInv, HTCTxCompletionHandler
  PROVE  TypeInv'
<1>1. Tasklet \in Contexts
  BY DEF Contexts
<1>2. /\ ring # <<>> /\ ring' = Tail(ring)
      /\ TxLookupQueue' = HTC_PACKET_REMOVE(TxLookupQueue, Head(ring))
      /\ GiveBack(Found(Head(ring)), "A_OK")
      /\ op' = [op EXCEPT ![Tasklet] = "complete"]
      /\ UNCHANGED <<TxQueue, TxCredits, TxProcessCount, is_nodrop_pkt, callers, sendQ,
                     tx_resources, onBus, num_sends_allowed, heldAsked, heldQuiet>>
  BY DEF HTCTxCompletionHandler
<1>3. PICK w \in {"recycle", "resources"} : pc' = [pc EXCEPT ![Tasklet] = w]
  BY DEF HTCTxCompletionHandler
<1>4. Found(Head(ring)) \subseteq Packets
  BY RangeType DEF Found, TypeInv, TypeOK
<1>5. /\ client' \subseteq Packets /\ needUpdate' \subseteq Packets
      /\ status' \in [Packets -> {"none", "A_OK", "A_ECANCELED", "A_NO_RESOURCE"}]
      /\ nbuf' \in [Packets -> Netbufs]
  BY <1>2, <1>4, GiveBackType DEF TypeInv
<1>6. ring' \in Seq(Packets) /\ TxLookupQueue' \in Seq(Packets)
  BY <1>2, HeadTailProperties, RemoveType DEF TypeInv, TypeOK
<1>7. /\ pc' \in [Contexts -> Places]
      /\ op' \in [Contexts -> {"send", "nodrop", "complete", "rpt"}]
  BY <1>1, <1>2, <1>3 DEF TypeInv, TypeOK, Places
<1>8. HifHolds'
  BY <1>1, <1>2, <1>3 DEF TypeInv, TypeOK, HifHolds
<1> QED
  BY <1>2, <1>5, <1>6, <1>7, <1>8 DEF TypeInv, TypeOK

LEMMA RecycleType ==
  ASSUME TypeInv, RecycleEntry
  PROVE  TypeInv'
<1>1. Tasklet \in Contexts
  BY DEF Contexts
<1>2. /\ num_sends_allowed' = num_sends_allowed + 1
      /\ pc' = [pc EXCEPT ![Tasklet] = "idle"]
      /\ UNCHANGED <<epVars, op, callers, sendQ, tx_resources, pktVars, ring, heldAsked,
                     heldQuiet>>
  BY DEF RecycleEntry
<1>3. pc' \in [Contexts -> Places] /\ num_sends_allowed' \in Nat
  BY <1>1, <1>2 DEF TypeInv, TypeOK, Places
<1>4. HifHolds'
  BY <1>1, <1>2 DEF TypeInv, TypeOK, HifHolds
<1> QED
  BY <1>2, <1>3, <1>4 DEF TypeInv, TypeOK, epVars, pktVars

LEMMA ReapType ==
  ASSUME TypeInv, CE_per_engine_servicereap
  PROVE  TypeInv'
<1>1. /\ ring # <<>> /\ ring' = Tail(ring)
      /\ num_sends_allowed' = num_sends_allowed + 1
      /\ client' = client \cup {Head(ring)}
      /\ nbuf' = [nbuf EXCEPT ![Head(ring)] = Fresh]
      /\ status' = [status EXCEPT ![Head(ring)] = "none"]
      /\ needUpdate' = needUpdate \ {Head(ring)}
      /\ UNCHANGED <<epVars, ctxVars, onBus, heldAsked, heldQuiet>>
  BY DEF CE_per_engine_servicereap
<1>2. Head(ring) \in Packets /\ ring' \in Seq(Packets)
  BY <1>1, HeadTailProperties DEF TypeInv, TypeOK
<1>3. /\ nbuf' \in [Packets -> Netbufs]
      /\ status' \in [Packets -> {"none", "A_OK", "A_ECANCELED", "A_NO_RESOURCE"}]
  BY <1>1, NetbufOps DEF TypeInv, TypeOK
<1>4. num_sends_allowed' \in Nat /\ client' \subseteq Packets /\ needUpdate' \subseteq Packets
  BY <1>1, <1>2 DEF TypeInv, TypeOK
<1>5. HifHolds'
  BY <1>1 DEF TypeInv, HifHolds, ctxVars
<1> QED
  BY <1>1, <1>2, <1>3, <1>4, <1>5 DEF TypeInv, TypeOK, epVars, ctxVars

LEMMA CreditRptType ==
  ASSUME TypeInv, NEW asked \in 0..TxAlloc, NEW quiet \in 0..TxAlloc,
         HTCProcessCreditRpt(asked, quiet)
  PROVE  TypeInv'
<1>1. Tasklet \in Contexts /\ TxAlloc \in Nat
  BY ConstantsAssumption DEF Contexts
<1>2. /\ asked <= heldAsked /\ heldAsked' = heldAsked - asked
      /\ quiet <= heldQuiet /\ heldQuiet' = heldQuiet - quiet
      /\ TxCredits' = TxCredits + asked + quiet
      /\ op' = [op EXCEPT ![Tasklet] = "rpt"]
      /\ UNCHANGED <<TxQueue, TxLookupQueue, TxProcessCount, is_nodrop_pkt, callers, sendQ,
                     tx_resources, pktVars, num_sends_allowed, ring>>
  BY DEF HTCProcessCreditRpt
<1>3. PICK w \in {"resources", "idle"} : pc' = [pc EXCEPT ![Tasklet] = w]
  BY DEF HTCProcessCreditRpt
<1>4. heldAsked' \in Nat /\ heldQuiet' \in Nat /\ TxCredits' \in Int
  BY <1>1, <1>2 DEF TypeInv, TypeOK
<1>5. /\ pc' \in [Contexts -> Places]
      /\ op' \in [Contexts -> {"send", "nodrop", "complete", "rpt"}]
  BY <1>1, <1>2, <1>3 DEF TypeInv, TypeOK, Places
<1>6. HifHolds'
  BY <1>1, <1>2, <1>3 DEF TypeInv, TypeOK, HifHolds
<1> QED
  BY <1>2, <1>4, <1>5, <1>6 DEF TypeInv, TypeOK, pktVars

LEMMA InitType == Init => TypeInv
<1> SUFFICES ASSUME Init PROVE TypeInv
  OBVIOUS
<1>1. <<>> \in Seq(Packets)
  BY EmptySeq
<1>2. /\ TxCredits \in Int /\ num_sends_allowed \in Nat
      /\ nbuf \in [Packets -> Netbufs]
  BY ConstantsAssumption, NetbufOps DEF Init
<1>3. pc \in [Contexts -> Places] /\ HifHolds
  BY DEF Init, Places, HifHolds
<1> QED
  BY <1>1, <1>2, <1>3 DEF Init, TypeInv, TypeOK

LEMMA NextType == TypeInv /\ [Next]_vars => TypeInv'
<1> SUFFICES ASSUME TypeInv, [Next]_vars PROVE TypeInv'
  OBVIOUS
<1>1. ASSUME NEW t \in Threads, HTCSendPktsMultiple(t) \/ HTCFlushEndpointTX(t)
      PROVE  TypeInv'
  BY <1>1, SendType, FlushType
<1>2. ASSUME NEW t \in Contexts, TrySendStep(t) PROVE TypeInv'
  BY <1>2, OverflowType, ResourcesType, EnterType, IssueType, HifSendType, IssueFailedType,
     RequeueType, DrainAgainType, LeftoversType, NodropType DEF TrySendStep
<1>3. CASE HTCTxCompletionHandler \/ RecycleEntry \/ CE_per_engine_servicereap
  BY <1>3, CompletionType, RecycleType, ReapType
<1>4. ASSUME NEW asked \in 0..TxAlloc, NEW quiet \in 0..TxAlloc,
             HTCProcessCreditRpt(asked, quiet)
      PROVE  TypeInv'
  BY <1>4, CreditRptType
<1>5. CASE UNCHANGED vars
  BY <1>5 DEF vars, epVars, ctxVars, pktVars, hifVars, TypeInv, TypeOK, HifHolds
<1> QED
  BY <1>1, <1>2, <1>3, <1>4, <1>5 DEF Next

(* Every variable of the transmit path keeps its type; in particular       *)
(* HIFSend_head is never called without a packet and the counts of bus     *)
(* entries and of credits at the target never become negative.             *)
THEOREM TypeCorrect == Spec => []TypeOK
<1>1. TypeInv => TypeOK
  BY DEF TypeInv
<1> QED
  BY <1>1, InitType, NextType, PTL DEF Spec

-----------------------------------------------------------------------------
(* One drainer per endpoint.                                               *)

(* A step of context t that neither enters nor leaves the drain loop. *)
LEMMA SameDrainers ==
  ASSUME DrainInv, NEW t \in Contexts, NEW w, pc' = [pc EXCEPT ![t] = w],
         TxProcessCount' = TxProcessCount,
         \/ /\ pc[t] \in {"idle", "overflow", "resources", "enter", "cleanup", "clear", "recycle"}
            /\ w \in {"idle", "overflow", "resources", "enter", "cleanup", "clear", "recycle"}
         \/ /\ pc[t] \in {"issue", "hif", "requeue", "drain"}
            /\ w \in {"issue", "hif", "requeue", "drain"}
  PROVE  DrainInv'
<1>1. pc' \in [Contexts -> Places]
  BY DEF DrainInv, Places
<1>2. Drainers' = Drainers
  BY DEF DrainInv, Drainers
<1> QED
  BY <1>1, <1>2 DEF DrainInv, SingleDrainer

(* A context enters the loop only when it finds TxProcessCount at 0, and   *)
(* clears it when it leaves.                                               *)
LEMMA PassDrainers ==
  ASSUME DrainInv, NEW t \in Contexts, NEW q, Drainers \subseteq {t}, DrainPass(t, q)
  PROVE  DrainInv'
<1>1. PICK n \in 0..Len(q) :
        /\ TxProcessCount' = IF n = 0 THEN 0 ELSE 1
        /\ pc' = [pc EXCEPT ![t] = IF n = 0 THEN ReturnPoint(t, callers[t]) ELSE "issue"]
  BY DEF DrainPass
<1>2. pc' \in [Contexts -> Places]
  BY <1>1, ReturnPlaces DEF DrainInv, Places
<1>3. CASE n = 0
  <2>1. Drainers' = {}
    BY <1>1, <1>3, ReturnPlaces DEF DrainInv, Drainers
  <2> QED
    BY <1>1, <1>2, <1>3, <2>1 DEF DrainInv, SingleDrainer
<1>4. CASE n # 0
  <2>1. Drainers' = {t}
    BY <1>1, <1>4 DEF DrainInv, Drainers
  <2> QED
    BY <1>1, <1>2, <1>4, <2>1 DEF DrainInv, SingleDrainer
<1> QED
  BY <1>3, <1>4

(* A drainer is the only one. *)
LEMMA OnlyDrainer ==
  ASSUME DrainInv, NEW t \in Contexts, pc[t] \in {"issue", "hif", "requeue", "drain"}
  PROVE  Drainers = {t}
BY DEF DrainInv, SingleDrainer, Drainers

LEMMA InitDrain == Init => DrainInv
<1> SUFFICES ASSUME Init PROVE DrainInv
  OBVIOUS
<1>1. Drainers = {} /\ pc \in [Contexts -> Places]
  BY DEF Init, Drainers, Places
<1> QED
  BY <1>1 DEF Init, DrainInv, SingleDrainer

LEMMA StepDrain ==
  ASSUME DrainInv, NEW t \in Contexts, TrySendStep(t)
  PROVE  DrainInv'
<1>1. CASE CheckOverflow(t)
  <2>1. PICK w \in {"cleanup", "resources"} : pc' = [pc EXCEPT ![t] = w]
    BY <1>1 DEF CheckOverflow
  <2>2. pc[t] = "overflow" /\ TxProcessCount' = TxProcessCount
    BY <1>1 DEF CheckOverflow, epVars
  <2> QED
    BY <2>1, <2>2, SameDrainers
<1>2. CASE ReadResources(t)
  BY <1>2, SameDrainers DEF ReadResources, epVars
<1>3. CASE EnterTrySend(t) /\ TxProcessCount > 0
  <2>1. /\ pc[t] = "enter" /\ TxProcessCount' = TxProcessCount
        /\ pc' = [pc EXCEPT ![t] = ReturnPoint(t, callers[t])]
    BY <1>3 DEF EnterTrySend
  <2> QED
    BY <2>1, ReturnPlaces, SameDrainers
<1>4. CASE EnterTrySend(t) /\ ~(TxProcessCount > 0)
  <2>1. Drainers = {}
    BY <1>4 DEF DrainInv, SingleDrainer
  <2>2. DrainPass(t, Enqueued(t))
    BY <1>4 DEF EnterTrySend
  <2> QED
    BY <2>1, <2>2, PassDrainers
<1>5. CASE IssuePacket(t)
  BY <1>5, SameDrainers DEF IssuePacket
<1>6. CASE HIFSend_head(t)
  BY <1>6, SameDrainers DEF HIFSend_head, epVars
<1>7. CASE IssueFailed(t)
  BY <1>7, SameDrainers DEF IssueFailed
<1>8. CASE Requeue(t)
  <2>1. /\ pc[t] = "requeue" /\ TxProcessCount' = 0
        /\ pc' = [pc EXCEPT ![t] = ReturnPoint(t, callers[t])]
    BY <1>8 DEF Requeue
  <2>2. Drainers = {t}
    BY <2>1, OnlyDrainer
  <2>3. Drainers' = {} /\ pc' \in [Contexts -> Places]
    BY <2>1, <2>2, ReturnPlaces DEF DrainInv, Drainers, Places
  <2> QED
    BY <2>1, <2>3 DEF DrainInv, SingleDrainer
<1>9. CASE RefreshResources(t)
  BY <1>9, SameDrainers DEF RefreshResources, epVars
<1>10. CASE DrainAgain(t)
  <2>1. pc[t] = "drain" /\ DrainPass(t, TxQueue)
    BY <1>10 DEF DrainAgain
  <2>2. Drainers = {t}
    BY <2>1, OnlyDrainer
  <2> QED
    BY <2>1, <2>2, PassDrainers
<1>11. CASE CompleteLeftovers(t)
  <2>1. /\ pc[t] = "cleanup" /\ TxProcessCount' = TxProcessCount
        /\ pc' = [pc EXCEPT ![t] = ReturnPoint(t, <<>>)]
    BY <1>11 DEF CompleteLeftovers, epVars
  <2> QED
    BY <2>1, ReturnPlaces, SameDrainers
<1>12. CASE HTCSetNodropPkt(t)
  BY <1>12, SameDrainers DEF HTCSetNodropPkt
<1> QED
  BY <1>1, <1>2, <1>3, <1>4, <1>5, <1>6, <1>7, <1>8, <1>9, <1>10, <1>11, <1>12
  DEF TrySendStep

LEMMA NextDrain == DrainInv /\ [Next]_vars => DrainInv'
<1> SUFFICES ASSUME DrainInv, [Next]_vars PROVE DrainInv'
  OBVIOUS
<1>1. ASSUME NEW t \in Threads, HTCSendPktsMultiple(t) PROVE DrainInv'
  <2>1. t \in Contexts
    BY DEF Contexts
  <2> QED
    BY <1>1, <2>1, SameDrainers DEF HTCSendPktsMultiple
<1>2. ASSUME NEW t \in Threads, HTCFlushEndpointTX(t) PROVE DrainInv'
  BY <1>2 DEF HTCFlushEndpointTX, ctxVars, DrainInv, SingleDrainer, Drainers
<1>3. ASSUME NEW t \in Contexts, TrySendStep(t) PROVE DrainInv'
  BY <1>3, StepDrain
<1>4. Tasklet \in Contexts
  BY DEF Contexts
<1>5. CASE HTCTxCompletionHandler
  <2>1. PICK w \in {"recycle", "resources"} : pc' = [pc EXCEPT ![Tasklet] = w]
    BY <1>5 DEF HTCTxCompletionHandler
  <2>2. pc[Tasklet] = "idle" /\ TxProcessCount' = TxProcessCount
    BY <1>5 DEF HTCTxCompletionHandler
  <2> QED
    BY <1>4, <2>1, <2>2, SameDrainers
<1>6. CASE RecycleEntry
  BY <1>4, <1>6, SameDrainers DEF RecycleEntry, epVars
<1>7. CASE CE_per_engine_servicereap
  BY <1>7 DEF CE_per_engine_servicereap, epVars, ctxVars, DrainInv, SingleDrainer, Drainers
<1>8. ASSUME NEW asked \in 0..TxAlloc, NEW quiet \in 0..TxAlloc,
             HTCProcessCreditRpt(asked, quiet)
      PROVE  DrainInv'
  <2>1. PICK w \in {"resources", "idle"} : pc' = [pc EXCEPT ![Tasklet] = w]
    BY <1>8 DEF HTCProcessCreditRpt
  <2>2. pc[Tasklet] = "idle" /\ TxProcessCount' = TxProcessCount
    BY <1>8 DEF HTCProcessCreditRpt
  <2> QED
    BY <1>4, <2>1, <2>2, SameDrainers
<1>9. CASE UNCHANGED vars
  BY <1>9 DEF vars, epVars, ctxVars, DrainInv, SingleDrainer, Drainers
<1> QED
  BY <1>1, <1>2, <1>3, <1>5, <1>6, <1>7, <1>8, <1>9 DEF Next

(* HTCTrySend, "beyond this point only 1 thread may enter": for any number *)
(* of contexts, TxProcessCount is 1 exactly while one context is in the    *)
(* drain loop, so HTCIssuePackets never runs twice at once for an endpoint *)
(* although it runs without the lock.                                      *)
THEOREM OneDrainer == Spec => []SingleDrainer
<1>1. DrainInv => SingleDrainer
  BY DEF DrainInv
<1> QED
  BY <1>1, InitDrain, NextDrain, PTL DEF Spec

=============================================================================
