------------------------ MODULE HTCSendCreditProofs -------------------------
(***************************************************************************)
(* The credits of an HTC endpoint, proved for any number of packets,       *)
(* contexts, credits and bus entries.                                      *)
(*                                                                         *)
(* CreditsConserved is inductive on top of PlaceInv: the packets in the    *)
(* drainer's hand are distinct and in no other queue, so what they were    *)
(* charged is the sum of what each was charged.                            *)
(*                                                                         *)
(* CreditWakeup needs three more facts.  PipeInv: HIFSend_head does not    *)
(* fail, so packets wait for credits alone.  NoticedInv: packets that      *)
(* nobody drains were found too large for the credits left, or a context   *)
(* is on its way to look again.  QuietInv: credits spent without asking    *)
(* for their return leave more than a maximum message needs; so when the   *)
(* first packet is short of credits, some that were asked for are missing. *)
(***************************************************************************)
EXTENDS HTCSendPacketProofs

(* The packets whose credits were taken and that the bus does not have. *)
Charged == IF \E t \in Drainers : pc[t] = "requeue" THEN {} ELSE Range(InHand)

-----------------------------------------------------------------------------
(* What a set of packets consumes is the sum of what each consumes.        *)

(* The credits of one packet. *)
Units(p) == {p} \X (1..CreditsUsed(p))

LEMMA UnitsFacts ==
  ASSUME NEW p \in Packets
  PROVE  IsFiniteSet(Units(p)) /\ Cardinality(Units(p)) = CreditsUsed(p)
<1>1. CreditsUsed(p) \in Nat
  BY CreditsUsedNat
<1>2. IsFiniteSet({p}) /\ Cardinality({p}) = 1
  BY FS_Singleton
<1>3. IsFiniteSet(1..CreditsUsed(p)) /\ Cardinality(1..CreditsUsed(p)) = CreditsUsed(p)
  BY <1>1, FS_Interval
<1>4. IsFiniteSet(Units(p)) /\ Cardinality(Units(p)) = Cardinality({p}) * Cardinality(1..CreditsUsed(p))
  BY <1>2, <1>3, FS_Product DEF Units
<1> QED
  BY <1>1, <1>2, <1>3, <1>4

LEMMA CreditUnitsAre ==
  ASSUME NEW S
  PROVE  CreditUnits(S) = UNION {Units(p) : p \in S}
BY DEF CreditUnits, Units

LEMMA CreditUnitsFinite ==
  ASSUME NEW S \in SUBSET Packets
  PROVE  IsFiniteSet(CreditUnits(S))
<1>1. IsFiniteSet(S)
  BY ConstantsAssumption, FS_Subset
<1>2. \A T \in {Units(p) : p \in S} : IsFiniteSet(T)
  BY UnitsFacts
<1>3. IsFiniteSet({Units(p) : p \in S})
  <2> DEFINE f == [p \in S |-> Units(p)]
  <2>1. f \in Surjection(S, {Units(p) : p \in S})
    BY DEF Surjection
  <2> QED
    BY <1>1, <2>1, FS_Surjection
<1>4. IsFiniteSet(UNION {Units(p) : p \in S})
  BY <1>2, <1>3, FS_UNION
<1> QED
  BY <1>4, CreditUnitsAre

LEMMA CreditsNone == Credits({}) = 0
<1>1. CreditUnits({}) = {}
  BY CreditUnitsAre
<1> QED
  BY <1>1, FS_EmptySet DEF Credits

LEMMA CreditsOne ==
  ASSUME NEW p \in Packets
  PROVE  Credits({p}) = CreditsUsed(p)
<1>1. CreditUnits({p}) = Units(p)
  BY CreditUnitsAre
<1> QED
  BY <1>1, UnitsFacts DEF Credits

LEMMA CreditsSum ==
  ASSUME NEW S \in SUBSET Packets, NEW T \in SUBSET Packets, S \cap T = {}
  PROVE  Credits(S \cup T) = Credits(S) + Credits(T)
<1>1. CreditUnits(S \cup T) = CreditUnits(S) \cup CreditUnits(T)
  BY CreditUnitsAre
<1>2. CreditUnits(S) \cap CreditUnits(T) = {}
  <2> SUFFICES ASSUME NEW x \in CreditUnits(S), x \in CreditUnits(T) PROVE FALSE
    OBVIOUS
  <2>1. PICK p \in S : x \in Units(p)
    BY CreditUnitsAre
  <2>2. PICK r \in T : x \in Units(r)
    BY CreditUnitsAre
  <2>3. x[1] = p /\ x[1] = r
    BY <2>1, <2>2 DEF Units
  <2> QED
    BY <2>3
<1>3. IsFiniteSet(CreditUnits(S)) /\ IsFiniteSet(CreditUnits(T))
  BY CreditUnitsFinite
<1>4. Cardinality({}) = 0
  BY FS_EmptySet
<1>5. Cardinality(CreditUnits(S) \cup CreditUnits(T))
        = Cardinality(CreditUnits(S)) + Cardinality(CreditUnits(T)) - 0
  BY <1>2, <1>3, <1>4, FS_Union
<1>6. Credits(S) \in Nat /\ Credits(T) \in Nat
  BY CreditsNat
<1>7. /\ Credits(S \cup T) = Cardinality(CreditUnits(S) \cup CreditUnits(T))
      /\ Credits(S) = Cardinality(CreditUnits(S)) /\ Credits(T) = Cardinality(CreditUnits(T))
  BY <1>1 DEF Credits
<1> QED
  BY <1>5, <1>6, <1>7

LEMMA CreditsGrow ==
  ASSUME NEW S \in SUBSET Packets, NEW T \in SUBSET S
  PROVE  Credits(T) <= Credits(S)
<1>1. T \in SUBSET Packets /\ S \ T \in SUBSET Packets /\ T \cup (S \ T) = S
  OBVIOUS
<1>2. Credits(T \cup (S \ T)) = Credits(T) + Credits(S \ T)
  BY <1>1, CreditsSum
<1>3. Credits(T) \in Nat /\ Credits(S \ T) \in Nat
  BY <1>1, CreditsNat
<1>4. Credits(S) = Credits(T) + Credits(S \ T)
  BY <1>1, <1>2
<1> QED
  BY <1>3, <1>4

-----------------------------------------------------------------------------
(* What is charged, after each kind of step.                               *)

LEMMA ChargedIs ==
  ASSUME DrainInv
  PROVE  /\ Drainers = {} => Charged = {}
         /\ \A t \in Drainers : Charged = IF pc[t] = "requeue" THEN {} ELSE Range(sendQ[t])
<1>1. ASSUME Drainers = {} PROVE Charged = {}
  BY <1>1, InHandIs, EmptyFacts DEF Charged
<1>2. ASSUME NEW t \in Drainers
      PROVE  Charged = IF pc[t] = "requeue" THEN {} ELSE Range(sendQ[t])
  <2>1. \A u \in Drainers : u = t
    BY DEF DrainInv, SingleDrainer
  <2>2. InHand = sendQ[t]
    BY InHandIs
  <2> QED
    BY <2>1, <2>2 DEF Charged
<1> QED
  BY <1>1, <1>2

LEMMA ChargedNext ==
  ASSUME DrainInv'
  PROVE  /\ Drainers' = {} => Charged' = {}
         /\ \A t \in Drainers' :
               Charged' = IF pc'[t] = "requeue" THEN {} ELSE Range(sendQ'[t])
<1>1. ASSUME Drainers' = {} PROVE Charged' = {}
  BY <1>1, InHandNext, EmptyFacts DEF Charged
<1>2. ASSUME NEW t \in Drainers'
      PROVE  Charged' = IF pc'[t] = "requeue" THEN {} ELSE Range(sendQ'[t])
  <2>1. \A u \in Drainers' : u = t
    BY DEF DrainInv, SingleDrainer
  <2>2. InHand' = sendQ'[t]
    BY InHandNext
  <2> QED
    BY <2>1, <2>2 DEF Charged
<1> QED
  BY <1>1, <1>2

LEMMA ChargedType ==
  ASSUME TypeOK, DrainInv
  PROVE  Charged \in SUBSET Packets
<1>1. InHand \in Seq(Packets)
  BY InHandType
<1> QED
  BY <1>1, RangeType DEF Charged

(* A context outside the drain loop steps and stays outside. *)
LEMMA ChargedOther ==
  ASSUME TypeOK, DrainInv, DrainInv', NEW t \in Contexts, NEW w,
         pc[t] \notin {"issue", "hif", "requeue", "drain"},
         w \notin {"issue", "hif", "requeue", "drain"},
         pc' = [pc EXCEPT ![t] = w], NEW q, sendQ' = [sendQ EXCEPT ![t] = q]
  PROVE  Charged' = Charged
<1>1. Drainers' = Drainers /\ t \notin Drainers
  BY DEF Drainers, TypeOK
<1>2. \A u \in Drainers : sendQ'[u] = sendQ[u] /\ pc'[u] = pc[u]
  BY <1>1 DEF Drainers, TypeOK
<1>3. CASE Drainers = {}
  BY <1>1, <1>3, ChargedIs, ChargedNext
<1>4. CASE Drainers # {}
  <2>1. PICK u \in Drainers : TRUE
    BY <1>4
  <2>2. /\ Charged = IF pc[u] = "requeue" THEN {} ELSE Range(sendQ[u])
        /\ Charged' = IF pc'[u] = "requeue" THEN {} ELSE Range(sendQ'[u])
    BY <1>1, <2>1, ChargedIs, ChargedNext
  <2> QED
    BY <1>2, <2>2
<1> QED
  BY <1>3, <1>4

(* The drainer, before and after its step. *)
LEMMA ChargedHere ==
  ASSUME DrainInv, NEW t \in Contexts, pc[t] \in {"issue", "hif", "requeue", "drain"}
  PROVE  Charged = IF pc[t] = "requeue" THEN {} ELSE Range(sendQ[t])
<1>1. t \in Drainers
  BY DEF Drainers
<1> QED
  BY <1>1, ChargedIs

LEMMA ChargedThere ==
  ASSUME TypeOK, DrainInv', NEW t \in Contexts,
         NEW w \in {"issue", "hif", "requeue", "drain"}, pc' = [pc EXCEPT ![t] = w]
  PROVE  Charged' = IF w = "requeue" THEN {} ELSE Range(sendQ'[t])
<1>1. t \in Drainers' /\ pc'[t] = w
  BY DEF Drainers, TypeOK
<1> QED
  BY <1>1, ChargedNext

LEMMA ChargedLeaves ==
  ASSUME TypeOK, DrainInv', NEW t \in Contexts, Drainers \subseteq {t},
         NEW w, w \notin {"issue", "hif", "requeue", "drain"}, pc' = [pc EXCEPT ![t] = w]
  PROVE  Charged' = {}
<1>1. Drainers' = {}
  BY DEF Drainers, TypeOK
<1> QED
  BY <1>1, ChargedNext

-----------------------------------------------------------------------------
(* Credits are conserved.                                                  *)

LEMMA ConservedIs ==
  CreditsConserved <=> (CreditFlow => /\ TxCredits >= 0
                                      /\ TxCredits + Credits(Charged) + heldAsked + heldQuiet = TxAlloc)
BY DEF CreditsConserved, Charged

LEMMA ConservedNext ==
  CreditsConserved' <=>
     (CreditFlow => /\ TxCredits' >= 0
                    /\ TxCredits' + Credits(Charged') + heldAsked' + heldQuiet' = TxAlloc)
BY DEF CreditsConserved, Charged, Credits, CreditUnits

(* A step that touches no credits and charges nothing. *)
LEMMA CreditsSame ==
  ASSUME CreditsConserved, Charged' = Charged, UNCHANGED <<TxCredits, heldAsked, heldQuiet>>
  PROVE  CreditsConserved'
BY ConservedIs, ConservedNext

(* A pass of the drain loop charges what it takes. *)
LEMMA PassCharges ==
  ASSUME TypeOK, DrainInv', NEW t \in Contexts, Drainers \subseteq {t},
         NEW q \in Seq(Packets), DrainPass(t, q)
  PROVE  \E n \in 0..Len(q) :
            /\ Grabs(q, n, tx_resources[t])
            /\ Charged' = First(q, n)
            /\ TxCredits' = TxCredits - Credits(First(q, n))
            /\ needUpdate' = (needUpdate \ First(q, n)) \cup LowCredit(q, n)
            /\ First(q, n) \in SUBSET Packets
<1>1. PICK n \in 0..Len(q) :
        /\ Grabs(q, n, tx_resources[t])
        /\ sendQ' = [sendQ EXCEPT ![t] = SubSeq(q, 1, n)]
        /\ pc' = [pc EXCEPT ![t] = IF n = 0 THEN ReturnPoint(t, callers[t]) ELSE "issue"]
        /\ TxCredits' = TxCredits - Credits(First(q, n))
        /\ needUpdate' = (needUpdate \ First(q, n)) \cup LowCredit(q, n)
  BY DEF DrainPass
<1>2. Len(q) \in Nat /\ n \in Nat /\ n <= Len(q)
  BY LenProperties
<1>3. First(q, n) \in SUBSET Packets
  BY <1>2, CutInTwo, RangeType DEF First
<1>4. CASE n = 0
  <2>1. PICK w \in {"cleanup", "clear", "recycle", "idle"} : pc' = [pc EXCEPT ![t] = w]
    BY <1>1, <1>4, ReturnPlaces
  <2>2. Charged' = {}
    BY <2>1, ChargedLeaves
  <2>3. SubSeq(q, 1, n) = <<>>
    BY <1>4, SubSeqEmpty
  <2> QED
    BY <1>1, <1>3, <2>2, <2>3, EmptyFacts DEF First
<1>5. CASE n # 0
  <2>1. PICK w : w = "issue"
    OBVIOUS
  <2>2. pc' = [pc EXCEPT ![t] = w] /\ w \in {"issue", "hif", "requeue", "drain"}
    BY <1>1, <1>5, <2>1
  <2>3. Charged' = Range(sendQ'[t])
    BY <2>1, <2>2, ChargedThere
  <2>4. sendQ'[t] = SubSeq(q, 1, n)
    BY <1>1 DEF TypeOK
  <2> QED
    BY <1>1, <1>3, <2>3, <2>4 DEF First
<1> QED
  BY <1>4, <1>5

LEMMA PassCredits ==
  ASSUME TypeOK, DrainInv, DrainInv', CreditsConserved, NEW t \in Contexts,
         Drainers \subseteq {t}, Charged = {}, NEW q \in Seq(Packets), DrainPass(t, q),
         UNCHANGED <<heldAsked, heldQuiet>>
  PROVE  CreditsConserved'
<1> SUFFICES ASSUME CreditFlow
             PROVE  /\ TxCredits' >= 0
                    /\ TxCredits' + Credits(Charged') + heldAsked' + heldQuiet' = TxAlloc
  BY ConservedNext
<1>1. PICK n \in 0..Len(q) :
        /\ Grabs(q, n, tx_resources[t])
        /\ Charged' = First(q, n)
        /\ TxCredits' = TxCredits - Credits(First(q, n))
        /\ First(q, n) \in SUBSET Packets
  BY PassCharges
<1>2. Credits(First(q, n)) <= TxCredits
  BY <1>1 DEF Grabs, Covered
<1>3. TxCredits + Credits(Charged) + heldAsked + heldQuiet = TxAlloc /\ Credits(Charged) = 0
  BY ConservedIs, CreditsNone
<1>4. Credits(First(q, n)) \in Nat /\ Credits(Charged') = Credits(First(q, n))
  BY <1>1, CreditsNat
<1>5. TxCredits \in Int /\ heldAsked \in Nat /\ heldQuiet \in Nat
  BY DEF TypeOK
<1> DEFINE c == Credits(First(q, n))
<1>6. c \in Nat /\ c <= TxCredits /\ TxCredits' = TxCredits - c /\ Credits(Charged') = c
  BY <1>1, <1>2, <1>4
<1> HIDE DEF c
<1> QED
  BY <1>3, <1>5, <1>6

(* The packet HIFSend_head accepts takes its credits to the target. *)
LEMMA HifSendCredits ==
  ASSUME TypeOK, DrainInv, DrainInv', PlaceInv, CreditsConserved, NEW t \in Contexts,
         HIFSend_head(t)
  PROVE  CreditsConserved'
<1>1. /\ pc[t] = "hif" /\ TxCredits' = TxCredits
      /\ sendQ' = [sendQ EXCEPT ![t] = Tail(sendQ[t])]
      /\ pc' = [pc EXCEPT ![t] = "issue"]
      /\ heldAsked' = heldAsked + (IF Head(sendQ[t]) \in needUpdate THEN CreditsUsed(Head(sendQ[t])) ELSE 0)
      /\ heldQuiet' = heldQuiet + (IF Head(sendQ[t]) \in needUpdate THEN 0 ELSE CreditsUsed(Head(sendQ[t])))
  BY DEF HIFSend_head, epVars
<1>2. sendQ[t] \in Seq(Packets) /\ sendQ[t] # <<>> /\ IsInjective(sendQ[t])
  BY <1>1 DEF TypeOK, PlaceInv, Hands, OnceEach
<1>3. PICK p \in Packets : p = Head(sendQ[t])
  BY <1>2, HeadAndTail
<1>4. /\ Range(sendQ[t]) = {p} \cup Range(Tail(sendQ[t])) /\ {p} \cap Range(Tail(sendQ[t])) = {}
      /\ Range(Tail(sendQ[t])) \in SUBSET Packets
  BY <1>2, <1>3, HeadAndTail, RangeType
<1>5. Charged = Range(sendQ[t])
  BY <1>1, ChargedHere
<1>6. Charged' = Range(Tail(sendQ[t]))
  <2>1. PICK w : w = "issue"
    OBVIOUS
  <2>2. pc' = [pc EXCEPT ![t] = w] /\ w \in {"issue", "hif", "requeue", "drain"} /\ w # "requeue"
    BY <1>1, <2>1
  <2>3. Charged' = Range(sendQ'[t])
    BY <2>2, ChargedThere
  <2> QED
    BY <1>1, <2>3 DEF TypeOK
<1>7. Credits(Charged) = CreditsUsed(p) + Credits(Charged')
  <2>1. Credits({p} \cup Charged') = Credits({p}) + Credits(Charged')
    BY <1>4, <1>6, CreditsSum
  <2>2. Charged = {p} \cup Charged'
    BY <1>4, <1>5, <1>6
  <2>3. Credits({p}) = CreditsUsed(p)
    BY CreditsOne
  <2> QED
    BY <2>1, <2>2, <2>3
<1>8. CreditsUsed(p) \in Nat /\ Credits(Charged') \in Nat
  BY <1>4, <1>6, CreditsUsedNat, CreditsNat
<1>9. TxCredits \in Int /\ heldAsked \in Nat /\ heldQuiet \in Nat
  BY DEF TypeOK
<1>10. /\ heldAsked' \in Nat /\ heldQuiet' \in Nat
       /\ heldAsked' + heldQuiet' = heldAsked + heldQuiet + CreditsUsed(p)
  <2>1. CASE p \in needUpdate
    <3>1. heldAsked' = heldAsked + CreditsUsed(p) /\ heldQuiet' = heldQuiet + 0
      BY <1>1, <1>3, <2>1
    <3> QED
      BY <1>8, <1>9, <3>1
  <2>2. CASE p \notin needUpdate
    <3>1. heldAsked' = heldAsked + 0 /\ heldQuiet' = heldQuiet + CreditsUsed(p)
      BY <1>1, <1>3, <2>2
    <3> QED
      BY <1>8, <1>9, <3>1
  <2> QED
    BY <2>1, <2>2
<1> DEFINE c == CreditsUsed(p)
           d == Credits(Charged')
           e == Credits(Charged)
<1>11. e = c + d /\ c \in Nat /\ d \in Nat /\ heldAsked' + heldQuiet' = heldAsked + heldQuiet + c
  BY <1>7, <1>8, <1>10
<1>12. CreditFlow => TxCredits >= 0 /\ TxCredits + e + heldAsked + heldQuiet = TxAlloc
  BY ConservedIs
<1>13. CreditsConserved' <=> (CreditFlow => TxCredits' >= 0 /\ TxCredits' + d + heldAsked' + heldQuiet' = TxAlloc)
  BY ConservedNext
<1> HIDE DEF c, d, e
<1>14. ASSUME CreditFlow
       PROVE  TxCredits >= 0 /\ TxCredits + d + heldAsked' + heldQuiet' = TxAlloc
  <2>1. TxCredits + (c + d) + heldAsked + heldQuiet = TxAlloc
    BY <1>11, <1>12, <1>14
  <2>2. PICK a \in Nat, b \in Nat : a = heldAsked' /\ b = heldQuiet'
    BY <1>10
  <2>3. a + b = heldAsked + heldQuiet + c
    BY <1>11, <2>2
  <2>4. TxCredits + d + a + b = TxAlloc
    BY <1>9, <1>11, <2>1, <2>3
  <2> QED
    BY <1>12, <1>14, <2>2, <2>4
<1> QED
  BY <1>1, <1>13, <1>14

(* HTCIssuePackets reclaims what all the packets in hand were charged. *)
LEMMA IssueFailedCredits ==
  ASSUME TypeOK, DrainInv, DrainInv', CreditsConserved, NEW t \in Contexts, IssueFailed(t)
  PROVE  CreditsConserved'
<1>1. /\ pc[t] = "hif" /\ pc' = [pc EXCEPT ![t] = "requeue"]
      /\ TxCredits' = TxCredits + Credits(Range(sendQ[t]))
      /\ UNCHANGED <<heldAsked, heldQuiet>>
  BY DEF IssueFailed, hifVars
<1>2. Charged = Range(sendQ[t])
  BY <1>1, ChargedHere
<1>3. Charged' = {}
  <2>1. PICK w : w = "requeue"
    OBVIOUS
  <2>2. pc' = [pc EXCEPT ![t] = w] /\ w \in {"issue", "hif", "requeue", "drain"}
    BY <1>1, <2>1
  <2> QED
    BY <2>1, <2>2, ChargedThere
<1>4. Credits(Charged) \in Nat
  BY ChargedType, CreditsNat
<1>5. Credits(Charged') = 0
  BY <1>3, CreditsNone
<1> DEFINE c == Credits(Charged)
<1>6. c \in Nat /\ TxCredits' = TxCredits + c
  BY <1>1, <1>2, <1>4
<1>7. CreditFlow => TxCredits >= 0 /\ TxCredits + c + heldAsked + heldQuiet = TxAlloc
  BY ConservedIs
<1>8. TxCredits \in Int /\ heldAsked \in Nat /\ heldQuiet \in Nat
  BY DEF TypeOK
<1> HIDE DEF c
<1>9. CreditFlow => TxCredits' >= 0 /\ TxCredits' + 0 + heldAsked' + heldQuiet' = TxAlloc
  BY <1>1, <1>6, <1>7, <1>8
<1> QED
  BY <1>5, <1>9, ConservedNext

LEMMA RequeueCredits ==
  ASSUME TypeOK, DrainInv, DrainInv', CreditsConserved, NEW t \in Contexts, Requeue(t)
  PROVE  CreditsConserved'
<1>1. /\ pc[t] = "requeue" /\ pc' = [pc EXCEPT ![t] = ReturnPoint(t, callers[t])]
      /\ UNCHANGED <<TxCredits, heldAsked, heldQuiet>>
  BY DEF Requeue, hifVars
<1>2. PICK w \in {"cleanup", "clear", "recycle", "idle"} : pc' = [pc EXCEPT ![t] = w]
  BY <1>1, ReturnPlaces
<1>3. Drainers = {t}
  BY <1>1, OnlyDrainer
<1>4. Charged = {} /\ Charged' = {}
  BY <1>1, <1>2, <1>3, ChargedHere, ChargedLeaves
<1> QED
  BY <1>1, <1>4, CreditsSame

LEMMA StepCredits ==
  ASSUME TypeOK, DrainInv, DrainInv', PlaceInv, CreditsConserved, NEW t \in Contexts,
         TrySendStep(t)
  PROVE  CreditsConserved'
<1>1. sendQ = [sendQ EXCEPT ![t] = sendQ[t]]
  BY DEF TypeOK
<1>2. CASE CheckOverflow(t) \/ ReadResources(t) \/ CompleteLeftovers(t) \/ HTCSetNodropPkt(t)
  <2>1. PICK w \in {"cleanup", "resources", "enter", "idle", "clear", "recycle"} :
           pc' = [pc EXCEPT ![t] = w]
    BY <1>2, ReturnPlaces DEF CheckOverflow, ReadResources, CompleteLeftovers, HTCSetNodropPkt
  <2>2. PICK q : sendQ' = [sendQ EXCEPT ![t] = q]
    BY <1>1, <1>2 DEF CheckOverflow, ReadResources, CompleteLeftovers, HTCSetNodropPkt
  <2>3. /\ pc[t] \in {"overflow", "resources", "cleanup", "clear"}
        /\ UNCHANGED <<TxCredits, heldAsked, heldQuiet>>
    BY <1>2 DEF CheckOverflow, ReadResources, CompleteLeftovers, HTCSetNodropPkt, epVars,
                hifVars
  <2>4. Charged' = Charged
    BY <2>1, <2>2, <2>3, ChargedOther
  <2> QED
    BY <2>3, <2>4, CreditsSame
<1>3. CASE EnterTrySend(t) /\ TxProcessCount > 0
  <2>1. /\ pc[t] = "enter" /\ pc' = [pc EXCEPT ![t] = ReturnPoint(t, callers[t])]
        /\ sendQ' = [sendQ EXCEPT ![t] = <<>>]
        /\ UNCHANGED <<TxCredits, heldAsked, heldQuiet>>
    BY <1>3 DEF EnterTrySend, hifVars
  <2>2. PICK w \in {"cleanup", "clear", "recycle", "idle"} : pc' = [pc EXCEPT ![t] = w]
    BY <2>1, ReturnPlaces
  <2>3. Charged' = Charged
    BY <2>1, <2>2, ChargedOther
  <2> QED
    BY <2>1, <2>3, CreditsSame
<1>4. CASE EnterTrySend(t) /\ ~(TxProcessCount > 0)
  <2>1. DrainPass(t, Enqueued(t)) /\ UNCHANGED <<heldAsked, heldQuiet>>
    BY <1>4 DEF EnterTrySend, hifVars
  <2>2. Drainers = {}
    BY <1>4 DEF DrainInv, SingleDrainer
  <2>3. Charged = {} /\ Enqueued(t) \in Seq(Packets)
    BY <2>2, ChargedIs, EnqueuedFacts DEF PlaceInv
  <2> QED
    BY <2>1, <2>2, <2>3, PassCredits
<1>5. CASE DrainAgain(t)
  <2>1. pc[t] = "drain" /\ DrainPass(t, TxQueue) /\ UNCHANGED <<heldAsked, heldQuiet>>
    BY <1>5 DEF DrainAgain, hifVars
  <2>2. Drainers = {t} /\ sendQ[t] = <<>> /\ TxQueue \in Seq(Packets)
    BY <2>1, OnlyDrainer DEF PlaceInv, Hands, TypeOK
  <2>3. Charged = {}
    BY <2>1, <2>2, ChargedHere, EmptyFacts
  <2> QED
    BY <2>1, <2>2, <2>3, PassCredits
<1>6. CASE IssuePacket(t) \/ RefreshResources(t)
  <2>1. PICK w \in {"hif", "drain"} : pc' = [pc EXCEPT ![t] = w]
    BY <1>6 DEF IssuePacket, RefreshResources
  <2>2. pc[t] = "issue" /\ UNCHANGED <<TxCredits, sendQ, heldAsked, heldQuiet>>
    BY <1>6 DEF IssuePacket, RefreshResources, epVars, hifVars
  <2>3. Charged = Range(sendQ[t]) /\ Charged' = Range(sendQ'[t])
    BY <2>1, <2>2, ChargedHere, ChargedThere
  <2> QED
    BY <2>2, <2>3, CreditsSame
<1> QED
  BY <1>2, <1>3, <1>4, <1>5, <1>6, HifSendCredits, IssueFailedCredits, RequeueCredits
     DEF TrySendStep

(* A credit report moves credits from the target to the endpoint. *)
LEMMA CreditRptCredits ==
  ASSUME TypeOK, DrainInv, DrainInv', CreditsConserved,
         NEW asked \in 0..TxAlloc, NEW quiet \in 0..TxAlloc, HTCProcessCreditRpt(asked, quiet)
  PROVE  CreditsConserved'
<1>1. /\ pc[Tasklet] = "idle" /\ sendQ' = sendQ
      /\ asked <= heldAsked /\ quiet <= heldQuiet
      /\ heldAsked' = heldAsked - asked /\ heldQuiet' = heldQuiet - quiet
      /\ TxCredits' = TxCredits + asked + quiet
  BY DEF HTCProcessCreditRpt
<1>2. PICK w \in {"idle", "resources"} : pc' = [pc EXCEPT ![Tasklet] = w]
  BY DEF HTCProcessCreditRpt
<1>3. Tasklet \in Contexts /\ sendQ' = [sendQ EXCEPT ![Tasklet] = sendQ[Tasklet]]
  BY <1>1 DEF Contexts, TypeOK
<1>4. Charged' = Charged
  BY <1>1, <1>2, <1>3, ChargedOther
<1>5. Credits(Charged) \in Nat
  BY ChargedType, CreditsNat
<1> DEFINE c == Credits(Charged)
           d == Credits(Charged')
<1>6. c \in Nat /\ d = c
  BY <1>4, <1>5
<1>7. CreditFlow => TxCredits >= 0 /\ TxCredits + c + heldAsked + heldQuiet = TxAlloc
  BY ConservedIs
<1>8. TxCredits \in Int /\ heldAsked \in Nat /\ heldQuiet \in Nat /\ asked \in Nat /\ quiet \in Nat
  BY ConstantsAssumption DEF TypeOK
<1>9. CreditsConserved' <=> (CreditFlow => TxCredits' >= 0 /\ TxCredits' + d + heldAsked' + heldQuiet' = TxAlloc)
  BY ConservedNext
<1> HIDE DEF c, d
<1>10. CreditFlow => TxCredits' >= 0 /\ TxCredits' + d + heldAsked' + heldQuiet' = TxAlloc
  BY <1>1, <1>6, <1>7, <1>8
<1> QED
  BY <1>9, <1>10

LEMMA NextCredits ==
  TypeInv /\ DrainInv /\ DrainInv' /\ PlaceInv /\ CreditsConserved /\ [Next]_vars
     => CreditsConserved'
<1> SUFFICES ASSUME TypeOK, DrainInv, DrainInv', PlaceInv, CreditsConserved, [Next]_vars
             PROVE  CreditsConserved'
  BY DEF TypeInv
<1>1. Tasklet \in Contexts /\ \A t \in Contexts : sendQ = [sendQ EXCEPT ![t] = sendQ[t]]
  BY DEF TypeOK, Contexts
<1>2. ASSUME NEW t \in Threads, HTCSendPktsMultiple(t) PROVE CreditsConserved'
  <2>1. PICK w : w = "overflow"
    OBVIOUS
  <2>2. /\ t \in Contexts /\ pc[t] = "idle" /\ pc' = [pc EXCEPT ![t] = w]
        /\ UNCHANGED <<TxCredits, sendQ, heldAsked, heldQuiet>>
    BY <1>2, <2>1 DEF HTCSendPktsMultiple, hifVars, Contexts
  <2>3. Charged' = Charged
    BY <1>1, <2>1, <2>2, ChargedOther
  <2> QED
    BY <2>2, <2>3, CreditsSame
<1>3. CASE HTCTxCompletionHandler \/ RecycleEntry
  <2>1. PICK w \in {"recycle", "resources", "idle"} : pc' = [pc EXCEPT ![Tasklet] = w]
    BY <1>3 DEF HTCTxCompletionHandler, RecycleEntry
  <2>2. /\ pc[Tasklet] \in {"idle", "recycle"}
        /\ UNCHANGED <<TxCredits, sendQ, heldAsked, heldQuiet>>
    BY <1>3 DEF HTCTxCompletionHandler, RecycleEntry, epVars
  <2>3. Charged' = Charged
    BY <1>1, <2>1, <2>2, ChargedOther
  <2> QED
    BY <2>2, <2>3, CreditsSame
<1>4. CASE CE_per_engine_servicereap \/ UNCHANGED vars \/ \E t \in Threads : HTCFlushEndpointTX(t)
  <2>1. UNCHANGED <<pc, TxCredits, sendQ, heldAsked, heldQuiet>>
    BY <1>4 DEF CE_per_engine_servicereap, HTCFlushEndpointTX, vars, epVars, ctxVars, hifVars
  <2>2. Charged' = Charged
    BY <2>1 DEF Charged, InHand, Drainers
  <2> QED
    BY <2>1, <2>2, CreditsSame
<1> QED
  BY <1>2, <1>3, <1>4, StepCredits, CreditRptCredits DEF Next

LEMMA InitCredits == Init => CreditsConserved
<1> SUFFICES ASSUME Init PROVE CreditsConserved
  OBVIOUS
<1>1. Charged = {}
  BY InitDrain, ChargedIs DEF Init, Drainers
<1>2. Credits(Charged) = 0 /\ TxAlloc \in Nat
  BY <1>1, CreditsNone, ConstantsAssumption
<1>3. TxCredits = TxAlloc /\ heldAsked = 0 /\ heldQuiet = 0
  BY DEF Init
<1> QED
  BY <1>2, <1>3, ConservedIs

(* Credits are neither minted nor leaked: in every state the endpoint's    *)
(* credits, the charges of the packets in hand and the credits the target  *)
(* holds add up to the allocation, whatever races and however often        *)
(* HIFSend_head fails.                                                     *)
THEOREM NoCreditLeaks == Spec => []CreditsConserved
<1>1. Spec => []DrainInv
  BY Placed, PTL
<1> QED
  BY <1>1, InitCredits, NextCredits, Placed, PTL DEF Spec

-----------------------------------------------------------------------------
(* No lost wakeup, on an endpoint whose pipe cannot run full.              *)

(* No message is larger than the largest one the target announced, the     *)
(* allocation covers that one, and the pipe has an entry to spare.         *)
Provisioned ==
    /\ CreditFlow
    /\ TxCreditsPerMaxMsg <= TxAlloc
    /\ \A p \in Packets : CreditsRequired(p) <= TxCreditsPerMaxMsg
    /\ Cardinality(Packets) < SrcEntries

(* The entries of the pipe are free, in use, or about to be recycled; on a *)
(* credit endpoint only a credit report sends the completion thread into   *)
(* HTCTrySend; and HIFSend_head has never failed.                          *)
PipeInv ==
    /\ num_sends_allowed + Len(ring) + (IF pc[Tasklet] = "recycle" THEN 1 ELSE 0) = SrcEntries
    /\ pc[Tasklet] \notin {"idle", "recycle"} => op[Tasklet] = "rpt"
    /\ \A t \in Contexts : pc[t] # "requeue"

(* Credits spent without asking for their return leave more than a maximum *)
(* message's worth.                                                        *)
Quiet == heldQuiet + Credits(Charged \ needUpdate)

QuietInv == Quiet = 0 \/ Quiet + TxCreditsPerMaxMsg < TxAlloc

(* Packets nobody drains wait for credits, or for a context that is past   *)
(* the overflow check and will look at TxQueue.                            *)
Short == TxCredits < CreditsUsed(Head(TxQueue))

Committed == {t \in Contexts : pc[t] \in {"resources", "enter"}}

NoticedInv == (TxQueue # <<>> /\ Drainers = {} /\ Committed = {}) => Short

(* A set of positions has a last one. *)
LEMMA LastOf ==
  ASSUME NEW n \in Nat, NEW J \in SUBSET (0..n), J # {}
  PROVE  \E j \in J : \A k \in J : k <= j
<1> DEFINE T == {n - j : j \in J}
           R == OpToRel(<, Nat)
<1>1. T \subseteq Nat /\ T # {}
  <2>1. \A j \in J : j \in Nat /\ j <= n
    OBVIOUS
  <2>2. \A j \in J : n - j \in Nat
    BY <2>1
  <2>3. PICK j \in J : TRUE
    OBVIOUS
  <2>4. n - j \in T
    OBVIOUS
  <2> QED
    BY <2>2, <2>4
<1>2. IsWellFoundedOn(R, Nat)
  BY NatLessThanWellFounded
<1>3. \A x, y \in Nat : x < y => <<x, y>> \in R
  BY DEF OpToRel
<1> HIDE DEF R, T
<1>4. PICK x \in T : \A y \in T : ~(<<y, x>> \in R)
  BY <1>1, <1>2, WFMin
<1>5. ASSUME NEW y \in T PROVE y >= x
  <2>1. x \in Nat /\ y \in Nat
    BY <1>1, <1>4
  <2>2. ~(y < x)
    BY <1>3, <1>4, <2>1
  <2> QED
    BY <2>1, <2>2
<1>6. PICK j \in J : x = n - j
  BY DEF T
<1>7. ASSUME NEW k \in J PROVE k <= j
  <2>1. n - k \in T
    BY DEF T
  <2>2. n - k >= n - j
    BY <1>5, <1>6, <2>1
  <2> QED
    BY <2>2
<1> QED
  BY <1>7

(* Of the packets a pass takes, those that do not ask for their credits    *)
(* back are a first part that leaves more than a maximum message's worth.  *)
LEMMA QuietPart ==
  ASSUME CreditFlow, TxCredits \in Int, NEW q \in Seq(Packets), NEW n \in 0..Len(q),
         First(q, n) \ LowCredit(q, n) # {}
  PROVE  TxCredits - Credits(First(q, n) \ LowCredit(q, n)) > TxCreditsPerMaxMsg
<1> DEFINE Z == First(q, n) \ LowCredit(q, n)
           J == {j \in 1..n : q[j] \in Z}
<1>1. Len(q) \in Nat /\ n \in Nat /\ n <= Len(q)
  BY LenProperties
<1>2. ASSUME NEW m \in 1..n
      PROVE  /\ First(q, m) \in SUBSET Packets
             /\ \A i \in 1..m : q[i] \in First(q, m)
             /\ \A x \in First(q, m) : \E i \in 1..m : q[i] = x
  <2>1. m \in Nat /\ m <= Len(q)
    BY <1>1
  <2>2. /\ SubSeq(q, 1, m) \in Seq(Packets) /\ Len(SubSeq(q, 1, m)) = m
        /\ \A i \in 1..m : SubSeq(q, 1, m)[i] = q[i]
    BY <2>1, CutInTwo
  <2>3. PICK r \in Seq(Packets) : r = SubSeq(q, 1, m)
    BY <2>2
  <2>4. Len(r) = m /\ (\A i \in 1..m : r[i] = q[i]) /\ First(q, m) = Range(r)
    BY <2>2, <2>3 DEF First
  <2>5. /\ Range(r) \subseteq Packets
        /\ \A i \in 1..m : r[i] \in Range(r)
        /\ \A x \in Range(r) : \E i \in 1..m : r[i] = x
    BY <2>4, RangeSeq, RangeType
  <2> QED
    BY <2>4, <2>5
<1>3. n \in 1..n
  <2>1. CASE n = 0
    <3>1. SubSeq(q, 1, n) = <<>>
      BY <2>1, SubSeqEmpty
    <3>2. First(q, n) = {}
      BY <3>1, EmptyFacts DEF First
    <3> QED
      BY <3>2
  <2> QED
    BY <1>1, <2>1
<1>4. J # {} /\ J \in SUBSET (0..n)
  <2>1. PICK x : x \in Z
    OBVIOUS
  <2>2. PICK i \in 1..n : q[i] = x
    BY <1>2, <1>3, <2>1
  <2>3. i \in J
    BY <2>1, <2>2
  <2> QED
    BY <1>1, <2>3
<1> HIDE DEF J
<1>5. PICK j \in J : \A k \in J : k <= j
  BY <1>1, <1>4, LastOf
<1>6. j \in 1..n /\ q[j] \in Z
  BY DEF J
<1>7. Z \subseteq First(q, j)
  <2> SUFFICES ASSUME NEW x \in Z PROVE x \in First(q, j)
    OBVIOUS
  <2>1. PICK i \in 1..n : q[i] = x
    BY <1>2, <1>3
  <2>2. i <= j
    BY <1>5, <2>1 DEF J
  <2>3. i \in 1..j
    BY <1>6, <2>2
  <2> QED
    BY <1>2, <1>6, <2>1, <2>3
<1>8. ~(TxCredits - Credits(First(q, j)) <= TxCreditsPerMaxMsg)
  <2>1. q[j] \notin LowCredit(q, n)
    BY <1>6
  <2> QED
    BY <1>6, <2>1 DEF LowCredit
<1>9. First(q, j) \in SUBSET Packets
  BY <1>2, <1>6
<1> HIDE DEF Z
<1>10. Credits(Z) <= Credits(First(q, j)) /\ Credits(Z) \in Nat /\ Credits(First(q, j)) \in Nat
  <2>1. Z \in SUBSET First(q, j) /\ Z \in SUBSET Packets
    BY <1>7, <1>9
  <2> QED
    BY <1>9, <2>1, CreditsGrow, CreditsNat
<1>11. TxCreditsPerMaxMsg \in Nat
  BY ConstantsAssumption
<1> DEFINE c == Credits(Z)
           d == Credits(First(q, j))
<1>12. c \in Nat /\ d \in Nat /\ c <= d /\ ~(TxCredits - d <= TxCreditsPerMaxMsg)
  BY <1>8, <1>10
<1> HIDE DEF c, d
<1>13. TxCredits - c > TxCreditsPerMaxMsg
  BY <1>11, <1>12
<1> QED
  BY <1>13 DEF c, Z

-----------------------------------------------------------------------------
(* The pipe never runs full.                                               *)

(* A packet still in hand leaves an entry for it. *)
LEMMA PipeRoom ==
  ASSUME Provisioned, TypeOK, PlaceInv, PipeInv, NEW t \in Contexts, pc[t] = "hif"
  PROVE  num_sends_allowed > 0
<1>1. sendQ[t] \in Seq(Packets) /\ sendQ[t] # <<>>
  BY DEF TypeOK, PlaceInv, Hands
<1>2. PICK p \in Packets : p \in Range(sendQ[t])
  BY <1>1, HeadAndTail
<1>3. p \notin Range(ring)
  BY <1>2 DEF PlaceInv, Apart, HeldBy, Shared
<1> DEFINE C == Packets \ {p}
           n == Len(ring)
<1>4. IsFiniteSet(C) /\ Cardinality(C) = Cardinality(Packets) - 1 /\ Cardinality(Packets) \in Nat
  BY ConstantsAssumption, FS_RemoveElement, FS_CardinalityType
<1>5. ring \in Seq(Packets) /\ n \in Nat /\ IsInjective(ring)
  BY LenProperties DEF TypeOK, PlaceInv, OnceEach
<1>6. ring \in [1..n -> C]
  <2>1. ring \in [1..n -> Packets]
    BY <1>5, LenProperties
  <2>2. \A i \in 1..n : ring[i] \in C
    BY <1>3, <1>5, <2>1, RangeSeq
  <2> QED
    BY <2>1, <2>2
<1> HIDE DEF C
<1>7. Cardinality(1..n) <= Cardinality(C)
  <2>1. ring \in Injection(1..n, C)
    BY <1>5, <1>6 DEF Injection
  <2> QED
    BY <1>4, <2>1, FS_Injection
<1>8. Cardinality(1..n) = n
  <2> HIDE DEF n
  <2>1. n \in Int /\ Cardinality(1..n) = IF 1 > n THEN 0 ELSE n - 1 + 1
    BY <1>5, FS_Interval
  <2> QED
    BY <1>5, <2>1
<1>9. num_sends_allowed + n + (IF pc[Tasklet] = "recycle" THEN 1 ELSE 0) = SrcEntries
  BY DEF PipeInv
<1>10. /\ num_sends_allowed \in Nat /\ SrcEntries \in Nat
       /\ Cardinality(Packets) < SrcEntries
  BY ConstantsAssumption DEF TypeOK, Provisioned
<1> HIDE DEF n
<1>11. PICK r \in {0, 1} : num_sends_allowed + n + r = SrcEntries
  BY <1>9
<1> QED
  BY <1>4, <1>5, <1>7, <1>8, <1>10, <1>11

(* A step inside HTCTrySend that uses no entry. *)
LEMMA PipeStep ==
  ASSUME TypeOK, PipeInv, NEW t \in Contexts, NEW w, w # "requeue",
         pc[t] \notin {"idle", "recycle"},
         t = Tasklet => w # "recycle",
         pc' = [pc EXCEPT ![t] = w], UNCHANGED <<op, num_sends_allowed, ring>>
  PROVE  PipeInv'
<1>1. Tasklet \in Contexts /\ pc \in [Contexts -> Places]
  BY DEF Contexts, TypeOK
<1>2. pc[Tasklet] = "recycle" <=> pc'[Tasklet] = "recycle"
  BY <1>1
<1>3. num_sends_allowed' + Len(ring') + (IF pc'[Tasklet] = "recycle" THEN 1 ELSE 0) = SrcEntries
  BY <1>2 DEF PipeInv
<1>4. pc'[Tasklet] \notin {"idle", "recycle"} => op'[Tasklet] = "rpt"
  BY <1>1 DEF PipeInv
<1>5. \A u \in Contexts : pc'[u] # "requeue"
  BY <1>1 DEF PipeInv
<1> QED
  BY <1>3, <1>4, <1>5 DEF PipeInv

(* A context that came for a credit report goes back to idle. *)
LEMMA ReportReturns ==
  ASSUME PipeInv, NEW t \in Contexts, pc[t] \notin {"idle", "recycle"}, NEW left, t = Tasklet
  PROVE  ReturnPoint(t, left) \in {"cleanup", "idle"}
<1>1. op[t] = "rpt"
  BY DEF PipeInv
<1> QED
  BY <1>1 DEF ReturnPoint

LEMMA StepPipe ==
  ASSUME Provisioned, TypeOK, PlaceInv, PipeInv, NEW t \in Contexts, TrySendStep(t)
  PROVE  PipeInv'
<1>1. CASE CheckOverflow(t) \/ ReadResources(t) \/ IssuePacket(t) \/ RefreshResources(t)
           \/ HTCSetNodropPkt(t)
  <2>1. PICK w \in {"cleanup", "resources", "enter", "hif", "drain", "idle"} :
           pc' = [pc EXCEPT ![t] = w]
    BY <1>1 DEF CheckOverflow, ReadResources, IssuePacket, RefreshResources, HTCSetNodropPkt
  <2>2. /\ pc[t] \notin {"idle", "recycle"} /\ UNCHANGED <<op, num_sends_allowed, ring>>
    BY <1>1 DEF CheckOverflow, ReadResources, IssuePacket, RefreshResources, HTCSetNodropPkt,
                hifVars
  <2> QED
    BY <2>1, <2>2, PipeStep
<1>2. CASE EnterTrySend(t) \/ DrainAgain(t) \/ CompleteLeftovers(t)
  <2>1. PICK left : \/ pc' = [pc EXCEPT ![t] = ReturnPoint(t, left)]
                    \/ pc' = [pc EXCEPT ![t] = "issue"]
    BY <1>2 DEF EnterTrySend, DrainAgain, DrainPass, CompleteLeftovers
  <2>2. pc[t] \notin {"idle", "recycle"} /\ UNCHANGED <<op, num_sends_allowed, ring>>
    BY <1>2 DEF EnterTrySend, DrainAgain, CompleteLeftovers, hifVars
  <2>3. PICK w \in {"cleanup", "clear", "recycle", "idle", "issue"} :
          pc' = [pc EXCEPT ![t] = w] /\ (t = Tasklet => w # "recycle")
    <3>1. CASE pc' = [pc EXCEPT ![t] = "issue"]
      BY <3>1
    <3>2. CASE pc' = [pc EXCEPT ![t] = ReturnPoint(t, left)]
      BY <2>2, <3>2, ReturnPlaces, ReportReturns
    <3> QED
      BY <2>1, <3>1, <3>2
  <2> QED
    BY <2>2, <2>3, PipeStep
<1>3. CASE HIFSend_head(t)
  <2>1. /\ pc[t] = "hif" /\ pc' = [pc EXCEPT ![t] = "issue"] /\ op' = op
        /\ num_sends_allowed' = num_sends_allowed - 1
        /\ ring' = Append(ring, Head(sendQ[t]))
    BY <1>3 DEF HIFSend_head
  <2>2. Head(sendQ[t]) \in Packets /\ ring \in Seq(Packets)
    BY <2>1, HeadAndTail DEF TypeOK, PlaceInv, Hands
  <2>3. Len(ring') = Len(ring) + 1 /\ Len(ring) \in Nat
    BY <2>1, <2>2, AppendProperties, LenProperties
  <2>4. Tasklet \in Contexts /\ pc \in [Contexts -> Places] /\ num_sends_allowed \in Nat
    BY DEF Contexts, TypeOK
  <2>5. pc[Tasklet] = "recycle" <=> pc'[Tasklet] = "recycle"
    BY <2>1, <2>4
  <2>6. num_sends_allowed' + Len(ring') + (IF pc'[Tasklet] = "recycle" THEN 1 ELSE 0) = SrcEntries
    <3>1. PICK r \in {0, 1} : r = (IF pc[Tasklet] = "recycle" THEN 1 ELSE 0)
      OBVIOUS
    <3>2. num_sends_allowed + Len(ring) + r = SrcEntries
      BY <3>1 DEF PipeInv
    <3>3. (num_sends_allowed - 1) + (Len(ring) + 1) + r = SrcEntries
      BY <2>3, <2>4, <3>2
    <3> QED
      BY <2>1, <2>3, <2>5, <3>1, <3>3
  <2>7. pc'[Tasklet] \notin {"idle", "recycle"} => op'[Tasklet] = "rpt"
    BY <2>1, <2>4 DEF PipeInv
  <2>8. \A u \in Contexts : pc'[u] # "requeue"
    BY <2>1, <2>4 DEF PipeInv
  <2> QED
    BY <2>6, <2>7, <2>8 DEF PipeInv
<1>4. CASE IssueFailed(t)
  <2>1. pc[t] = "hif" /\ num_sends_allowed = 0
    BY <1>4 DEF IssueFailed
  <2>2. num_sends_allowed > 0
    BY <2>1, PipeRoom
  <2> QED
    BY <2>1, <2>2
<1>5. CASE Requeue(t)
  BY <1>5 DEF Requeue, PipeInv
<1> QED
  BY <1>1, <1>2, <1>3, <1>4, <1>5 DEF TrySendStep

LEMMA NextPipe ==
  ASSUME Provisioned, TypeOK, PlaceInv, PipeInv, [Next]_vars
  PROVE  PipeInv'
<1>1. /\ Tasklet \in Contexts /\ pc \in [Contexts -> Places] /\ num_sends_allowed \in Nat
      /\ \A t \in Threads : t \in Contexts /\ t # Tasklet
      /\ op \in [Contexts -> {"send", "nodrop", "complete", "rpt"}]
  BY ConstantsAssumption DEF Contexts, TypeOK
<1>2. PICK r \in {0, 1} : r = (IF pc[Tasklet] = "recycle" THEN 1 ELSE 0)
  OBVIOUS
<1>3. /\ num_sends_allowed + Len(ring) + r = SrcEntries
      /\ pc[Tasklet] \notin {"idle", "recycle"} => op[Tasklet] = "rpt"
      /\ \A t \in Contexts : pc[t] # "requeue"
  BY <1>2 DEF PipeInv
<1>4. ring # <<>> => Len(Tail(ring)) = Len(ring) - 1 /\ Len(ring) \in Nat
  BY HeadTailProperties, LenProperties DEF TypeOK
<1>5. ASSUME NEW t \in Threads, HTCSendPktsMultiple(t) PROVE PipeInv'
  <2>1. /\ \E o : op' = [op EXCEPT ![t] = o]
        /\ pc' = [pc EXCEPT ![t] = "overflow"] /\ UNCHANGED <<num_sends_allowed, ring>>
    BY <1>5 DEF HTCSendPktsMultiple, hifVars
  <2>2. pc'[Tasklet] = pc[Tasklet] /\ op'[Tasklet] = op[Tasklet]
    BY <1>1, <2>1
  <2>3. \A u \in Contexts : pc'[u] # "requeue"
    BY <1>1, <1>3, <2>1
  <2> QED
    BY <1>2, <1>3, <2>1, <2>2, <2>3 DEF PipeInv
<1>6. CASE HTCTxCompletionHandler
  <2>1. /\ pc' = [pc EXCEPT ![Tasklet] = "recycle"] /\ pc[Tasklet] = "idle"
        /\ ring # <<>> /\ ring' = Tail(ring) /\ num_sends_allowed' = num_sends_allowed
    BY <1>6 DEF HTCTxCompletionHandler, Provisioned
  <2>2. pc'[Tasklet] = "recycle" /\ \A u \in Contexts : pc'[u] # "requeue"
    BY <1>1, <1>3, <2>1
  <2>3. num_sends_allowed + (Len(ring) - 1) + 1 = SrcEntries
    BY <1>1, <1>2, <1>3, <1>4, <2>1
  <2> QED
    BY <1>4, <2>1, <2>2, <2>3 DEF PipeInv
<1>7. CASE RecycleEntry
  <2>1. /\ pc' = [pc EXCEPT ![Tasklet] = "idle"] /\ pc[Tasklet] = "recycle"
        /\ ring' = ring /\ num_sends_allowed' = num_sends_allowed + 1
    BY <1>7 DEF RecycleEntry
  <2>2. pc'[Tasklet] = "idle" /\ \A u \in Contexts : pc'[u] # "requeue"
    BY <1>1, <1>3, <2>1
  <2>3. (num_sends_allowed + 1) + Len(ring) + 0 = SrcEntries
    <3>1. Len(ring) \in Nat
      BY LenProperties DEF TypeOK
    <3> QED
      BY <1>1, <1>2, <1>3, <2>1, <3>1
  <2> QED
    BY <2>1, <2>2, <2>3 DEF PipeInv
<1>8. CASE CE_per_engine_servicereap
  <2>1. /\ UNCHANGED <<pc, op>> /\ ring # <<>> /\ ring' = Tail(ring)
        /\ num_sends_allowed' = num_sends_allowed + 1
    BY <1>8 DEF CE_per_engine_servicereap, ctxVars
  <2>2. (num_sends_allowed + 1) + (Len(ring) - 1) + r = SrcEntries
    BY <1>1, <1>3, <1>4, <2>1
  <2>3. num_sends_allowed' + Len(ring') + (IF pc'[Tasklet] = "recycle" THEN 1 ELSE 0) = SrcEntries
    BY <1>2, <1>4, <2>1, <2>2
  <2> QED
    BY <1>3, <2>1, <2>3 DEF PipeInv
<1>9. ASSUME NEW asked \in 0..TxAlloc, NEW quiet \in 0..TxAlloc, HTCProcessCreditRpt(asked, quiet)
      PROVE  PipeInv'
  <2>1. PICK w \in {"resources", "idle"} : pc' = [pc EXCEPT ![Tasklet] = w]
    BY <1>9 DEF HTCProcessCreditRpt
  <2>2. /\ pc[Tasklet] = "idle" /\ op' = [op EXCEPT ![Tasklet] = "rpt"]
        /\ UNCHANGED <<num_sends_allowed, ring>>
    BY <1>9 DEF HTCProcessCreditRpt
  <2>3. /\ pc'[Tasklet] = w /\ op'[Tasklet] = "rpt"
        /\ \A u \in Contexts : pc'[u] # "requeue"
    BY <1>1, <1>3, <2>1, <2>2
  <2> QED
    BY <1>2, <1>3, <2>1, <2>2, <2>3 DEF PipeInv
<1>10. CASE UNCHANGED vars \/ \E t \in Threads : HTCFlushEndpointTX(t)
  <2>1. UNCHANGED <<pc, op, num_sends_allowed, ring>>
    BY <1>10 DEF HTCFlushEndpointTX, vars, ctxVars, hifVars
  <2> QED
    BY <2>1 DEF PipeInv
<1> QED
  BY <1>5, <1>6, <1>7, <1>8, <1>9, <1>10, StepPipe DEF Next

LEMMA InitPipe == Init => PipeInv
<1> SUFFICES ASSUME Init PROVE PipeInv
  OBVIOUS
<1>1. Tasklet \in Contexts /\ Len(ring) = 0 /\ SrcEntries \in Nat
  BY ConstantsAssumption, EmptySeq DEF Init, Contexts
<1> QED
  BY <1>1 DEF Init, PipeInv

-----------------------------------------------------------------------------
(* Credits spent quietly leave a maximum message's worth.                  *)

(* What the drainer holds is neither shared nor in a caller's queue. *)
LEMMA ChargedApart ==
  ASSUME DrainInv, PlaceInv
  PROVE  Charged \cap Shared = {} /\ \A t \in Contexts : Charged \cap Range(callers[t]) = {}
<1>1. CASE Drainers = {}
  BY <1>1, ChargedIs
<1>2. CASE Drainers # {}
  <2>1. PICK u \in Drainers : TRUE
    BY <1>2
  <2>2. u \in Contexts /\ Charged \subseteq Range(sendQ[u])
    BY ChargedIs DEF Drainers
  <2>3. Range(sendQ[u]) \cap Shared = {} /\ Range(sendQ[u]) \cap Range(callers[u]) = {}
    BY <2>2 DEF PlaceInv, Apart, HeldBy
  <2>4. ASSUME NEW t \in Contexts PROVE Range(sendQ[u]) \cap Range(callers[t]) = {}
    <3>1. CASE t = u
      BY <2>3, <3>1
    <3>2. CASE t # u
      <4>1. HeldBy(u) \cap HeldBy(t) = {}
        BY <2>2, <3>2 DEF PlaceInv, Apart
      <4> QED
        BY <4>1 DEF HeldBy
    <3> QED
      BY <3>1, <3>2
  <2> QED
    BY <2>2, <2>3, <2>4
<1> QED
  BY <1>1, <1>2

LEMMA QuietType ==
  ASSUME TypeOK, DrainInv
  PROVE  Credits(Charged \ needUpdate) \in Nat /\ Quiet \in Nat
<1>1. Charged \ needUpdate \in SUBSET Packets
  BY ChargedType
<1>2. Credits(Charged \ needUpdate) \in Nat
  BY <1>1, CreditsNat
<1> QED
  BY <1>2 DEF Quiet, TypeOK

LEMMA QuietNextIs == Quiet' = heldQuiet' + Credits(Charged' \ needUpdate')
BY DEF Quiet, Credits, CreditUnits

(* A step that leaves the drainer's charges alone. *)
LEMMA QuietSame ==
  ASSUME QuietInv, Charged' = Charged, heldQuiet' = heldQuiet,
         NEW S, needUpdate' = needUpdate \ S, Charged \cap S = {}
  PROVE  QuietInv'
<1>1. Charged' \ needUpdate' = Charged \ needUpdate
  OBVIOUS
<1>2. Quiet' = Quiet
  BY <1>1, QuietNextIs DEF Quiet
<1> QED
  BY <1>2 DEF QuietInv

LEMMA QuietLess ==
  ASSUME QuietInv, Quiet \in Nat, Quiet' \in Nat, Quiet' <= Quiet
  PROVE  QuietInv'
<1>1. TxCreditsPerMaxMsg \in Nat /\ TxAlloc \in Nat
  BY ConstantsAssumption
<1> DEFINE a == Quiet
           b == Quiet'
<1>2. a = 0 \/ a + TxCreditsPerMaxMsg < TxAlloc
  BY DEF QuietInv
<1>3. a \in Nat /\ b \in Nat /\ b <= a
  OBVIOUS
<1> HIDE DEF a, b
<1>4. b = 0 \/ b + TxCreditsPerMaxMsg < TxAlloc
  BY <1>1, <1>2, <1>3
<1> QED
  BY <1>4 DEF QuietInv, b

LEMMA PassQuiet ==
  ASSUME CreditFlow, TypeOK, DrainInv, DrainInv', CreditsConserved, QuietInv,
         NEW t \in Contexts, Drainers \subseteq {t}, Charged = {},
         NEW q \in Seq(Packets), DrainPass(t, q), UNCHANGED <<heldAsked, heldQuiet>>
  PROVE  QuietInv'
<1>1. PICK n \in 0..Len(q) :
        /\ Charged' = First(q, n)
        /\ needUpdate' = (needUpdate \ First(q, n)) \cup LowCredit(q, n)
        /\ First(q, n) \in SUBSET Packets
  BY PassCharges
<1> DEFINE Z == First(q, n) \ LowCredit(q, n)
<1>2. Charged' \ needUpdate' = Z
  BY <1>1
<1>3. Quiet' = heldQuiet + Credits(Z)
  BY <1>2, QuietNextIs
<1>4. Quiet = heldQuiet + 0 /\ TxCredits + 0 + heldAsked + heldQuiet = TxAlloc
  <2>1. Credits(Charged) = 0 /\ Charged \ needUpdate = {}
    BY CreditsNone
  <2> QED
    BY <2>1, CreditsNone, ConservedIs DEF Quiet
<1>5. TxCredits \in Int /\ heldAsked \in Nat /\ heldQuiet \in Nat /\ TxCreditsPerMaxMsg \in Nat
  BY ConstantsAssumption DEF TypeOK
<1>6. CASE Z = {}
  <2>1. Quiet' = Quiet
    BY <1>3, <1>4, <1>6, CreditsNone
  <2> QED
    BY <2>1 DEF QuietInv
<1>7. CASE Z # {}
  <2>1. TxCredits - Credits(Z) > TxCreditsPerMaxMsg
    BY <1>5, <1>7, QuietPart
  <2>2. Credits(Z) \in Nat
    BY <1>1, CreditsNat
  <2> DEFINE c == Credits(Z)
  <2>3. c \in Nat /\ TxCredits - c > TxCreditsPerMaxMsg /\ Quiet' = heldQuiet + c
    BY <1>3, <2>1, <2>2
  <2> HIDE DEF c, Z
  <2>4. heldQuiet + c + TxCreditsPerMaxMsg < TxAlloc
    BY <1>4, <1>5, <2>3
  <2> QED
    BY <2>3, <2>4 DEF QuietInv
<1> QED
  BY <1>6, <1>7

LEMMA HifSendQuiet ==
  ASSUME CreditFlow, TypeOK, DrainInv, DrainInv', PlaceInv, QuietInv, NEW t \in Contexts,
         HIFSend_head(t)
  PROVE  QuietInv'
<1>1. /\ pc[t] = "hif" /\ needUpdate' = needUpdate
      /\ sendQ' = [sendQ EXCEPT ![t] = Tail(sendQ[t])]
      /\ pc' = [pc EXCEPT ![t] = "issue"]
      /\ heldQuiet' = heldQuiet + (IF Head(sendQ[t]) \in needUpdate THEN 0 ELSE CreditsUsed(Head(sendQ[t])))
  BY DEF HIFSend_head
<1>2. sendQ[t] \in Seq(Packets) /\ sendQ[t] # <<>> /\ IsInjective(sendQ[t])
  BY <1>1 DEF TypeOK, PlaceInv, Hands, OnceEach
<1>3. PICK p \in Packets : p = Head(sendQ[t])
  BY <1>2, HeadAndTail
<1>4. /\ Range(sendQ[t]) = {p} \cup Range(Tail(sendQ[t])) /\ p \notin Range(Tail(sendQ[t]))
      /\ Range(Tail(sendQ[t])) \in SUBSET Packets
  BY <1>2, <1>3, HeadAndTail, RangeType
<1>5. Charged = Range(sendQ[t])
  BY <1>1, ChargedHere
<1>6. Charged' = Range(Tail(sendQ[t]))
  <2>1. PICK w : w = "issue"
    OBVIOUS
  <2>2. pc' = [pc EXCEPT ![t] = w] /\ w \in {"issue", "hif", "requeue", "drain"} /\ w # "requeue"
    BY <1>1, <2>1
  <2>3. Charged' = Range(sendQ'[t])
    BY <2>2, ChargedThere
  <2> QED
    BY <1>1, <2>3 DEF TypeOK
<1>7. heldQuiet \in Nat /\ CreditsUsed(p) \in Nat
  BY CreditsUsedNat DEF TypeOK
<1>8. CASE p \in needUpdate
  <2>1. Charged' \ needUpdate' = Charged \ needUpdate
    BY <1>1, <1>4, <1>5, <1>6, <1>8
  <2>2. heldQuiet' = heldQuiet + 0
    BY <1>1, <1>3, <1>8
  <2>3. Quiet' = Quiet
    BY <1>7, <2>1, <2>2, QuietNextIs DEF Quiet
  <2> QED
    BY <2>3 DEF QuietInv
<1>9. CASE p \notin needUpdate
  <2> DEFINE Y == Charged' \ needUpdate'
  <2>1. Charged \ needUpdate = {p} \cup Y /\ {p} \cap Y = {} /\ Y \in SUBSET Packets
    BY <1>1, <1>4, <1>5, <1>6, <1>9
  <2>2. Credits({p} \cup Y) = Credits({p}) + Credits(Y) /\ Credits(Y) \in Nat
    BY <2>1, CreditsSum, CreditsNat
  <2>3. Credits({p}) = CreditsUsed(p)
    BY CreditsOne
  <2>4. heldQuiet' = heldQuiet + CreditsUsed(p)
    BY <1>1, <1>3, <1>9
  <2>5. Quiet' = heldQuiet' + Credits(Y) /\ Quiet = heldQuiet + Credits({p} \cup Y)
    BY <2>1, QuietNextIs DEF Quiet
  <2> DEFINE c == CreditsUsed(p)
             d == Credits(Y)
             e == Credits({p} \cup Y)
  <2>6. c \in Nat /\ d \in Nat /\ e = c + d /\ Quiet' = (heldQuiet + c) + d /\ Quiet = heldQuiet + e
    BY <1>7, <2>2, <2>3, <2>4, <2>5
  <2> HIDE DEF c, d, e
  <2>7. Quiet' = Quiet
    BY <1>7, <2>6
  <2> QED
    BY <2>7 DEF QuietInv
<1> QED
  BY <1>8, <1>9

LEMMA NeverFails ==
  ASSUME Provisioned, TypeOK, PlaceInv, PipeInv, NEW t \in Contexts
  PROVE  ~IssueFailed(t) /\ ~Requeue(t)
<1>1. ASSUME IssueFailed(t) PROVE FALSE
  <2>1. pc[t] = "hif" /\ num_sends_allowed = 0
    BY <1>1 DEF IssueFailed
  <2>2. num_sends_allowed > 0
    BY <2>1, PipeRoom
  <2> QED
    BY <2>1, <2>2
<1>2. ASSUME Requeue(t) PROVE FALSE
  BY <1>2 DEF Requeue, PipeInv
<1> QED
  BY <1>1, <1>2

LEMMA StepQuiet ==
  ASSUME Provisioned, TypeOK, DrainInv, DrainInv', PlaceInv, PipeInv, CreditsConserved,
         QuietInv, NEW t \in Contexts, TrySendStep(t)
  PROVE  QuietInv'
<1>1. sendQ = [sendQ EXCEPT ![t] = sendQ[t]] /\ CreditFlow
  BY DEF TypeOK, Provisioned
<1>2. CASE CheckOverflow(t) \/ ReadResources(t) \/ CompleteLeftovers(t) \/ HTCSetNodropPkt(t)
  <2>1. PICK w \in {"cleanup", "resources", "enter", "idle", "clear", "recycle"} :
           pc' = [pc EXCEPT ![t] = w]
    BY <1>2, ReturnPlaces DEF CheckOverflow, ReadResources, CompleteLeftovers, HTCSetNodropPkt
  <2>2. PICK q : sendQ' = [sendQ EXCEPT ![t] = q]
    BY <1>1, <1>2 DEF CheckOverflow, ReadResources, CompleteLeftovers, HTCSetNodropPkt
  <2>3. pc[t] \in {"overflow", "resources", "cleanup", "clear"} /\ heldQuiet' = heldQuiet
    BY <1>2 DEF CheckOverflow, ReadResources, CompleteLeftovers, HTCSetNodropPkt, hifVars
  <2>4. Charged' = Charged
    BY <2>1, <2>2, <2>3, ChargedOther
  <2>5. PICK S : S \in {{}, Range(callers[t])} /\ needUpdate' = needUpdate \ S
    <3>1. CASE CompleteLeftovers(t)
      BY <3>1 DEF CompleteLeftovers, GiveBack
    <3>2. CASE ~CompleteLeftovers(t)
      <4>1. needUpdate' = needUpdate \ {}
        BY <1>2, <3>2 DEF CheckOverflow, ReadResources, HTCSetNodropPkt, pktVars
      <4> QED
        BY <4>1
    <3> QED
      BY <3>1, <3>2
  <2>6. Charged \cap S = {}
    BY <2>5, ChargedApart
  <2> QED
    BY <2>3, <2>4, <2>5, <2>6, QuietSame
<1>3. CASE EnterTrySend(t) /\ TxProcessCount > 0
  <2>1. /\ pc[t] = "enter" /\ pc' = [pc EXCEPT ![t] = ReturnPoint(t, callers[t])]
        /\ sendQ' = [sendQ EXCEPT ![t] = <<>>]
        /\ UNCHANGED <<needUpdate, heldQuiet>>
    BY <1>3 DEF EnterTrySend, hifVars
  <2>2. PICK w \in {"cleanup", "clear", "recycle", "idle"} : pc' = [pc EXCEPT ![t] = w]
    BY <2>1, ReturnPlaces
  <2>3. Charged' = Charged
    BY <2>1, <2>2, ChargedOther
  <2>4. needUpdate' = needUpdate \ {} /\ Charged \cap {} = {}
    BY <2>1
  <2> QED
    BY <2>1, <2>3, <2>4, QuietSame
<1>4. CASE EnterTrySend(t) /\ ~(TxProcessCount > 0)
  <2>1. DrainPass(t, Enqueued(t)) /\ UNCHANGED <<heldAsked, heldQuiet>>
    BY <1>4 DEF EnterTrySend, hifVars
  <2>2. Drainers = {}
    BY <1>4 DEF DrainInv, SingleDrainer
  <2>3. Charged = {} /\ Enqueued(t) \in Seq(Packets)
    BY <2>2, ChargedIs, EnqueuedFacts DEF PlaceInv
  <2> QED
    BY <1>1, <2>1, <2>2, <2>3, PassQuiet
<1>5. CASE DrainAgain(t)
  <2>1. pc[t] = "drain" /\ DrainPass(t, TxQueue) /\ UNCHANGED <<heldAsked, heldQuiet>>
    BY <1>5 DEF DrainAgain, hifVars
  <2>2. Drainers = {t} /\ sendQ[t] = <<>> /\ TxQueue \in Seq(Packets)
    BY <2>1, OnlyDrainer DEF PlaceInv, Hands, TypeOK
  <2>3. Charged = {}
    BY <2>1, <2>2, ChargedHere, EmptyFacts
  <2> QED
    BY <1>1, <2>1, <2>2, <2>3, PassQuiet
<1>6. CASE IssuePacket(t) \/ RefreshResources(t)
  <2>1. PICK w \in {"hif", "drain"} : pc' = [pc EXCEPT ![t] = w]
    BY <1>6 DEF IssuePacket, RefreshResources
  <2>2. pc[t] = "issue" /\ UNCHANGED <<sendQ, needUpdate, heldQuiet>>
    BY <1>6 DEF IssuePacket, RefreshResources, pktVars, hifVars
  <2>3. Charged = Range(sendQ[t]) /\ Charged' = Range(sendQ'[t])
    BY <2>1, <2>2, ChargedHere, ChargedThere
  <2>4. needUpdate' = needUpdate \ {} /\ Charged \cap {} = {} /\ Charged' = Charged
    BY <2>2, <2>3
  <2> QED
    BY <2>2, <2>4, QuietSame
<1>7. CASE HIFSend_head(t)
  BY <1>1, <1>7, HifSendQuiet
<1> QED
  BY <1>2, <1>3, <1>4, <1>5, <1>6, <1>7, NeverFails DEF TrySendStep

LEMMA NextQuiet ==
  ASSUME Provisioned, TypeOK, TypeOK', DrainInv, DrainInv', PlaceInv, PipeInv,
         CreditsConserved, QuietInv, [Next]_vars
  PROVE  QuietInv'
<1>1. Tasklet \in Contexts /\ \A t \in Contexts : sendQ = [sendQ EXCEPT ![t] = sendQ[t]]
  BY DEF TypeOK, Contexts
<1>2. ASSUME NEW t \in Threads, HTCSendPktsMultiple(t) PROVE QuietInv'
  <2>1. PICK w : w = "overflow"
    OBVIOUS
  <2>2. /\ t \in Contexts /\ pc[t] = "idle" /\ pc' = [pc EXCEPT ![t] = w]
        /\ UNCHANGED <<sendQ, needUpdate, heldQuiet>>
    BY <1>2, <2>1 DEF HTCSendPktsMultiple, hifVars, Contexts
  <2>3. Charged' = Charged
    BY <1>1, <2>1, <2>2, ChargedOther
  <2>4. needUpdate' = needUpdate \ {} /\ Charged \cap {} = {}
    BY <2>2
  <2> QED
    BY <2>2, <2>3, <2>4, QuietSame
<1>3. CASE HTCTxCompletionHandler \/ RecycleEntry
  <2>1. PICK w \in {"recycle", "resources", "idle"} : pc' = [pc EXCEPT ![Tasklet] = w]
    BY <1>3 DEF HTCTxCompletionHandler, RecycleEntry
  <2>2. pc[Tasklet] \in {"idle", "recycle"} /\ UNCHANGED <<sendQ, heldQuiet>>
    BY <1>3 DEF HTCTxCompletionHandler, RecycleEntry
  <2>3. Charged' = Charged
    BY <1>1, <2>1, <2>2, ChargedOther
  <2>4. PICK S : S \subseteq Range(ring) /\ needUpdate' = needUpdate \ S
    <3>1. CASE HTCTxCompletionHandler
      <4>1. ring # <<>> /\ ring \in Seq(Packets)
            /\ needUpdate' = needUpdate \ Found(Head(ring))
        BY <3>1 DEF HTCTxCompletionHandler, GiveBack, TypeOK
      <4>2. Found(Head(ring)) \subseteq Range(ring)
        BY <4>1, HeadAndTail DEF Found
      <4> QED
        BY <4>1, <4>2
    <3>2. CASE RecycleEntry
      <4>1. needUpdate' = needUpdate \ {}
        BY <3>2 DEF RecycleEntry, pktVars
      <4> QED
        BY <4>1
    <3> QED
      BY <1>3, <3>1, <3>2
  <2>5. Charged \cap S = {}
    BY <2>4, ChargedApart DEF Shared
  <2> QED
    BY <2>2, <2>3, <2>4, <2>5, QuietSame
<1>4. CASE CE_per_engine_servicereap \/ UNCHANGED vars \/ \E t \in Threads : HTCFlushEndpointTX(t)
  <2>1. UNCHANGED <<pc, sendQ, heldQuiet>>
    BY <1>4 DEF CE_per_engine_servicereap, HTCFlushEndpointTX, vars, ctxVars, hifVars
  <2>2. Charged' = Charged
    BY <2>1 DEF Charged, InHand, Drainers
  <2>3. PICK S : S \subseteq Shared /\ needUpdate' = needUpdate \ S
    <3>1. CASE CE_per_engine_servicereap
      <4>1. needUpdate' = needUpdate \ {Head(ring)} /\ ring # <<>> /\ ring \in Seq(Packets)
        BY <3>1 DEF CE_per_engine_servicereap, TypeOK
      <4>2. {Head(ring)} \subseteq Shared
        BY <4>1, HeadAndTail DEF Shared
      <4> QED
        BY <4>1, <4>2
    <3>2. CASE UNCHANGED vars
      <4>1. needUpdate' = needUpdate \ {}
        BY <3>2 DEF vars, pktVars
      <4> QED
        BY <4>1
    <3>3. CASE \E t \in Threads : HTCFlushEndpointTX(t)
      <4>1. needUpdate' = needUpdate \ Range(TxQueue)
        BY <3>3 DEF HTCFlushEndpointTX, GiveBack
      <4>2. Range(TxQueue) \subseteq Shared
        BY DEF Shared
      <4> QED
        BY <4>1, <4>2
    <3> QED
      BY <1>4, <3>1, <3>2, <3>3
  <2>4. Charged \cap S = {}
    BY <2>3, ChargedApart
  <2> QED
    BY <2>1, <2>2, <2>3, <2>4, QuietSame
<1>5. ASSUME NEW asked \in 0..TxAlloc, NEW quiet \in 0..TxAlloc, HTCProcessCreditRpt(asked, quiet)
      PROVE  QuietInv'
  <2>1. PICK w \in {"resources", "idle"} : pc' = [pc EXCEPT ![Tasklet] = w]
    BY <1>5 DEF HTCProcessCreditRpt
  <2>2. /\ pc[Tasklet] = "idle" /\ UNCHANGED <<sendQ, needUpdate>>
        /\ quiet <= heldQuiet /\ heldQuiet' = heldQuiet - quiet
    BY <1>5 DEF HTCProcessCreditRpt, pktVars
  <2>3. Charged' = Charged
    BY <1>1, <2>1, <2>2, ChargedOther
  <2>4. PICK c \in Nat : c = Credits(Charged \ needUpdate)
    BY QuietType
  <2>5. Quiet = heldQuiet + c /\ Quiet' = heldQuiet' + c
    BY <2>2, <2>3, <2>4, QuietNextIs DEF Quiet
  <2>6. heldQuiet \in Nat /\ heldQuiet' \in Nat /\ quiet \in Nat
    BY ConstantsAssumption DEF TypeOK
  <2>7. Quiet \in Nat /\ Quiet' \in Nat /\ Quiet' <= Quiet
    BY <2>2, <2>5, <2>6
  <2> QED
    BY <2>7, QuietLess
<1> QED
  BY <1>2, <1>3, <1>4, <1>5, StepQuiet DEF Next

LEMMA InitQuiet == Init => QuietInv
<1> SUFFICES ASSUME Init PROVE QuietInv
  OBVIOUS
<1>1. Charged = {}
  BY InitDrain, ChargedIs DEF Init, Drainers
<1>2. Credits(Charged \ needUpdate) = 0 /\ heldQuiet = 0
  BY <1>1, CreditsNone DEF Init
<1> QED
  BY <1>2 DEF QuietInv, Quiet

-----------------------------------------------------------------------------
(* Nobody leaves packets behind that could be sent.                        *)

(* A pass that takes nothing leaves too few credits for the first packet. *)
LEMMA PassNotices ==
  ASSUME CreditFlow, TypeOK, NEW t \in Contexts, NEW q \in Seq(Packets), DrainPass(t, q)
  PROVE  NoticedInv'
<1>1. PICK n \in 0..Len(q) :
        /\ Grabs(q, n, tx_resources[t])
        /\ TxQueue' = SubSeq(q, n + 1, Len(q))
        /\ TxCredits' = TxCredits - Credits(First(q, n))
        /\ pc' = [pc EXCEPT ![t] = IF n = 0 THEN ReturnPoint(t, callers[t]) ELSE "issue"]
  BY DEF DrainPass
<1>2. Len(q) \in Nat /\ n \in Nat /\ n <= Len(q)
  BY LenProperties
<1>3. CASE n # 0
  <2>1. t \in Drainers'
    BY <1>1, <1>3 DEF Drainers, TypeOK
  <2> QED
    BY <2>1 DEF NoticedInv
<1>4. CASE n = 0
  <2> SUFFICES ASSUME TxQueue' # <<>> PROVE Short'
    BY DEF NoticedInv
  <2>1. TxQueue' = q
    BY <1>1, <1>2, <1>4, SubSeqFull
  <2>2. q # <<>> /\ Len(q) >= 1 /\ Head(q) \in Packets /\ Head(q) = q[1]
    BY <2>1, HeadAndTail
  <2>3. 1 \in 0..Len(q) /\ ~(1 <= n)
    BY <1>2, <1>4, <2>2
  <2>4. ~Covered(q, 1, tx_resources[t])
    BY <1>1, <2>3 DEF Grabs
  <2>5. ~(Credits(First(q, 1)) <= TxCredits)
    BY <2>4 DEF Covered
  <2>6. First(q, 1) = {Head(q)}
    <3>1. /\ SubSeq(q, 1, 1) \in Seq(Packets) /\ Len(SubSeq(q, 1, 1)) = 1
          /\ \A i \in 1..1 : SubSeq(q, 1, 1)[i] = q[i]
      BY <2>2, CutInTwo
    <3>2. /\ \A i \in 1..1 : SubSeq(q, 1, 1)[i] \in First(q, 1)
          /\ \A x \in First(q, 1) : \E i \in 1..1 : SubSeq(q, 1, 1)[i] = x
      BY <3>1, RangeSeq DEF First
    <3> QED
      BY <2>2, <3>1, <3>2
  <2>7. Credits(First(q, 1)) = CreditsUsed(Head(q)) /\ CreditsUsed(Head(q)) \in Nat
    BY <2>2, <2>6, CreditsOne, CreditsUsedNat
  <2>8. First(q, n) = {}
    <3>1. SubSeq(q, 1, n) = <<>>
      BY <1>4, SubSeqEmpty
    <3> QED
      BY <3>1, EmptyFacts DEF First
  <2>9. TxCredits' = TxCredits - 0
    BY <1>1, <2>8, CreditsNone
  <2>10. TxCredits' < CreditsUsed(Head(q))
    BY <2>5, <2>7, <2>9 DEF TypeOK
  <2> QED
    BY <2>1, <2>10 DEF Short, CreditsUsed, CreditsRequired
<1> QED
  BY <1>3, <1>4

(* A step that keeps queue and credits, and lets nobody go. *)
LEMMA NoticedKept ==
  ASSUME NoticedInv, UNCHANGED <<TxQueue, TxCredits>>,
         Drainers \subseteq Drainers', Committed \subseteq Committed'
  PROVE  NoticedInv'
<1>1. Short' <=> Short
  BY DEF Short, CreditsUsed, CreditsRequired
<1> QED
  BY <1>1 DEF NoticedInv

LEMMA StepNotices ==
  ASSUME Provisioned, TypeOK, DrainInv, PlaceInv, PipeInv, NoticedInv, NEW t \in Contexts,
         TrySendStep(t)
  PROVE  NoticedInv'
<1>1. CreditFlow /\ pc \in [Contexts -> Places]
  BY DEF Provisioned, TypeOK
<1>2. CASE CheckOverflow(t) \/ ReadResources(t) \/ CompleteLeftovers(t) \/ HTCSetNodropPkt(t)
  <2>1. PICK w \in {"cleanup", "resources", "enter", "idle", "clear", "recycle"} :
           /\ pc' = [pc EXCEPT ![t] = w]
           /\ pc[t] = "resources" => w = "enter"
    BY <1>2, ReturnPlaces DEF CheckOverflow, ReadResources, CompleteLeftovers, HTCSetNodropPkt
  <2>2. /\ pc[t] \in {"overflow", "resources", "cleanup", "clear"}
        /\ UNCHANGED <<TxQueue, TxCredits>>
    BY <1>2 DEF CheckOverflow, ReadResources, CompleteLeftovers, HTCSetNodropPkt, epVars
  <2>3. Drainers \subseteq Drainers'
    BY <1>1, <2>1, <2>2 DEF Drainers
  <2>4. Committed \subseteq Committed'
    BY <1>1, <2>1, <2>2 DEF Committed
  <2> QED
    BY <2>2, <2>3, <2>4, NoticedKept
<1>3. CASE EnterTrySend(t) /\ TxProcessCount > 0
  <2>1. Drainers # {}
    BY <1>3 DEF DrainInv, SingleDrainer
  <2>2. pc[t] = "enter" /\ pc' = [pc EXCEPT ![t] = ReturnPoint(t, callers[t])]
    BY <1>3 DEF EnterTrySend
  <2>3. Drainers \subseteq Drainers'
    BY <1>1, <2>2 DEF Drainers
  <2> QED
    BY <2>1, <2>3 DEF NoticedInv
<1>4. CASE EnterTrySend(t) /\ ~(TxProcessCount > 0)
  <2>1. DrainPass(t, Enqueued(t)) /\ Enqueued(t) \in Seq(Packets)
    BY <1>4, EnqueuedFacts DEF EnterTrySend, PlaceInv
  <2> QED
    BY <1>1, <2>1, PassNotices
<1>5. CASE DrainAgain(t)
  <2>1. DrainPass(t, TxQueue) /\ TxQueue \in Seq(Packets)
    BY <1>5 DEF DrainAgain, TypeOK
  <2> QED
    BY <1>1, <2>1, PassNotices
<1>6. CASE IssuePacket(t) \/ RefreshResources(t) \/ HIFSend_head(t)
  <2>1. PICK w \in {"hif", "drain", "issue"} : pc' = [pc EXCEPT ![t] = w]
    BY <1>6 DEF IssuePacket, RefreshResources, HIFSend_head
  <2>2. t \in Drainers'
    BY <1>1, <2>1 DEF Drainers
  <2> QED
    BY <2>2 DEF NoticedInv
<1> QED
  BY <1>2, <1>3, <1>4, <1>5, <1>6, NeverFails DEF TrySendStep

LEMMA NextNotices ==
  ASSUME Provisioned, TypeOK, DrainInv, PlaceInv, PipeInv, CreditsConserved, NoticedInv,
         [Next]_vars
  PROVE  NoticedInv'
<1>1. CreditFlow /\ pc \in [Contexts -> Places] /\ Tasklet \in Contexts
  BY DEF Provisioned, TypeOK, Contexts
<1>2. ASSUME NEW t \in Threads, HTCSendPktsMultiple(t) PROVE NoticedInv'
  <2>1. /\ pc[t] = "idle" /\ pc' = [pc EXCEPT ![t] = "overflow"]
        /\ UNCHANGED <<TxQueue, TxCredits>>
    BY <1>2 DEF HTCSendPktsMultiple
  <2>2. Drainers \subseteq Drainers'
    BY <1>1, <2>1 DEF Drainers
  <2>3. Committed \subseteq Committed'
    BY <1>1, <2>1 DEF Committed
  <2> QED
    BY <2>1, <2>2, <2>3, NoticedKept
<1>3. CASE HTCTxCompletionHandler \/ RecycleEntry
  <2>1. PICK w : pc' = [pc EXCEPT ![Tasklet] = w]
    BY <1>3 DEF HTCTxCompletionHandler, RecycleEntry
  <2>2. pc[Tasklet] \in {"idle", "recycle"} /\ UNCHANGED <<TxQueue, TxCredits>>
    BY <1>3 DEF HTCTxCompletionHandler, RecycleEntry, epVars
  <2>3. Drainers \subseteq Drainers'
    BY <1>1, <2>1, <2>2 DEF Drainers
  <2>4. Committed \subseteq Committed'
    BY <1>1, <2>1, <2>2 DEF Committed
  <2> QED
    BY <2>2, <2>3, <2>4, NoticedKept
<1>4. CASE CE_per_engine_servicereap \/ UNCHANGED vars
  <2>1. UNCHANGED <<pc, TxQueue, TxCredits>>
    BY <1>4 DEF CE_per_engine_servicereap, vars, epVars, ctxVars
  <2> QED
    BY <2>1, NoticedKept DEF Drainers, Committed
<1>5. ASSUME NEW t \in Threads, HTCFlushEndpointTX(t) PROVE NoticedInv'
  BY <1>5 DEF HTCFlushEndpointTX, NoticedInv
<1>6. ASSUME NEW asked \in 0..TxAlloc, NEW quiet \in 0..TxAlloc, HTCProcessCreditRpt(asked, quiet)
      PROVE  NoticedInv'
  <2>1. /\ pc' = [pc EXCEPT ![Tasklet] =
                    IF TxCredits' # 0 /\ TxQueue # <<>> THEN "resources" ELSE "idle"]
        /\ TxCredits' = TxCredits + asked + quiet /\ asked + quiet > 0 /\ TxQueue' = TxQueue
    BY <1>6 DEF HTCProcessCreditRpt
  <2>2. TxCredits \in Int /\ TxCredits >= 0 /\ asked \in Nat /\ quiet \in Nat
    BY <1>1, ConservedIs, ConstantsAssumption DEF TypeOK
  <2>3. TxCredits' # 0
    BY <2>1, <2>2
  <2>4. TxQueue' # <<>> => Tasklet \in Committed'
    BY <1>1, <2>1, <2>3 DEF Committed
  <2> QED
    BY <2>4 DEF NoticedInv
<1> QED
  BY <1>2, <1>3, <1>4, <1>5, <1>6, StepNotices DEF Next

(* With no context at work, the credits do not cover the first packet, and *)
(* then some of the missing ones were asked back.                          *)
LEMMA WakeupFollows ==
  ASSUME Provisioned, TypeOK, DrainInv, CreditsConserved, QuietInv, NoticedInv
  PROVE  CreditWakeup
<1> SUFFICES ASSUME TxQueue # <<>>, Drainers = {}, Arriving = {}
             PROVE  TxCredits < CreditsRequired(Head(TxQueue)) /\ heldAsked > 0
  BY DEF CreditWakeup
<1>1. Committed = {}
  BY DEF Committed, Arriving
<1>2. TxCredits < CreditsUsed(Head(TxQueue))
  BY <1>1 DEF NoticedInv, Short
<1>3. Head(TxQueue) \in Packets
  BY HeadAndTail DEF TypeOK
<1>4. /\ CreditsUsed(Head(TxQueue)) = CreditsRequired(Head(TxQueue))
      /\ CreditsRequired(Head(TxQueue)) <= TxCreditsPerMaxMsg
      /\ CreditsUsed(Head(TxQueue)) \in Nat
  BY <1>3, CreditsUsedNat DEF CreditsUsed, Provisioned
<1>5. Charged = {}
  BY ChargedIs
<1>6. TxCredits + 0 + heldAsked + heldQuiet = TxAlloc
  BY <1>5, ConservedIs, CreditsNone DEF Provisioned
<1>7. Quiet = heldQuiet + 0
  <2>1. Charged \ needUpdate = {}
    BY <1>5
  <2> QED
    BY <2>1, CreditsNone DEF Quiet
<1>8. /\ TxCredits \in Int /\ heldAsked \in Nat /\ heldQuiet \in Nat
      /\ TxAlloc \in Nat /\ TxCreditsPerMaxMsg \in Nat /\ TxCreditsPerMaxMsg <= TxAlloc
  BY ConstantsAssumption DEF TypeOK, Provisioned
<1>9. heldQuiet = 0 \/ heldQuiet + TxCreditsPerMaxMsg < TxAlloc
  BY <1>7, <1>8 DEF QuietInv
<1> DEFINE c == CreditsUsed(Head(TxQueue))
<1>10. c \in Nat /\ TxCredits < c /\ c <= TxCreditsPerMaxMsg
  BY <1>2, <1>4
<1> HIDE DEF c
<1>11. heldAsked > 0
  BY <1>6, <1>8, <1>9, <1>10
<1> QED
  BY <1>2, <1>4, <1>11

(* No lost wakeup on a credit endpoint whose pipe cannot run full and      *)
(* whose messages the allocation covers: if packets wait and no context is *)
(* at work on the endpoint, the credits are short of the first packet and  *)
(* the target was asked to return some of those it holds.                  *)
THEOREM WakeupNeverLost ==
  ASSUME Provisioned
  PROVE  Spec => []CreditWakeup
<1> DEFINE Inv == PipeInv /\ QuietInv /\ NoticedInv
<1>1. Init => Inv
  <2>1. Init => NoticedInv
    BY DEF Init, NoticedInv
  <2> QED
    BY <2>1, InitPipe, InitQuiet
<1>2. ASSUME TypeInv, TypeInv', DrainInv, DrainInv', PlaceInv, CreditsConserved, Inv, [Next]_vars
      PROVE  Inv'
  <2>1. TypeOK /\ TypeOK'
    BY <1>2 DEF TypeInv
  <2>2. PipeInv /\ QuietInv /\ NoticedInv
    BY <1>2
  <2>3. PipeInv'
    BY <1>2, <2>1, <2>2, NextPipe
  <2>4. QuietInv'
    BY <1>2, <2>1, <2>2, NextQuiet
  <2>5. NoticedInv'
    BY <1>2, <2>1, <2>2, NextNotices
  <2> QED
    BY <2>3, <2>4, <2>5
<1>3. TypeInv /\ DrainInv /\ CreditsConserved /\ Inv => CreditWakeup
  BY WakeupFollows DEF TypeInv
<1>4. Spec => [](TypeInv /\ DrainInv /\ PlaceInv /\ CreditsConserved)
  BY Placed, NoCreditLeaks, PTL
<1> HIDE DEF Inv
<1>5. Spec => []Inv
  BY <1>1, <1>2, <1>4, PTL DEF Spec
<1> QED
  BY <1>3, <1>4, <1>5, PTL

=============================================================================
