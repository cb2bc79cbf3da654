------------------------ MODULE HTCSendPacketProofs -------------------------
(***************************************************************************)
(* What happens to the packets of an HTC endpoint, proved for any number   *)
(* of packets, contexts, credits and bus entries.                          *)
(*                                                                         *)
(* PlaceInv says where packets are.  Every queue holds a packet at most    *)
(* once (OnceEach), no two queues share one (Apart), and none is lost      *)
(* (Somewhere).  This is inductive together with what a context's position *)
(* says about its local queues (Hands) and with the agreement of           *)
(* TxLookupQueue and the bus (LookupInv): a completion gives back the      *)
(* packet it finds in TxLookupQueue, so a packet would be lost if that     *)
(* queue and the ring disagreed, and they would disagree if a packet could *)
(* be queued twice.                                                        *)
(***************************************************************************)
EXTENDS HTCSendProofs

(* What a context holds in its local queues, and what no context holds. *)
HeldBy(t) == Range(sendQ[t]) \cup Range(callers[t])
Shared == Range(TxQueue) \cup Range(ring) \cup client

OnceEach ==
    /\ IsInjective(TxQueue) /\ IsInjective(ring)
    /\ \A t \in Contexts : IsInjective(sendQ[t]) /\ IsInjective(callers[t])

Apart ==
    /\ Range(TxQueue) \cap Range(ring) = {}
    /\ Range(TxQueue) \cap client = {}
    /\ Range(ring) \cap client = {}
    /\ \A t \in Contexts : /\ Range(sendQ[t]) \cap Range(callers[t]) = {}
                           /\ HeldBy(t) \cap Shared = {}
    /\ \A t, u \in Contexts : t # u => HeldBy(t) \cap HeldBy(u) = {}

Somewhere == \A p \in Packets : p \in Shared \/ \E t \in Contexts : p \in HeldBy(t)

(* What a context's position says about its local queues. *)
Hands == \A t \in Contexts :
    /\ pc[t] \in {"idle", "overflow", "drain", "cleanup", "clear", "recycle"} =>
           sendQ[t] = <<>>
    /\ pc[t] \in {"idle", "clear", "recycle"} => callers[t] = <<>>
    /\ pc[t] \in {"hif", "requeue"} => sendQ[t] # <<>>

(* TxLookupQueue is the ring, and the packet being handed to it. *)
LookupInv == ~HttDataSvc =>
    /\ \A t \in Contexts : pc[t] = "hif" => TxLookupQueue = Append(ring, Head(sendQ[t]))
    /\ (\A t \in Contexts : pc[t] # "hif") => TxLookupQueue = ring

PlaceInv == OnceEach /\ Apart /\ Somewhere /\ Hands /\ LookupInv

-----------------------------------------------------------------------------
(* Queues without repetition.                                              *)

LEMMA InjectiveSeq ==
  ASSUME NEW q \in Seq(Packets)
  PROVE  IsInjective(q) <=> \A i, j \in 1..Len(q) : q[i] = q[j] => i = j
BY LenProperties DEF IsInjective

LEMMA RangeSeq ==
  ASSUME NEW q \in Seq(Packets)
  PROVE  /\ \A i \in 1..Len(q) : q[i] \in Range(q)
         /\ \A x \in Range(q) : \E i \in 1..Len(q) : q[i] = x
BY LenProperties DEF Range

LEMMA EmptyFacts == Range(<<>>) = {} /\ IsInjective(<<>>)
<1>1. <<>> \in Seq(Packets) /\ Len(<<>>) = 0
  BY EmptySeq
<1>2. DOMAIN <<>> = {}
  BY <1>1, LenProperties
<1> QED
  BY <1>2 DEF Range, IsInjective

LEMMA Concatenated ==
  ASSUME NEW a \in Seq(Packets), NEW b \in Seq(Packets)
  PROVE  /\ a \o b \in Seq(Packets)
         /\ Range(a \o b) = Range(a) \cup Range(b)
         /\ IsInjective(a) /\ IsInjective(b) /\ Range(a) \cap Range(b) = {}
              => IsInjective(a \o b)
<1>1. a \o b \in Seq(Packets)
  BY ConcatProperties
<1>2. Range(a \o b) = Range(a) \cup Range(b)
  BY RangeConcatenation
<1>3. ASSUME IsInjective(a), IsInjective(b), Range(a) \cap Range(b) = {}
      PROVE  IsInjective(a \o b)
  <2>1. Len(a) \in Nat /\ Len(b) \in Nat
    BY LenProperties
  <2>2. Len(a \o b) = Len(a) + Len(b)
    BY ConcatProperties
  <2>3. ASSUME NEW i \in 1..Len(a \o b), NEW j \in 1..Len(a \o b), (a \o b)[i] = (a \o b)[j]
        PROVE  i = j
    <3>1. /\ (a \o b)[i] = IF i <= Len(a) THEN a[i] ELSE b[i - Len(a)]
          /\ (a \o b)[j] = IF j <= Len(a) THEN a[j] ELSE b[j - Len(a)]
      BY <2>2, ConcatProperties
    <3>2. CASE i <= Len(a) /\ j <= Len(a)
      <4>1. i \in 1..Len(a) /\ j \in 1..Len(a)
        BY <2>1, <2>2, <3>2
      <4>2. a[i] = a[j]
        BY <2>3, <3>1, <3>2
      <4> QED
        BY <1>3, <4>1, <4>2, InjectiveSeq
    <3>3. CASE ~(i <= Len(a)) /\ ~(j <= Len(a))
      <4>1. i - Len(a) \in 1..Len(b) /\ j - Len(a) \in 1..Len(b)
        BY <2>1, <2>2, <3>3
      <4>2. b[i - Len(a)] = b[j - Len(a)]
        BY <2>3, <3>1, <3>3
      <4>3. i - Len(a) = j - Len(a)
        BY <1>3, <4>1, <4>2, InjectiveSeq
      <4> QED
        BY <2>1, <4>3
    <3>4. CASE i <= Len(a) /\ ~(j <= Len(a))
      <4>1. i \in 1..Len(a) /\ j - Len(a) \in 1..Len(b)
        BY <2>1, <2>2, <3>4
      <4>2. a[i] \in Range(a) /\ b[j - Len(a)] \in Range(b) /\ a[i] = b[j - Len(a)]
        BY <2>3, <3>1, <3>4, <4>1, RangeSeq
      <4> QED
        BY <1>3, <4>2
    <3>5. CASE ~(i <= Len(a)) /\ j <= Len(a)
      <4>1. j \in 1..Len(a) /\ i - Len(a) \in 1..Len(b)
        BY <2>1, <2>2, <3>5
      <4>2. a[j] \in Range(a) /\ b[i - Len(a)] \in Range(b) /\ a[j] = b[i - Len(a)]
        BY <2>3, <3>1, <3>5, <4>1, RangeSeq
      <4> QED
        BY <1>3, <4>2
    <3> QED
      BY <3>2, <3>3, <3>4, <3>5
  <2> QED
    BY <1>1, <2>3, InjectiveSeq
<1> QED
  BY <1>1, <1>2, <1>3

(* The first n packets of a queue and the rest. *)
LEMMA CutInTwo ==
  ASSUME NEW q \in Seq(Packets), NEW n \in Nat, n <= Len(q)
  PROVE  /\ SubSeq(q, 1, n) \in Seq(Packets) /\ SubSeq(q, n + 1, Len(q)) \in Seq(Packets)
         /\ SubSeq(q, 1, n) \o SubSeq(q, n + 1, Len(q)) = q
         /\ Len(SubSeq(q, 1, n)) = n
         /\ Len(SubSeq(q, n + 1, Len(q))) = Len(q) - n
         /\ \A i \in 1..n : SubSeq(q, 1, n)[i] = q[i]
         /\ \A i \in 1..(Len(q) - n) : SubSeq(q, n + 1, Len(q))[i] = q[n + i]
<1>1. Len(q) \in Nat
  BY LenProperties
<1>2. SubSeq(q, 1, n) \in Seq(Packets) /\ SubSeq(q, n + 1, Len(q)) \in Seq(Packets)
  BY <1>1, SubSeqType
<1>3. SubSeq(q, 1, n) \o SubSeq(q, n + 1, Len(q)) = SubSeq(q, 1, Len(q))
  <2>1. 1 \in 1..Len(q)+1 /\ n \in (1-1)..Len(q) /\ Len(q) \in n..Len(q)
    BY <1>1
  <2> QED
    BY <2>1, ConcatAdjacentSubSeq
<1>4. SubSeq(q, 1, Len(q)) = q
  BY SubSeqFull
<1>5. \A i \in 1..n : q[i] \in Packets
  BY <1>1, ElementOfSeq
<1>6. \A i \in (n + 1)..Len(q) : q[i] \in Packets
  BY <1>1, ElementOfSeq
<1>7. /\ Len(SubSeq(q, 1, n)) = n
      /\ \A i \in 1..n : SubSeq(q, 1, n)[i] = q[i]
  <2>1. Len(SubSeq(q, 1, n)) = IF 1 <= n THEN n - 1 + 1 ELSE 0
    BY <1>5, SubSeqProperties
  <2>2. \A i \in 1..n-1+1 : SubSeq(q, 1, n)[i] = q[1 + i - 1]
    BY <1>5, SubSeqProperties
  <2> QED
    BY <2>1, <2>2
<1>8. /\ Len(SubSeq(q, n + 1, Len(q))) = Len(q) - n
      /\ \A i \in 1..(Len(q) - n) : SubSeq(q, n + 1, Len(q))[i] = q[n + i]
  <2>1. n + 1 \in Int /\ Len(q) \in Int
    BY <1>1
  <2>2. Len(SubSeq(q, n + 1, Len(q))) = IF n + 1 <= Len(q) THEN Len(q) - (n + 1) + 1 ELSE 0
    BY <1>6, <2>1, SubSeqProperties
  <2>3. \A i \in 1..(Len(q) - (n + 1) + 1) : SubSeq(q, n + 1, Len(q))[i] = q[(n + 1) + i - 1]
    BY <1>6, <2>1, SubSeqProperties
  <2>4. Len(q) - (n + 1) + 1 = Len(q) - n
    BY <1>1
  <2>5. Len(SubSeq(q, n + 1, Len(q))) = Len(q) - n
    BY <1>1, <2>2
  <2>6. ASSUME NEW i \in 1..(Len(q) - n) PROVE SubSeq(q, n + 1, Len(q))[i] = q[n + i]
    <3>1. SubSeq(q, n + 1, Len(q))[i] = q[(n + 1) + i - 1]
      BY <2>3, <2>4, <2>6
    <3>2. (n + 1) + i - 1 = n + i
      BY <1>1, <2>6
    <3> QED
      BY <3>1, <3>2
  <2> QED
    BY <2>5, <2>6
<1> QED
  BY <1>2, <1>3, <1>4, <1>7, <1>8

LEMMA CutApart ==
  ASSUME NEW q \in Seq(Packets), NEW n \in Nat, n <= Len(q), IsInjective(q)
  PROVE  /\ IsInjective(SubSeq(q, 1, n)) /\ IsInjective(SubSeq(q, n + 1, Len(q)))
         /\ Range(SubSeq(q, 1, n)) \cup Range(SubSeq(q, n + 1, Len(q))) = Range(q)
         /\ Range(SubSeq(q, 1, n)) \cap Range(SubSeq(q, n + 1, Len(q))) = {}
<1> DEFINE a == SubSeq(q, 1, n)
           b == SubSeq(q, n + 1, Len(q))
<1>1. /\ a \in Seq(Packets) /\ b \in Seq(Packets) /\ a \o b = q
      /\ Len(a) = n /\ Len(b) = Len(q) - n
      /\ \A i \in 1..n : a[i] = q[i]
      /\ \A i \in 1..(Len(q) - n) : b[i] = q[n + i]
  BY CutInTwo
<1>2. Len(q) \in Nat
  BY LenProperties
<1> HIDE DEF a, b
<1>3. Range(a) \cup Range(b) = Range(q)
  BY <1>1, Concatenated
<1>4. IsInjective(a)
  <2>1. ASSUME NEW i \in 1..n, NEW j \in 1..n, a[i] = a[j] PROVE i = j
    <3>1. i \in 1..Len(q) /\ j \in 1..Len(q) /\ q[i] = q[j]
      BY <1>1, <1>2, <2>1
    <3> QED
      BY <3>1, InjectiveSeq
  <2> QED
    BY <1>1, <2>1, InjectiveSeq
<1>5. IsInjective(b)
  <2>1. ASSUME NEW i \in 1..(Len(q) - n), NEW j \in 1..(Len(q) - n), b[i] = b[j] PROVE i = j
    <3>1. q[n + i] = q[n + j] /\ n + i \in 1..Len(q) /\ n + j \in 1..Len(q)
      BY <1>1, <1>2, <2>1
    <3>2. n + i = n + j
      BY <3>1, InjectiveSeq
    <3> QED
      BY <3>2
  <2> QED
    BY <1>1, <2>1, InjectiveSeq
<1>6. ASSUME NEW x \in Range(a), x \in Range(b) PROVE FALSE
  <2>1. PICK i \in 1..n : a[i] = x
    BY <1>1, RangeSeq
  <2>2. PICK j \in 1..(Len(q) - n) : b[j] = x
    BY <1>1, <1>6, RangeSeq
  <2>3. q[i] = q[n + j] /\ i \in 1..Len(q) /\ n + j \in 1..Len(q)
    BY <1>1, <1>2, <2>1, <2>2
  <2>4. i = n + j
    BY <2>3, InjectiveSeq
  <2> QED
    BY <2>4
<1>7. Range(a) \cap Range(b) = {}
  BY <1>6
<1> QED
  BY <1>3, <1>4, <1>5, <1>7 DEF a, b

LEMMA HeadAndTail ==
  ASSUME NEW q \in Seq(Packets), q # <<>>
  PROVE  /\ Head(q) \in Packets /\ Tail(q) \in Seq(Packets)
         /\ Len(q) >= 1 /\ Head(q) = q[1]
         /\ Range(q) = {Head(q)} \cup Range(Tail(q))
         /\ IsInjective(q) => IsInjective(Tail(q)) /\ Head(q) \notin Range(Tail(q))
<1>1. /\ Head(q) \in Packets /\ Tail(q) \in Seq(Packets)
      /\ Len(Tail(q)) = Len(q) - 1
      /\ \A i \in 1..Len(Tail(q)) : Tail(q)[i] = q[i + 1]
  BY HeadTailProperties
<1>2. Len(q) \in Nat /\ Len(q) >= 1
  BY EmptySeq
<1>3. Head(q) = q[1]
  BY DEF Head
<1>4. Range(q) \subseteq {Head(q)} \cup Range(Tail(q))
  <2> SUFFICES ASSUME NEW x \in Range(q), x # Head(q) PROVE x \in Range(Tail(q))
    OBVIOUS
  <2>1. PICK i \in 1..Len(q) : q[i] = x
    BY RangeSeq
  <2>2. i - 1 \in 1..Len(Tail(q)) /\ (i - 1) + 1 = i
    BY <1>1, <1>2, <1>3, <2>1
  <2>3. Tail(q)[i - 1] = x
    BY <1>1, <2>1, <2>2
  <2> QED
    BY <1>1, <2>2, <2>3, RangeSeq
<1>5. {Head(q)} \cup Range(Tail(q)) \subseteq Range(q)
  <2>1. Head(q) \in Range(q)
    BY <1>2, <1>3, RangeSeq
  <2>2. ASSUME NEW x \in Range(Tail(q)) PROVE x \in Range(q)
    <3>1. PICK i \in 1..Len(Tail(q)) : Tail(q)[i] = x
      BY <1>1, RangeSeq
    <3>2. i + 1 \in 1..Len(q) /\ q[i + 1] = x
      BY <1>1, <1>2, <3>1
    <3> QED
      BY <3>2, RangeSeq
  <2> QED
    BY <2>1, <2>2
<1>6. ASSUME IsInjective(q) PROVE IsInjective(Tail(q)) /\ Head(q) \notin Range(Tail(q))
  <2>1. ASSUME NEW i \in 1..Len(Tail(q)), NEW j \in 1..Len(Tail(q)), Tail(q)[i] = Tail(q)[j]
        PROVE  i = j
    <3>1. i + 1 \in 1..Len(q) /\ j + 1 \in 1..Len(q) /\ q[i + 1] = q[j + 1]
      BY <1>1, <1>2, <2>1
    <3>2. i + 1 = j + 1
      BY <1>6, <3>1, InjectiveSeq
    <3> QED
      BY <3>2
  <2>2. IsInjective(Tail(q))
    BY <1>1, <2>1, InjectiveSeq
  <2>3. ASSUME Head(q) \in Range(Tail(q)) PROVE FALSE
    <3>1. PICK i \in 1..Len(Tail(q)) : Tail(q)[i] = Head(q)
      BY <1>1, <2>3, RangeSeq
    <3>2. i + 1 \in 1..Len(q) /\ 1 \in 1..Len(q) /\ q[i + 1] = q[1]
      BY <1>1, <1>2, <1>3, <3>1
    <3>3. i + 1 = 1
      BY <1>6, <3>2, InjectiveSeq
    <3> QED
      BY <3>3
  <2> QED
    BY <2>2, <2>3
<1> QED
  BY <1>1, <1>2, <1>3, <1>4, <1>5, <1>6

LEMMA Appended ==
  ASSUME NEW q \in Seq(Packets), NEW p \in Packets
  PROVE  /\ Append(q, p) \in Seq(Packets) /\ Append(q, p) = q \o <<p>>
         /\ Range(Append(q, p)) = Range(q) \cup {p}
         /\ IsInjective(q) /\ p \notin Range(q) => IsInjective(Append(q, p))
<1>1. <<p>> \in Seq(Packets) /\ Range(<<p>>) = {p} /\ IsInjective(<<p>>)
  <2>1. <<p>> \in Seq(Packets) /\ Len(<<p>>) = 1 /\ <<p>>[1] = p
    OBVIOUS
  <2>2. IsInjective(<<p>>)
    BY <2>1, InjectiveSeq
  <2>3. p \in Range(<<p>>)
    <3>1. 1 \in 1..Len(<<p>>)
      BY <2>1
    <3>2. <<p>>[1] \in Range(<<p>>)
      BY <2>1, <3>1, RangeSeq
    <3> QED
      BY <2>1, <3>2
  <2>4. ASSUME NEW x \in Range(<<p>>) PROVE x = p
    <3>1. PICK i \in 1..Len(<<p>>) : <<p>>[i] = x
      BY <2>1, RangeSeq
    <3> QED
      BY <2>1, <3>1
  <2>5. Range(<<p>>) = {p}
    BY <2>3, <2>4
  <2> QED
    BY <2>1, <2>2, <2>5
<1>2. Append(q, p) = q \o <<p>>
  BY AppendIsConcat
<1>3. p \notin Range(q) => Range(q) \cap Range(<<p>>) = {}
  BY <1>1
<1>4. /\ q \o <<p>> \in Seq(Packets)
      /\ Range(q \o <<p>>) = Range(q) \cup Range(<<p>>)
      /\ IsInjective(q) /\ IsInjective(<<p>>) /\ Range(q) \cap Range(<<p>>) = {}
           => IsInjective(q \o <<p>>)
  BY <1>1, Concatenated
<1> QED
  BY <1>1, <1>2, <1>3, <1>4

(* HTC_PACKET_REMOVE takes the only occurrence of a packet away. *)
LEMMA RemoveAt ==
  ASSUME NEW q \in Seq(Packets), IsInjective(q), NEW i \in 1..Len(q)
  PROVE  HTC_PACKET_REMOVE(q, q[i]) = SubSeq(q, 1, i - 1) \o SubSeq(q, i + 1, Len(q))
<1> DEFINE k == CHOOSE j \in DOMAIN q : q[j] = q[i]
<1>1. i \in DOMAIN q /\ q[i] \in Range(q)
  BY LenProperties, RangeSeq
<1>2. k \in DOMAIN q /\ q[k] = q[i]
  BY <1>1
<1>3. k = i
  BY <1>1, <1>2 DEF IsInjective
<1> QED
  BY <1>1, <1>3 DEF HTC_PACKET_REMOVE

LEMMA RemoveHead ==
  ASSUME NEW q \in Seq(Packets), IsInjective(q), q # <<>>
  PROVE  HTC_PACKET_REMOVE(q, Head(q)) = Tail(q)
<1>1. /\ Head(q) = q[1] /\ 1 \in 1..Len(q)
      /\ Tail(q) \in Seq(Packets) /\ Tail(q) = SubSeq(q, 2, Len(q))
  <2>1. Len(q) \in Nat
    BY LenProperties
  <2> QED
    BY <2>1, HeadAndTail, TailIsSubSeq
<1>2. HTC_PACKET_REMOVE(q, q[1]) = SubSeq(q, 1, 1 - 1) \o SubSeq(q, 1 + 1, Len(q))
  BY <1>1, RemoveAt
<1>3. SubSeq(q, 1, 1 - 1) = <<>>
  BY SubSeqEmpty
<1>4. SubSeq(q, 1 + 1, Len(q)) = Tail(q)
  BY <1>1
<1>5. <<>> \o Tail(q) = Tail(q)
  BY <1>1, ConcatEmptySeq
<1> QED
  BY <1>1, <1>2, <1>3, <1>4, <1>5

LEMMA RemoveLast ==
  ASSUME NEW q \in Seq(Packets), IsInjective(q), NEW p \in Packets, p \notin Range(q)
  PROVE  HTC_PACKET_REMOVE(Append(q, p), p) = q
<1> DEFINE a == Append(q, p)
<1>1. /\ a \in Seq(Packets) /\ IsInjective(a) /\ Len(a) = Len(q) + 1
      /\ a[Len(q) + 1] = p /\ a = q \o <<p>>
  BY Appended, AppendProperties
<1>2. Len(q) \in Nat /\ Len(q) + 1 \in 1..Len(a)
  BY <1>1, LenProperties
<1> HIDE DEF a
<1>3. PICK k \in 1..Len(a) : k = Len(q) + 1
  BY <1>2
<1>4. HTC_PACKET_REMOVE(a, p) = SubSeq(a, 1, k - 1) \o SubSeq(a, k + 1, Len(a))
  BY <1>1, <1>3, RemoveAt
<1>8. SubSeq(a, k + 1, Len(a)) = <<>>
  BY <1>1, <1>2, <1>3, SubSeqEmpty
<1>5. SubSeq(a, 1, Len(q)) = q
  <2>1. /\ SubSeq(a, 1, Len(q)) \in Seq(Packets) /\ Len(SubSeq(a, 1, Len(q))) = Len(q)
        /\ \A i \in 1..Len(q) : SubSeq(a, 1, Len(q))[i] = a[i]
    BY <1>1, <1>2, CutInTwo
  <2>2. \A i \in 1..Len(q) : a[i] = q[i]
    BY AppendProperties DEF a
  <2> QED
    BY <2>1, <2>2, SeqEqual
<1>6. k - 1 = Len(q)
  BY <1>2, <1>3
<1>7. q \o <<>> = q
  BY ConcatEmptySeq
<1> QED
  BY <1>4, <1>5, <1>6, <1>7, <1>8 DEF a

-----------------------------------------------------------------------------
(* Moving packets.                                                         *)

(* A step that redistributes packets among TxQueue, the ring, the client   *)
(* and the local queues of one context, without repeating or dropping one, *)
(* preserves OnceEach, Apart and Somewhere.                                *)
LEMMA Moved ==
  ASSUME TypeOK, OnceEach, Apart, Somewhere, NEW t \in Contexts, NEW s, NEW c,
         sendQ' = [sendQ EXCEPT ![t] = s], callers' = [callers EXCEPT ![t] = c],
         IsInjective(TxQueue'), IsInjective(ring'), IsInjective(s), IsInjective(c),
         Range(TxQueue') \cap Range(ring') = {}, Range(TxQueue') \cap client' = {},
         Range(ring') \cap client' = {}, Range(s) \cap Range(c) = {},
         (Range(s) \cup Range(c)) \cap (Range(TxQueue') \cup Range(ring') \cup client') = {},
         Range(TxQueue') \cup Range(ring') \cup client' \cup Range(s) \cup Range(c)
             = Shared \cup HeldBy(t)
  PROVE  OnceEach' /\ Apart' /\ Somewhere'
<1>1. /\ sendQ'[t] = s /\ callers'[t] = c
      /\ \A u \in Contexts : u # t => sendQ'[u] = sendQ[u] /\ callers'[u] = callers[u]
  BY DEF TypeOK
<1>2. OnceEach'
  BY <1>1 DEF OnceEach
<1> DEFINE Sh == Range(TxQueue') \cup Range(ring') \cup client'
           Ht == Range(s) \cup Range(c)
<1>3. HeldBy(t)' = Ht /\ \A u \in Contexts : u # t => HeldBy(u)' = HeldBy(u)
  BY <1>1 DEF HeldBy
<1>4. Shared' = Sh
  BY DEF Shared
<1>5. Sh \cup Ht = Shared \cup HeldBy(t) /\ Ht \cap Sh = {}
  OBVIOUS
<1> HIDE DEF Sh, Ht
<1>6. ASSUME NEW u \in Contexts, u # t PROVE HeldBy(u) \cap Sh = {} /\ HeldBy(u) \cap Ht = {}
  <2>1. HeldBy(u) \cap Shared = {} /\ HeldBy(u) \cap HeldBy(t) = {}
    BY <1>6 DEF Apart
  <2> QED
    BY <1>5, <2>1
<1>7. \A u \in Contexts : HeldBy(u)' \cap Shared' = {}
  BY <1>3, <1>4, <1>5, <1>6
<1>8. ASSUME NEW u \in Contexts, NEW v \in Contexts, u # v
      PROVE  HeldBy(u)' \cap HeldBy(v)' = {}
  <2>1. CASE u = t
    BY <1>3, <1>6, <1>8, <2>1
  <2>2. CASE v = t
    BY <1>3, <1>6, <1>8, <2>2
  <2>3. CASE u # t /\ v # t
    BY <1>3, <1>8, <2>3 DEF Apart
  <2> QED
    BY <2>1, <2>2, <2>3
<1>9. ASSUME NEW u \in Contexts PROVE Range(sendQ[u]') \cap Range(callers[u]') = {}
  BY <1>1 DEF Apart
<1>10. Apart'
  BY <1>7, <1>8, <1>9 DEF Apart
<1>11. ASSUME NEW p \in Packets PROVE p \in Shared' \/ \E u \in Contexts : p \in HeldBy(u)'
  <2>1. CASE p \in Shared \/ p \in HeldBy(t)
    BY <1>3, <1>4, <1>5, <2>1
  <2>2. CASE \E u \in Contexts : u # t /\ p \in HeldBy(u)
    BY <1>3, <2>2
  <2> QED
    BY <2>1, <2>2 DEF Somewhere
<1>12. Somewhere'
  BY <1>11 DEF Somewhere
<1> QED
  BY <1>2, <1>10, <1>12

(* What the invariant says about one context's queues. *)
LEMMA AtContext ==
  ASSUME TypeOK, OnceEach, Apart, NEW t \in Contexts
  PROVE  /\ sendQ[t] \in Seq(Packets) /\ callers[t] \in Seq(Packets)
         /\ TxQueue \in Seq(Packets) /\ ring \in Seq(Packets)
         /\ IsInjective(TxQueue) /\ IsInjective(ring)
         /\ IsInjective(sendQ[t]) /\ IsInjective(callers[t])
         /\ Range(TxQueue) \cap Range(ring) = {} /\ Range(TxQueue) \cap client = {}
         /\ Range(ring) \cap client = {} /\ Range(sendQ[t]) \cap Range(callers[t]) = {}
         /\ (Range(sendQ[t]) \cup Range(callers[t]))
                \cap (Range(TxQueue) \cup Range(ring) \cup client) = {}
         /\ Shared \cup HeldBy(t) = Range(TxQueue) \cup Range(ring) \cup client
                                     \cup Range(sendQ[t]) \cup Range(callers[t])
         /\ sendQ = [sendQ EXCEPT ![t] = sendQ[t]]
         /\ callers = [callers EXCEPT ![t] = callers[t]]
<1>1. sendQ \in [Contexts -> Seq(Packets)] /\ callers \in [Contexts -> Seq(Packets)]
  BY DEF TypeOK
<1>2. sendQ = [sendQ EXCEPT ![t] = sendQ[t]] /\ callers = [callers EXCEPT ![t] = callers[t]]
  BY <1>1
<1>3. TxQueue \in Seq(Packets) /\ ring \in Seq(Packets)
  BY DEF TypeOK
<1>4. Shared \cup HeldBy(t) = Range(TxQueue) \cup Range(ring) \cup client
                                     \cup Range(sendQ[t]) \cup Range(callers[t])
  BY DEF Shared, HeldBy
<1>5. (Range(sendQ[t]) \cup Range(callers[t]))
                \cap (Range(TxQueue) \cup Range(ring) \cup client) = {}
  BY DEF Apart, Shared, HeldBy
<1>6. /\ Range(TxQueue) \cap Range(ring) = {} /\ Range(TxQueue) \cap client = {}
      /\ Range(ring) \cap client = {} /\ Range(sendQ[t]) \cap Range(callers[t]) = {}
  BY DEF Apart
<1> QED
  BY <1>1, <1>2, <1>3, <1>4, <1>5, <1>6 DEF OnceEach

(* The positions and queues of one context change. *)
LEMMA HandsStep ==
  ASSUME TypeOK, Hands, NEW t \in Contexts, NEW w, NEW s, NEW c,
         pc' = [pc EXCEPT ![t] = w], sendQ' = [sendQ EXCEPT ![t] = s],
         callers' = [callers EXCEPT ![t] = c],
         w \in {"idle", "overflow", "drain", "cleanup", "clear", "recycle"} => s = <<>>,
         w \in {"idle", "clear", "recycle"} => c = <<>>,
         w \in {"hif", "requeue"} => s # <<>>
  PROVE  Hands'
<1>1. /\ pc'[t] = w /\ sendQ'[t] = s /\ callers'[t] = c
      /\ \A u \in Contexts : u # t => pc'[u] = pc[u] /\ sendQ'[u] = sendQ[u]
                                        /\ callers'[u] = callers[u]
  BY DEF TypeOK
<1> QED
  BY <1>1 DEF Hands

(* Steps of a context that is not handing a packet to the bus. *)
LEMMA LookupKept ==
  ASSUME TypeOK, LookupInv, NEW t \in Contexts, NEW w, NEW s, pc[t] # "hif", w # "hif",
         pc' = [pc EXCEPT ![t] = w], sendQ' = [sendQ EXCEPT ![t] = s],
         TxLookupQueue' = TxLookupQueue, ring' = ring
  PROVE  LookupInv'
<1>1. /\ pc'[t] = w
      /\ \A u \in Contexts : u # t => pc'[u] = pc[u] /\ sendQ'[u] = sendQ[u]
  BY DEF TypeOK
<1> QED
  BY <1>1 DEF LookupInv

(* Where HTCTrySend returns to agrees with what is left for the caller. *)
LEMMA ReturnHands ==
  ASSUME NEW t, NEW left
  PROVE  /\ ReturnPoint(t, left) \in {"cleanup", "clear", "recycle", "idle"}
         /\ ReturnPoint(t, left) \in {"idle", "clear", "recycle"} => left = <<>>
<1>1. left # <<>> => ReturnPoint(t, left) = "cleanup"
  BY DEF ReturnPoint
<1> QED
  BY <1>1, ReturnPlaces

-----------------------------------------------------------------------------
(* Where packets are, action by action.                                    *)

LEMMA InitPlace == Init => PlaceInv
<1> SUFFICES ASSUME Init PROVE PlaceInv
  OBVIOUS
<1>1. /\ TxQueue = <<>> /\ ring = <<>> /\ client = Packets /\ TxLookupQueue = <<>>
      /\ \A t \in Contexts : pc[t] = "idle" /\ sendQ[t] = <<>> /\ callers[t] = <<>>
  BY DEF Init
<1>2. OnceEach
  BY <1>1, EmptyFacts DEF OnceEach
<1>3. \A t \in Contexts : HeldBy(t) = {}
  BY <1>1, EmptyFacts DEF HeldBy
<1>4. Range(TxQueue) = {} /\ Range(ring) = {} /\ Shared = Packets
  BY <1>1, EmptyFacts DEF Shared
<1>5. \A t \in Contexts : Range(sendQ[t]) = {}
  BY <1>1, EmptyFacts
<1>6. Apart
  BY <1>3, <1>4, <1>5 DEF Apart
<1>7. Somewhere
  BY <1>4 DEF Somewhere
<1>8. Hands
  BY <1>1 DEF Hands
<1>9. LookupInv
  BY <1>1 DEF LookupInv
<1> QED
  BY <1>2, <1>6, <1>7, <1>8, <1>9 DEF PlaceInv

(* The position of a context is all that changes. *)
LEMMA PositionPlace ==
  ASSUME TypeOK, PlaceInv, NEW t \in Contexts, NEW w,
         pc' = [pc EXCEPT ![t] = w], pc[t] # "hif", w # "hif",
         w \in {"idle", "overflow", "drain", "cleanup", "clear", "recycle"} => sendQ[t] = <<>>,
         w \in {"idle", "clear", "recycle"} => callers[t] = <<>>,
         w = "requeue" => sendQ[t] # <<>>,
         UNCHANGED <<TxQueue, ring, client, sendQ, callers, TxLookupQueue>>
  PROVE  PlaceInv'
<1>1. sendQ' = [sendQ EXCEPT ![t] = sendQ[t]] /\ callers' = [callers EXCEPT ![t] = callers[t]]
  BY AtContext DEF PlaceInv
<1>2. OnceEach' /\ Apart' /\ Somewhere'
  BY DEF PlaceInv, OnceEach, Apart, Somewhere, Shared, HeldBy
<1>3. Hands'
  <2>1. w \in {"hif", "requeue"} => sendQ[t] # <<>>
    OBVIOUS
  <2>2. /\ pc'[t] = w /\ sendQ' = sendQ /\ callers' = callers
        /\ \A u \in Contexts : u # t => pc'[u] = pc[u]
    BY DEF TypeOK
  <2> QED
    BY <2>1, <2>2 DEF PlaceInv, Hands
<1>4. LookupInv'
  BY <1>1, LookupKept DEF PlaceInv
<1> QED
  BY <1>2, <1>3, <1>4 DEF PlaceInv

LEMMA ResourcesPlace ==
  ASSUME TypeOK, PlaceInv, NEW t \in Contexts, ReadResources(t) \/ RefreshResources(t)
  PROVE  PlaceInv'
<1>1. CASE ReadResources(t)
  <2>1. /\ pc' = [pc EXCEPT ![t] = "enter"] /\ pc[t] # "hif"
        /\ UNCHANGED <<TxQueue, ring, client, sendQ, callers, TxLookupQueue>>
    BY <1>1 DEF ReadResources, epVars, hifVars, pktVars
  <2> QED
    BY <2>1, PositionPlace
<1>2. CASE RefreshResources(t)
  <2>1. /\ pc' = [pc EXCEPT ![t] = "drain"] /\ pc[t] # "hif" /\ sendQ[t] = <<>>
        /\ UNCHANGED <<TxQueue, ring, client, sendQ, callers, TxLookupQueue>>
    BY <1>2 DEF RefreshResources, epVars, hifVars, pktVars
  <2> QED
    BY <2>1, PositionPlace
<1> QED
  BY <1>1, <1>2

LEMMA NodropPlace ==
  ASSUME TypeOK, PlaceInv, NEW t \in Contexts, HTCSetNodropPkt(t)
  PROVE  PlaceInv'
<1>1. /\ pc' = [pc EXCEPT ![t] = "idle"] /\ pc[t] = "clear"
      /\ UNCHANGED <<TxQueue, ring, client, sendQ, callers, TxLookupQueue>>
  BY DEF HTCSetNodropPkt, hifVars, pktVars
<1>2. sendQ[t] = <<>> /\ callers[t] = <<>>
  BY <1>1 DEF PlaceInv, Hands
<1> QED
  BY <1>1, <1>2, PositionPlace

LEMMA RecyclePlace ==
  ASSUME TypeOK, PlaceInv, RecycleEntry
  PROVE  PlaceInv'
<1>1. /\ pc' = [pc EXCEPT ![Tasklet] = "idle"] /\ pc[Tasklet] = "recycle"
      /\ UNCHANGED <<TxQueue, ring, client, sendQ, callers, TxLookupQueue>>
  BY DEF RecycleEntry, epVars, hifVars, pktVars
<1>2. Tasklet \in Contexts
  BY DEF Contexts
<1>3. sendQ[Tasklet] = <<>> /\ callers[Tasklet] = <<>>
  BY <1>1, <1>2 DEF PlaceInv, Hands
<1> QED
  BY <1>1, <1>2, <1>3, PositionPlace

LEMMA CreditRptPlace ==
  ASSUME TypeOK, PlaceInv, NEW asked, NEW quiet, HTCProcessCreditRpt(asked, quiet)
  PROVE  PlaceInv'
<1>1. PICK w \in {"resources", "idle"} : pc' = [pc EXCEPT ![Tasklet] = w]
  BY DEF HTCProcessCreditRpt
<1>2. /\ pc[Tasklet] = "idle"
      /\ UNCHANGED <<TxQueue, ring, client, sendQ, callers, TxLookupQueue>>
  BY DEF HTCProcessCreditRpt, pktVars
<1>3. Tasklet \in Contexts
  BY DEF Contexts
<1>4. sendQ[Tasklet] = <<>> /\ callers[Tasklet] = <<>>
  BY <1>2, <1>3 DEF PlaceInv, Hands
<1> QED
  BY <1>1, <1>2, <1>3, <1>4, PositionPlace

LEMMA SendPlace ==
  ASSUME TypeOK, PlaceInv, NEW t \in Threads, HTCSendPktsMultiple(t)
  PROVE  PlaceInv'
<1>1. PICK s \in Batches :
        /\ client' = client \ Range(s)
        /\ callers' = [callers EXCEPT ![t] = s]
        /\ pc' = [pc EXCEPT ![t] = "overflow"]
        /\ UNCHANGED <<TxQueue, TxLookupQueue, sendQ, ring>>
  BY DEF HTCSendPktsMultiple, hifVars
<1>2. t \in Contexts /\ pc[t] = "idle"
  BY DEF Contexts, HTCSendPktsMultiple
<1>3. sendQ[t] = <<>> /\ callers[t] = <<>>
  BY <1>2 DEF PlaceInv, Hands
<1>4. IsInjective(s) /\ Range(s) \subseteq client
  BY DEF Batches, Range
<1>5. sendQ' = [sendQ EXCEPT ![t] = sendQ[t]]
  BY <1>1, <1>2, AtContext DEF PlaceInv
<1>6. Range(sendQ[t]) = {} /\ Range(callers[t]) = {}
  BY <1>3, EmptyFacts
<1>7. OnceEach' /\ Apart' /\ Somewhere'
  <2>1. OnceEach /\ Apart /\ Somewhere
    BY DEF PlaceInv
  <2>2. /\ IsInjective(TxQueue) /\ IsInjective(ring) /\ IsInjective(sendQ[t])
        /\ Range(TxQueue) \cap Range(ring) = {} /\ Range(TxQueue) \cap client = {}
        /\ Range(ring) \cap client = {}
        /\ Shared \cup HeldBy(t) = Range(TxQueue) \cup Range(ring) \cup client
                                     \cup Range(sendQ[t]) \cup Range(callers[t])
    BY <1>2, <2>1, AtContext
  <2>3. TxQueue' = TxQueue /\ ring' = ring /\ client' = client \ Range(s)
    BY <1>1
  <2>4. /\ Range(TxQueue') \cap Range(ring') = {} /\ Range(TxQueue') \cap client' = {}
        /\ Range(ring') \cap client' = {} /\ Range(sendQ[t]) \cap Range(s) = {}
        /\ (Range(sendQ[t]) \cup Range(s))
              \cap (Range(TxQueue') \cup Range(ring') \cup client') = {}
        /\ Range(TxQueue') \cup Range(ring') \cup client' \cup Range(sendQ[t]) \cup Range(s)
             = Shared \cup HeldBy(t)
    BY <1>4, <1>6, <2>2, <2>3
  <2> QED
    BY <1>1, <1>2, <1>4, <1>5, <2>1, <2>2, <2>3, <2>4, Moved
<1>8. Hands'
  BY <1>1, <1>2, <1>3, <1>5, HandsStep DEF PlaceInv
<1>9. LookupInv'
  BY <1>1, <1>2, <1>5, LookupKept DEF PlaceInv
<1> QED
  BY <1>7, <1>8, <1>9 DEF PlaceInv

(* CheckOverflow splits the caller's queue: what goes on and what is left. *)
Taken(t) == IF Overflow(t) > 0 /\ EpSendFull = "DROP"
            THEN SubSeq(callers[t], 1, Len(callers[t]) - Overflow(t)) ELSE callers[t]
Left(t) == IF Taken(t) = callers[t] THEN <<>>
           ELSE SubSeq(callers[t], Len(callers[t]) - Overflow(t) + 1, Len(callers[t]))

LEMMA OverflowRange ==
  ASSUME TypeOK, NEW t \in Contexts
  PROVE  /\ Overflow(t) \in Int /\ Len(callers[t]) \in Nat
         /\ Overflow(t) <= Len(callers[t])
<1>1. Len(callers[t]) \in Nat /\ Len(TxQueue) \in Nat /\ MaxTxQueueDepth \in Nat
  BY LenProperties, ConstantsAssumption DEF TypeOK
<1> QED
  BY <1>1 DEF Overflow

LEMMA TakenAndLeft ==
  ASSUME TypeOK, NEW t \in Contexts, IsInjective(callers[t])
  PROVE  /\ Taken(t) \in Seq(Packets) /\ Left(t) \in Seq(Packets)
         /\ IsInjective(Taken(t)) /\ IsInjective(Left(t))
         /\ Range(Taken(t)) \cup Range(Left(t)) = Range(callers[t])
         /\ Range(Taken(t)) \cap Range(Left(t)) = {}
<1>1. callers[t] \in Seq(Packets)
  BY DEF TypeOK
<1>2. CASE Overflow(t) > 0 /\ EpSendFull = "DROP"
  <2> DEFINE n == Len(callers[t]) - Overflow(t)
  <2>1. n \in Nat /\ n < Len(callers[t]) /\ Len(callers[t]) \in Nat
    BY <1>2, OverflowRange
  <2>2. Taken(t) = SubSeq(callers[t], 1, n)
    BY <1>2 DEF Taken
  <2> HIDE DEF n
  <2>3. Len(SubSeq(callers[t], 1, n)) = n
    BY <1>1, <2>1, CutInTwo
  <2>4. Taken(t) # callers[t]
    BY <2>1, <2>2, <2>3
  <2>5. Left(t) = SubSeq(callers[t], n + 1, Len(callers[t]))
    BY <2>4 DEF Left, n
  <2> QED
    BY <1>1, <2>1, <2>2, <2>5, CutInTwo, CutApart
<1>3. CASE ~(Overflow(t) > 0 /\ EpSendFull = "DROP")
  <2>1. Taken(t) = callers[t] /\ Left(t) = <<>>
    BY <1>3 DEF Taken, Left
  <2> QED
    BY <1>1, <2>1, EmptyFacts, EmptySeq
<1> QED
  BY <1>2, <1>3

LEMMA OverflowPlace ==
  ASSUME TypeOK, PlaceInv, NEW t \in Contexts, CheckOverflow(t)
  PROVE  PlaceInv'
<1>1. /\ pc[t] = "overflow"
      /\ sendQ' = [sendQ EXCEPT ![t] = Taken(t)]
      /\ callers' = [callers EXCEPT ![t] = Left(t)]
      /\ pc' = [pc EXCEPT ![t] = IF Taken(t) = <<>> THEN "cleanup" ELSE "resources"]
      /\ UNCHANGED <<TxQueue, TxLookupQueue, client, ring>>
  BY DEF CheckOverflow, Taken, Left, epVars, hifVars
<1>2. sendQ[t] = <<>>
  BY <1>1 DEF PlaceInv, Hands
<1>3. Range(sendQ[t]) = {}
  BY <1>2, EmptyFacts
<1>4. OnceEach /\ Apart /\ Somewhere
  BY DEF PlaceInv
<1>5. /\ IsInjective(TxQueue) /\ IsInjective(ring) /\ IsInjective(callers[t])
      /\ Range(TxQueue) \cap Range(ring) = {} /\ Range(TxQueue) \cap client = {}
      /\ Range(ring) \cap client = {}
      /\ (Range(sendQ[t]) \cup Range(callers[t]))
             \cap (Range(TxQueue) \cup Range(ring) \cup client) = {}
      /\ Shared \cup HeldBy(t) = Range(TxQueue) \cup Range(ring) \cup client
                                   \cup Range(sendQ[t]) \cup Range(callers[t])
  BY <1>4, AtContext
<1>6. /\ IsInjective(Taken(t)) /\ IsInjective(Left(t))
      /\ Range(Taken(t)) \cup Range(Left(t)) = Range(callers[t])
      /\ Range(Taken(t)) \cap Range(Left(t)) = {}
  BY <1>5, TakenAndLeft
<1>7. TxQueue' = TxQueue /\ ring' = ring /\ client' = client
  BY <1>1
<1>8. OnceEach' /\ Apart' /\ Somewhere'
  <2>1. /\ (Range(Taken(t)) \cup Range(Left(t)))
              \cap (Range(TxQueue') \cup Range(ring') \cup client') = {}
        /\ Range(TxQueue') \cup Range(ring') \cup client'
              \cup Range(Taken(t)) \cup Range(Left(t)) = Shared \cup HeldBy(t)
    BY <1>3, <1>5, <1>6, <1>7
  <2> QED
    BY <1>1, <1>4, <1>5, <1>6, <1>7, <2>1, Moved
<1>9. PICK w \in {"cleanup", "resources"} : /\ pc' = [pc EXCEPT ![t] = w]
                                            /\ w = "cleanup" => Taken(t) = <<>>
  BY <1>1
<1>10. Hands'
  BY <1>1, <1>9, HandsStep DEF PlaceInv
<1>11. LookupInv'
  BY <1>1, <1>9, LookupKept DEF PlaceInv
<1> QED
  BY <1>8, <1>10, <1>11 DEF PlaceInv

(* The lock of HTCTrySend: queue q, all that waited and all the context    *)
(* brought, is cut into what is sent now and what waits on.                *)
LEMMA PassPlace ==
  ASSUME TypeOK, PlaceInv, NEW t \in Contexts, pc[t] # "hif",
         NEW q \in Seq(Packets), IsInjective(q),
         Range(q) = Range(TxQueue) \cup Range(sendQ[t]), DrainPass(t, q),
         UNCHANGED <<TxLookupQueue, callers, client, ring>>
  PROVE  PlaceInv'
<1>1. PICK n \in 0..Len(q) :
        /\ TxQueue' = SubSeq(q, n + 1, Len(q))
        /\ sendQ' = [sendQ EXCEPT ![t] = SubSeq(q, 1, n)]
        /\ pc' = [pc EXCEPT ![t] = IF n = 0 THEN ReturnPoint(t, callers[t]) ELSE "issue"]
  BY DEF DrainPass
<1>2. Len(q) \in Nat /\ n \in Nat /\ n <= Len(q)
  BY LenProperties
<1> DEFINE a == SubSeq(q, 1, n)
           b == SubSeq(q, n + 1, Len(q))
<1>3. /\ IsInjective(a) /\ IsInjective(b)
      /\ Range(a) \cup Range(b) = Range(q) /\ Range(a) \cap Range(b) = {}
  BY <1>2, CutApart
<1>4. n = 0 => a = <<>>
  BY SubSeqEmpty
<1>5. sendQ' = [sendQ EXCEPT ![t] = a] /\ TxQueue' = b
  BY <1>1
<1> HIDE DEF a, b
<1>6. OnceEach /\ Apart /\ Somewhere
  BY DEF PlaceInv
<1>7. /\ IsInjective(ring) /\ IsInjective(callers[t])
      /\ Range(TxQueue) \cap Range(ring) = {} /\ Range(TxQueue) \cap client = {}
      /\ Range(ring) \cap client = {} /\ Range(sendQ[t]) \cap Range(callers[t]) = {}
      /\ (Range(sendQ[t]) \cup Range(callers[t]))
             \cap (Range(TxQueue) \cup Range(ring) \cup client) = {}
      /\ Shared \cup HeldBy(t) = Range(TxQueue) \cup Range(ring) \cup client
                                   \cup Range(sendQ[t]) \cup Range(callers[t])
      /\ callers = [callers EXCEPT ![t] = callers[t]]
  BY <1>6, AtContext
<1>8. ring' = ring /\ client' = client /\ callers' = [callers EXCEPT ![t] = callers[t]]
  BY <1>7
<1>9. /\ Range(TxQueue') \cap Range(ring') = {} /\ Range(TxQueue') \cap client' = {}
      /\ Range(ring') \cap client' = {} /\ Range(a) \cap Range(callers[t]) = {}
      /\ (Range(a) \cup Range(callers[t]))
            \cap (Range(TxQueue') \cup Range(ring') \cup client') = {}
      /\ Range(TxQueue') \cup Range(ring') \cup client' \cup Range(a) \cup Range(callers[t])
            = Shared \cup HeldBy(t)
  BY <1>3, <1>5, <1>7, <1>8
<1>10. OnceEach' /\ Apart' /\ Somewhere'
  BY <1>3, <1>5, <1>6, <1>7, <1>8, <1>9, Moved
<1> DEFINE w == IF n = 0 THEN ReturnPoint(t, callers[t]) ELSE "issue"
<1>11. /\ pc' = [pc EXCEPT ![t] = w]
       /\ w \in {"cleanup", "clear", "recycle", "idle", "issue"}
       /\ w \in {"idle", "clear", "recycle"} => callers[t] = <<>>
       /\ w # "issue" => a = <<>>
  BY <1>1, <1>4, ReturnHands
<1> HIDE DEF w
<1>12. Hands'
  BY <1>5, <1>8, <1>11, HandsStep DEF PlaceInv
<1>13. LookupInv'
  BY <1>5, <1>11, LookupKept DEF PlaceInv
<1> QED
  BY <1>10, <1>12, <1>13 DEF PlaceInv

(* The context's batch, in front of TxQueue or behind it. *)
LEMMA EnqueuedFacts ==
  ASSUME TypeOK, OnceEach, Apart, NEW t \in Contexts
  PROVE  /\ Enqueued(t) \in Seq(Packets) /\ IsInjective(Enqueued(t))
         /\ Range(Enqueued(t)) = Range(TxQueue) \cup Range(sendQ[t])
<1>1. /\ sendQ[t] \in Seq(Packets) /\ TxQueue \in Seq(Packets)
      /\ IsInjective(TxQueue) /\ IsInjective(sendQ[t])
      /\ (Range(sendQ[t]) \cup Range(callers[t]))
             \cap (Range(TxQueue) \cup Range(ring) \cup client) = {}
  BY AtContext
<1>2. Range(sendQ[t]) \cap Range(TxQueue) = {} /\ Range(TxQueue) \cap Range(sendQ[t]) = {}
  BY <1>1
<1>3. CASE is_nodrop_pkt
  <2>1. Enqueued(t) = sendQ[t] \o TxQueue
    BY <1>3 DEF Enqueued
  <2>2. /\ sendQ[t] \o TxQueue \in Seq(Packets) /\ IsInjective(sendQ[t] \o TxQueue)
        /\ Range(sendQ[t] \o TxQueue) = Range(sendQ[t]) \cup Range(TxQueue)
    BY <1>1, <1>2, Concatenated
  <2> QED
    BY <2>1, <2>2
<1>4. CASE ~is_nodrop_pkt
  <2>1. Enqueued(t) = TxQueue \o sendQ[t]
    BY <1>4 DEF Enqueued
  <2>2. /\ TxQueue \o sendQ[t] \in Seq(Packets) /\ IsInjective(TxQueue \o sendQ[t])
        /\ Range(TxQueue \o sendQ[t]) = Range(TxQueue) \cup Range(sendQ[t])
    BY <1>1, <1>2, Concatenated
  <2> QED
    BY <2>1, <2>2
<1> QED
  BY <1>3, <1>4

(* The context hands its batch to TxQueue and returns. *)
LEMMA HandOver ==
  ASSUME TypeOK, PlaceInv, NEW t \in Contexts, pc[t] # "hif",
         IsInjective(TxQueue'), Range(TxQueue') = Range(TxQueue) \cup Range(sendQ[t]),
         sendQ' = [sendQ EXCEPT ![t] = <<>>],
         pc' = [pc EXCEPT ![t] = ReturnPoint(t, callers[t])],
         UNCHANGED <<TxLookupQueue, callers, client, ring>>
  PROVE  PlaceInv'
<1>1. OnceEach /\ Apart /\ Somewhere
  BY DEF PlaceInv
<1>2. /\ IsInjective(ring) /\ IsInjective(callers[t])
      /\ Range(TxQueue) \cap Range(ring) = {} /\ Range(TxQueue) \cap client = {}
      /\ Range(ring) \cap client = {} /\ Range(sendQ[t]) \cap Range(callers[t]) = {}
      /\ (Range(sendQ[t]) \cup Range(callers[t]))
             \cap (Range(TxQueue) \cup Range(ring) \cup client) = {}
      /\ Shared \cup HeldBy(t) = Range(TxQueue) \cup Range(ring) \cup client
                                   \cup Range(sendQ[t]) \cup Range(callers[t])
      /\ callers = [callers EXCEPT ![t] = callers[t]]
  BY <1>1, AtContext
<1>3. ring' = ring /\ client' = client /\ callers' = [callers EXCEPT ![t] = callers[t]]
  BY <1>2
<1>4. IsInjective(<<>>) /\ Range(<<>>) = {}
  BY EmptyFacts
<1>5. /\ Range(TxQueue') \cap Range(ring') = {} /\ Range(TxQueue') \cap client' = {}
      /\ Range(ring') \cap client' = {} /\ Range(<<>>) \cap Range(callers[t]) = {}
      /\ (Range(<<>>) \cup Range(callers[t]))
            \cap (Range(TxQueue') \cup Range(ring') \cup client') = {}
      /\ Range(TxQueue') \cup Range(ring') \cup client' \cup Range(<<>>) \cup Range(callers[t])
            = Shared \cup HeldBy(t)
  BY <1>2, <1>3, <1>4
<1>6. OnceEach' /\ Apart' /\ Somewhere'
  BY <1>1, <1>2, <1>3, <1>4, <1>5, Moved
<1> DEFINE w == ReturnPoint(t, callers[t])
<1>7. /\ pc' = [pc EXCEPT ![t] = w]
      /\ w \in {"cleanup", "clear", "recycle", "idle"}
      /\ w \in {"idle", "clear", "recycle"} => callers[t] = <<>>
  BY ReturnHands
<1> HIDE DEF w
<1>8. Hands'
  BY <1>3, <1>7, HandsStep DEF PlaceInv
<1>9. LookupInv'
  BY <1>7, LookupKept DEF PlaceInv
<1> QED
  BY <1>6, <1>8, <1>9 DEF PlaceInv

LEMMA EnterPlace ==
  ASSUME TypeOK, PlaceInv, NEW t \in Contexts, EnterTrySend(t)
  PROVE  PlaceInv'
<1>1. /\ pc[t] # "hif"
      /\ UNCHANGED <<TxLookupQueue, callers, client, ring>>
  BY DEF EnterTrySend, hifVars
<1>2. /\ Enqueued(t) \in Seq(Packets) /\ IsInjective(Enqueued(t))
      /\ Range(Enqueued(t)) = Range(TxQueue) \cup Range(sendQ[t])
  BY EnqueuedFacts DEF PlaceInv
<1>3. CASE TxProcessCount > 0
  <2>1. /\ TxQueue' = Enqueued(t)
        /\ sendQ' = [sendQ EXCEPT ![t] = <<>>]
        /\ pc' = [pc EXCEPT ![t] = ReturnPoint(t, callers[t])]
    BY <1>3 DEF EnterTrySend
  <2> QED
    BY <1>1, <1>2, <2>1, HandOver
<1>4. CASE ~(TxProcessCount > 0)
  <2>1. DrainPass(t, Enqueued(t))
    BY <1>4 DEF EnterTrySend
  <2> QED
    BY <1>1, <1>2, <2>1, PassPlace
<1> QED
  BY <1>3, <1>4

LEMMA DrainAgainPlace ==
  ASSUME TypeOK, PlaceInv, NEW t \in Contexts, DrainAgain(t)
  PROVE  PlaceInv'
<1>1. /\ pc[t] = "drain" /\ DrainPass(t, TxQueue)
      /\ UNCHANGED <<TxLookupQueue, callers, client, ring>>
  BY DEF DrainAgain, hifVars
<1>2. sendQ[t] = <<>>
  BY <1>1 DEF PlaceInv, Hands
<1>3. Range(TxQueue) = Range(TxQueue) \cup Range(sendQ[t])
  BY <1>2, EmptyFacts
<1>4. TxQueue \in Seq(Packets) /\ IsInjective(TxQueue)
  BY DEF TypeOK, PlaceInv, OnceEach
<1> QED
  BY <1>1, <1>3, <1>4, PassPlace

LEMMA RequeuePlace ==
  ASSUME TypeOK, PlaceInv, NEW t \in Contexts, Requeue(t)
  PROVE  PlaceInv'
<1>1. /\ pc[t] # "hif" /\ TxQueue' = sendQ[t] \o TxQueue
      /\ sendQ' = [sendQ EXCEPT ![t] = <<>>]
      /\ pc' = [pc EXCEPT ![t] = ReturnPoint(t, callers[t])]
      /\ UNCHANGED <<TxLookupQueue, callers, client, ring>>
  BY DEF Requeue, hifVars, pktVars
<1>2. /\ sendQ[t] \in Seq(Packets) /\ TxQueue \in Seq(Packets)
      /\ IsInjective(TxQueue) /\ IsInjective(sendQ[t])
      /\ (Range(sendQ[t]) \cup Range(callers[t]))
             \cap (Range(TxQueue) \cup Range(ring) \cup client) = {}
  BY AtContext DEF PlaceInv
<1>3. Range(sendQ[t]) \cap Range(TxQueue) = {}
  BY <1>2
<1>4. /\ IsInjective(sendQ[t] \o TxQueue)
      /\ Range(sendQ[t] \o TxQueue) = Range(sendQ[t]) \cup Range(TxQueue)
  BY <1>2, <1>3, Concatenated
<1>5. IsInjective(TxQueue') /\ Range(TxQueue') = Range(TxQueue) \cup Range(sendQ[t])
  BY <1>1, <1>4
<1> QED
  BY <1>1, <1>5, HandOver

(* Nobody but the drainer is at "hif". *)
LEMMA NoOtherHif ==
  ASSUME DrainInv, NEW t \in Contexts, pc[t] \in {"issue", "hif", "requeue", "drain"}
  PROVE  \A u \in Contexts : u # t => pc[u] # "hif"
BY OnlyDrainer DEF Drainers

LEMMA IssuePlace ==
  ASSUME TypeOK, DrainInv, PlaceInv, NEW t \in Contexts, IssuePacket(t)
  PROVE  PlaceInv'
<1>1. /\ pc[t] = "issue" /\ sendQ[t] # <<>>
      /\ TxLookupQueue' = IF HttDataSvc THEN TxLookupQueue
                          ELSE Append(TxLookupQueue, Head(sendQ[t]))
      /\ pc' = [pc EXCEPT ![t] = "hif"]
      /\ UNCHANGED <<TxQueue, callers, sendQ, client, ring>>
  BY DEF IssuePacket, hifVars
<1>2. OnceEach' /\ Apart' /\ Somewhere'
  BY <1>1 DEF PlaceInv, OnceEach, Apart, Somewhere, Shared, HeldBy
<1>3. pc'[t] = "hif" /\ \A u \in Contexts : u # t => pc'[u] = pc[u]
  BY <1>1 DEF TypeOK
<1>4. Hands'
  BY <1>1, <1>3 DEF PlaceInv, Hands
<1>5. \A u \in Contexts : u # t => pc[u] # "hif"
  BY <1>1, NoOtherHif
<1>6. LookupInv'
  <2>1. ~HttDataSvc => TxLookupQueue = ring
    BY <1>1, <1>5 DEF PlaceInv, LookupInv
  <2> QED
    BY <1>1, <1>3, <1>5, <2>1 DEF LookupInv
<1> QED
  BY <1>2, <1>4, <1>6 DEF PlaceInv

LEMMA HifSendPlace ==
  ASSUME TypeOK, DrainInv, PlaceInv, NEW t \in Contexts, HIFSend_head(t)
  PROVE  PlaceInv'
<1>1. PICK p : p = Head(sendQ[t])
  OBVIOUS
<1>2. /\ pc[t] = "hif" /\ ring' = Append(ring, p)
      /\ sendQ' = [sendQ EXCEPT ![t] = Tail(sendQ[t])]
      /\ pc' = [pc EXCEPT ![t] = "issue"]
      /\ UNCHANGED <<TxQueue, TxLookupQueue, callers, client>>
  BY <1>1 DEF HIFSend_head, epVars, TypeOK
<1>3. sendQ[t] # <<>>
  BY <1>2 DEF PlaceInv, Hands
<1>4. OnceEach /\ Apart /\ Somewhere
  BY DEF PlaceInv
<1>5. /\ IsInjective(TxQueue) /\ IsInjective(ring) /\ IsInjective(callers[t])
      /\ sendQ[t] \in Seq(Packets) /\ IsInjective(sendQ[t]) /\ ring \in Seq(Packets)
      /\ Range(TxQueue) \cap Range(ring) = {} /\ Range(TxQueue) \cap client = {}
      /\ Range(ring) \cap client = {} /\ Range(sendQ[t]) \cap Range(callers[t]) = {}
      /\ (Range(sendQ[t]) \cup Range(callers[t]))
             \cap (Range(TxQueue) \cup Range(ring) \cup client) = {}
      /\ Shared \cup HeldBy(t) = Range(TxQueue) \cup Range(ring) \cup client
                                   \cup Range(sendQ[t]) \cup Range(callers[t])
      /\ callers = [callers EXCEPT ![t] = callers[t]]
  BY <1>4, AtContext
<1>6. /\ p \in Packets /\ Range(sendQ[t]) = {p} \cup Range(Tail(sendQ[t]))
      /\ IsInjective(Tail(sendQ[t])) /\ p \notin Range(Tail(sendQ[t]))
  BY <1>1, <1>3, <1>5, HeadAndTail
<1>7. p \notin Range(ring)
  BY <1>5, <1>6
<1>8. IsInjective(ring') /\ Range(ring') = Range(ring) \cup {p}
  BY <1>2, <1>5, <1>6, <1>7, Appended
<1>9. TxQueue' = TxQueue /\ client' = client /\ callers' = [callers EXCEPT ![t] = callers[t]]
  BY <1>2, <1>5
<1> DEFINE s == Tail(sendQ[t])
<1>10. sendQ' = [sendQ EXCEPT ![t] = s] /\ IsInjective(s) /\ p \notin Range(s)
       /\ Range(sendQ[t]) = {p} \cup Range(s)
  BY <1>2, <1>6
<1> HIDE DEF s
<1>11. /\ Range(TxQueue') \cap Range(ring') = {} /\ Range(TxQueue') \cap client' = {}
      /\ Range(ring') \cap client' = {} /\ Range(s) \cap Range(callers[t]) = {}
      /\ (Range(s) \cup Range(callers[t]))
            \cap (Range(TxQueue') \cup Range(ring') \cup client') = {}
      /\ Range(TxQueue') \cup Range(ring') \cup client' \cup Range(s) \cup Range(callers[t])
            = Shared \cup HeldBy(t)
  BY <1>5, <1>8, <1>9, <1>10
<1>12. IsInjective(TxQueue')
  BY <1>5, <1>9
<1>13. OnceEach' /\ Apart' /\ Somewhere'
  BY <1>4, <1>5, <1>8, <1>9, <1>10, <1>11, <1>12, Moved
<1>14. Hands'
  <2>1. PICK w : w = "issue"
    OBVIOUS
  <2>2. pc' = [pc EXCEPT ![t] = w]
    BY <1>2, <2>1
  <2> QED
    BY <1>9, <1>10, <2>1, <2>2, HandsStep DEF PlaceInv
<1>15. LookupInv'
  <2>1. \A u \in Contexts : u # t => pc[u] # "hif"
    BY <1>2, NoOtherHif
  <2>2. \A u \in Contexts : pc'[u] # "hif"
    BY <1>2, <2>1 DEF TypeOK
  <2>3. ~HttDataSvc => TxLookupQueue' = ring'
    BY <1>1, <1>2 DEF PlaceInv, LookupInv
  <2> QED
    BY <2>2, <2>3 DEF LookupInv
<1> QED
  BY <1>13, <1>14, <1>15 DEF PlaceInv

LEMMA IssueFailedPlace ==
  ASSUME TypeOK, DrainInv, PlaceInv, NEW t \in Contexts, IssueFailed(t)
  PROVE  PlaceInv'
<1>1. /\ pc[t] = "hif"
      /\ TxLookupQueue' = HTC_PACKET_REMOVE(TxLookupQueue, Head(sendQ[t]))
      /\ pc' = [pc EXCEPT ![t] = "requeue"]
      /\ UNCHANGED <<TxQueue, callers, sendQ, client, ring>>
  BY DEF IssueFailed, hifVars, pktVars
<1>2. OnceEach' /\ Apart' /\ Somewhere'
  BY <1>1 DEF PlaceInv, OnceEach, Apart, Somewhere, Shared, HeldBy
<1>3. pc'[t] = "requeue" /\ \A u \in Contexts : u # t => pc'[u] = pc[u]
  BY <1>1 DEF TypeOK
<1>4. Hands'
  BY <1>1, <1>3 DEF PlaceInv, Hands
<1>5. \A u \in Contexts : pc'[u] # "hif"
  BY <1>1, <1>3, NoOtherHif
<1>6. sendQ[t] # <<>>
  BY <1>1 DEF PlaceInv, Hands
<1>7. /\ sendQ[t] \in Seq(Packets) /\ ring \in Seq(Packets) /\ IsInjective(ring)
      /\ (Range(sendQ[t]) \cup Range(callers[t]))
             \cap (Range(TxQueue) \cup Range(ring) \cup client) = {}
  BY AtContext DEF PlaceInv
<1>8. PICK p \in Packets : p = Head(sendQ[t]) /\ p \in Range(sendQ[t])
  BY <1>6, <1>7, HeadAndTail
<1>9. p \notin Range(ring)
  BY <1>7, <1>8
<1>10. HTC_PACKET_REMOVE(Append(ring, p), p) = ring
  BY <1>7, <1>9, RemoveLast
<1>11. ~HttDataSvc => TxLookupQueue = Append(ring, p)
  BY <1>1, <1>8 DEF PlaceInv, LookupInv
<1>12. LookupInv'
  BY <1>1, <1>5, <1>8, <1>10, <1>11 DEF LookupInv
<1> QED
  BY <1>2, <1>4, <1>12 DEF PlaceInv

LEMMA LeftoversPlace ==
  ASSUME TypeOK, PlaceInv, NEW t \in Contexts, CompleteLeftovers(t)
  PROVE  PlaceInv'
<1>1. /\ pc[t] = "cleanup" /\ client' = client \cup Range(callers[t])
      /\ callers' = [callers EXCEPT ![t] = <<>>]
      /\ pc' = [pc EXCEPT ![t] = ReturnPoint(t, <<>>)]
      /\ UNCHANGED <<TxQueue, TxLookupQueue, sendQ, ring>>
  BY DEF CompleteLeftovers, GiveBack, hifVars, epVars
<1>2. sendQ[t] = <<>>
  BY <1>1 DEF PlaceInv, Hands
<1>3. OnceEach /\ Apart /\ Somewhere
  BY DEF PlaceInv
<1>4. /\ IsInjective(TxQueue) /\ IsInjective(ring) /\ IsInjective(sendQ[t])
      /\ Range(TxQueue) \cap Range(ring) = {} /\ Range(TxQueue) \cap client = {}
      /\ Range(ring) \cap client = {}
      /\ (Range(sendQ[t]) \cup Range(callers[t]))
             \cap (Range(TxQueue) \cup Range(ring) \cup client) = {}
      /\ Shared \cup HeldBy(t) = Range(TxQueue) \cup Range(ring) \cup client
                                   \cup Range(sendQ[t]) \cup Range(callers[t])
      /\ sendQ = [sendQ EXCEPT ![t] = sendQ[t]]
  BY <1>3, AtContext
<1>5. TxQueue' = TxQueue /\ ring' = ring /\ sendQ' = [sendQ EXCEPT ![t] = sendQ[t]]
  BY <1>1, <1>4
<1>6. IsInjective(<<>>) /\ Range(<<>>) = {} /\ Range(sendQ[t]) = {}
  BY <1>2, EmptyFacts
<1>7. /\ Range(TxQueue') \cap Range(ring') = {} /\ Range(TxQueue') \cap client' = {}
      /\ Range(ring') \cap client' = {} /\ Range(sendQ[t]) \cap Range(<<>>) = {}
      /\ (Range(sendQ[t]) \cup Range(<<>>))
            \cap (Range(TxQueue') \cup Range(ring') \cup client') = {}
      /\ Range(TxQueue') \cup Range(ring') \cup client' \cup Range(sendQ[t]) \cup Range(<<>>)
            = Shared \cup HeldBy(t)
  BY <1>1, <1>4, <1>5, <1>6
<1>8. OnceEach' /\ Apart' /\ Somewhere'
  BY <1>1, <1>3, <1>4, <1>5, <1>6, <1>7, Moved
<1>9. PICK w \in {"cleanup", "clear", "recycle", "idle"} : pc' = [pc EXCEPT ![t] = w]
  BY <1>1, ReturnPlaces
<1>10. Hands'
  BY <1>1, <1>2, <1>5, <1>9, HandsStep DEF PlaceInv
<1>11. LookupInv'
  BY <1>1, <1>5, <1>9, LookupKept DEF PlaceInv
<1> QED
  BY <1>8, <1>10, <1>11 DEF PlaceInv

LEMMA FlushPlace ==
  ASSUME TypeOK, PlaceInv, NEW t \in Contexts, HTCFlushEndpointTX(t)
  PROVE  PlaceInv'
<1>1. /\ client' = client \cup Range(TxQueue) /\ TxQueue' = <<>>
      /\ UNCHANGED <<TxLookupQueue, pc, sendQ, callers, ring>>
  BY DEF HTCFlushEndpointTX, GiveBack, hifVars, ctxVars
<1>2. OnceEach /\ Apart /\ Somewhere
  BY DEF PlaceInv
<1>3. /\ IsInjective(ring) /\ IsInjective(sendQ[t]) /\ IsInjective(callers[t])
      /\ Range(TxQueue) \cap Range(ring) = {} /\ Range(TxQueue) \cap client = {}
      /\ Range(ring) \cap client = {} /\ Range(sendQ[t]) \cap Range(callers[t]) = {}
      /\ (Range(sendQ[t]) \cup Range(callers[t]))
             \cap (Range(TxQueue) \cup Range(ring) \cup client) = {}
      /\ Shared \cup HeldBy(t) = Range(TxQueue) \cup Range(ring) \cup client
                                   \cup Range(sendQ[t]) \cup Range(callers[t])
      /\ sendQ = [sendQ EXCEPT ![t] = sendQ[t]] /\ callers = [callers EXCEPT ![t] = callers[t]]
  BY <1>2, AtContext
<1>4. /\ ring' = ring /\ sendQ' = [sendQ EXCEPT ![t] = sendQ[t]]
      /\ callers' = [callers EXCEPT ![t] = callers[t]]
  BY <1>1, <1>3
<1>5. IsInjective(TxQueue') /\ Range(TxQueue') = {}
  BY <1>1, EmptyFacts
<1>6. /\ Range(TxQueue') \cap Range(ring') = {} /\ Range(TxQueue') \cap client' = {}
      /\ Range(ring') \cap client' = {}
      /\ (Range(sendQ[t]) \cup Range(callers[t]))
            \cap (Range(TxQueue') \cup Range(ring') \cup client') = {}
      /\ Range(TxQueue') \cup Range(ring') \cup client' \cup Range(sendQ[t])
            \cup Range(callers[t]) = Shared \cup HeldBy(t)
  BY <1>1, <1>3, <1>4, <1>5
<1>7. OnceEach' /\ Apart' /\ Somewhere'
  BY <1>2, <1>3, <1>4, <1>5, <1>6, Moved
<1>8. Hands' /\ LookupInv'
  BY <1>1 DEF PlaceInv, Hands, LookupInv
<1> QED
  BY <1>7, <1>8 DEF PlaceInv

(* The first entry of the ring goes back to the client. *)
LEMMA RingToClient ==
  ASSUME TypeOK, PlaceInv, NEW t \in Contexts, ring # <<>>,
         ring' = Tail(ring), client' = client \cup {Head(ring)},
         UNCHANGED <<TxQueue, sendQ, callers>>
  PROVE  OnceEach' /\ Apart' /\ Somewhere'
<1>2. OnceEach /\ Apart /\ Somewhere
  BY DEF PlaceInv
<1>3. /\ IsInjective(TxQueue) /\ IsInjective(sendQ[t]) /\ IsInjective(callers[t])
      /\ ring \in Seq(Packets) /\ IsInjective(ring)
      /\ Range(TxQueue) \cap Range(ring) = {} /\ Range(TxQueue) \cap client = {}
      /\ Range(ring) \cap client = {} /\ Range(sendQ[t]) \cap Range(callers[t]) = {}
      /\ (Range(sendQ[t]) \cup Range(callers[t]))
             \cap (Range(TxQueue) \cup Range(ring) \cup client) = {}
      /\ Shared \cup HeldBy(t) = Range(TxQueue) \cup Range(ring) \cup client
                                   \cup Range(sendQ[t]) \cup Range(callers[t])
      /\ sendQ = [sendQ EXCEPT ![t] = sendQ[t]] /\ callers = [callers EXCEPT ![t] = callers[t]]
  BY <1>2, AtContext
<1>4. /\ TxQueue' = TxQueue /\ sendQ' = [sendQ EXCEPT ![t] = sendQ[t]]
      /\ callers' = [callers EXCEPT ![t] = callers[t]]
  BY <1>3
<1>5. PICK h : h = Head(ring)
  OBVIOUS
<1>6. /\ Range(ring) = {h} \cup Range(ring') /\ IsInjective(ring') /\ h \notin Range(ring')
      /\ client' = client \cup {h}
  BY <1>3, <1>5, HeadAndTail
<1>7. /\ Range(TxQueue') \cap Range(ring') = {} /\ Range(TxQueue') \cap client' = {}
      /\ Range(ring') \cap client' = {}
      /\ (Range(sendQ[t]) \cup Range(callers[t]))
            \cap (Range(TxQueue') \cup Range(ring') \cup client') = {}
      /\ Range(TxQueue') \cup Range(ring') \cup client' \cup Range(sendQ[t])
            \cup Range(callers[t]) = Shared \cup HeldBy(t)
  BY <1>3, <1>4, <1>6
<1>8. IsInjective(TxQueue')
  BY <1>3, <1>4
<1> QED
  BY <1>2, <1>3, <1>4, <1>6, <1>7, <1>8, Moved

(* HTCLookupTxPacket: the completed packet is the first of TxLookupQueue,  *)
(* and taking it off leaves the queue in step with the ring.               *)
LEMMA FirstOfLookup ==
  ASSUME TypeOK, DrainInv, PlaceInv, ~HttDataSvc, ring # <<>>
  PROVE  /\ Found(Head(ring)) = {Head(ring)}
         /\ \A t \in Contexts : pc[t] = "hif" =>
               HTC_PACKET_REMOVE(TxLookupQueue, Head(ring)) = Append(Tail(ring), Head(sendQ[t]))
         /\ (\A t \in Contexts : pc[t] # "hif") =>
               HTC_PACKET_REMOVE(TxLookupQueue, Head(ring)) = Tail(ring)
<1>1. ring \in Seq(Packets) /\ IsInjective(ring)
  BY DEF TypeOK, PlaceInv, OnceEach
<1>2. Head(ring) \in Range(ring)
  BY <1>1, HeadAndTail
<1>3. ASSUME NEW t \in Contexts, pc[t] = "hif"
      PROVE  /\ Head(ring) \in Range(TxLookupQueue)
             /\ HTC_PACKET_REMOVE(TxLookupQueue, Head(ring))
                    = Append(Tail(ring), Head(sendQ[t]))
  <2>1. TxLookupQueue = Append(ring, Head(sendQ[t])) /\ sendQ[t] # <<>>
    BY <1>3 DEF PlaceInv, LookupInv, Hands
  <2>2. /\ sendQ[t] \in Seq(Packets)
        /\ (Range(sendQ[t]) \cup Range(callers[t]))
             \cap (Range(TxQueue) \cup Range(ring) \cup client) = {}
    BY AtContext DEF PlaceInv
  <2>3. PICK p \in Packets : p = Head(sendQ[t]) /\ p \in Range(sendQ[t])
    BY <2>1, <2>2, HeadAndTail
  <2>4. p \notin Range(ring)
    BY <2>2, <2>3
  <2>5. /\ Append(ring, p) \in Seq(Packets) /\ IsInjective(Append(ring, p))
        /\ Range(Append(ring, p)) = Range(ring) \cup {p} /\ Append(ring, p) # <<>>
    <3>1. Append(ring, p) # <<>>
      BY <1>1, AppendProperties
    <3> QED
      BY <1>1, <2>4, <3>1, Appended
  <2>6. Head(Append(ring, p)) = Head(ring) /\ Tail(Append(ring, p)) = Append(Tail(ring), p)
    BY <1>1, HeadTailAppend
  <2>7. HTC_PACKET_REMOVE(Append(ring, p), Head(Append(ring, p))) = Tail(Append(ring, p))
    BY <2>5, RemoveHead
  <2> QED
    BY <1>2, <2>1, <2>3, <2>5, <2>6, <2>7
<1>4. ASSUME \A t \in Contexts : pc[t] # "hif"
      PROVE  /\ Head(ring) \in Range(TxLookupQueue)
             /\ HTC_PACKET_REMOVE(TxLookupQueue, Head(ring)) = Tail(ring)
  <2>1. TxLookupQueue = ring
    BY <1>4 DEF PlaceInv, LookupInv
  <2> QED
    BY <1>1, <1>2, <2>1, RemoveHead
<1>5. Head(ring) \in Range(TxLookupQueue)
  BY <1>3, <1>4
<1>6. Found(Head(ring)) = {Head(ring)}
  BY <1>5 DEF Found
<1> QED
  BY <1>3, <1>4, <1>6

LEMMA CompletionPlace ==
  ASSUME TypeOK, DrainInv, PlaceInv, HTCTxCompletionHandler
  PROVE  PlaceInv'
<1>1. /\ ~HttDataSvc /\ pc[Tasklet] = "idle" /\ ring # <<>> /\ ring' = Tail(ring)
      /\ TxLookupQueue' = HTC_PACKET_REMOVE(TxLookupQueue, Head(ring))
      /\ client' = client \cup Found(Head(ring))
      /\ UNCHANGED <<TxQueue, callers, sendQ>>
  BY DEF HTCTxCompletionHandler, GiveBack
<1>2. Tasklet \in Contexts
  BY DEF Contexts
<1>3. OnceEach' /\ Apart' /\ Somewhere'
  BY <1>1, <1>2, FirstOfLookup, RingToClient
<1>4. IF CreditFlow THEN pc' = [pc EXCEPT ![Tasklet] = "recycle"]
                    ELSE pc' = [pc EXCEPT ![Tasklet] = "resources"]
  BY DEF HTCTxCompletionHandler
<1>5. /\ pc'[Tasklet] \in {"recycle", "resources"}
      /\ \A u \in Contexts : u # Tasklet => pc'[u] = pc[u]
  BY <1>2, <1>4 DEF TypeOK
<1>6. sendQ[Tasklet] = <<>> /\ callers[Tasklet] = <<>>
  BY <1>1, <1>2 DEF PlaceInv, Hands
<1>7. Hands'
  BY <1>1, <1>5, <1>6 DEF PlaceInv, Hands
<1>8. \A u \in Contexts : pc'[u] = "hif" <=> pc[u] = "hif"
  BY <1>1, <1>5
<1>9. LookupInv'
  BY <1>1, <1>8, FirstOfLookup DEF LookupInv
<1> QED
  BY <1>3, <1>7, <1>9 DEF PlaceInv

LEMMA ReapPlace ==
  ASSUME TypeOK, PlaceInv, CE_per_engine_servicereap
  PROVE  PlaceInv'
<1>1. /\ HttDataSvc /\ ring # <<>> /\ ring' = Tail(ring)
      /\ client' = client \cup {Head(ring)}
      /\ UNCHANGED <<TxQueue, pc, callers, sendQ>>
  BY DEF CE_per_engine_servicereap, epVars, ctxVars
<1>2. Tasklet \in Contexts
  BY DEF Contexts
<1>3. OnceEach' /\ Apart' /\ Somewhere'
  BY <1>1, <1>2, RingToClient
<1>4. Hands' /\ LookupInv'
  BY <1>1 DEF PlaceInv, Hands, LookupInv
<1> QED
  BY <1>3, <1>4 DEF PlaceInv

LEMMA NextPlace == TypeInv /\ DrainInv /\ PlaceInv /\ [Next]_vars => PlaceInv'
<1> SUFFICES ASSUME TypeOK, DrainInv, PlaceInv, [Next]_vars PROVE PlaceInv'
  BY DEF TypeInv
<1>1. ASSUME NEW t \in Threads, HTCSendPktsMultiple(t) \/ HTCFlushEndpointTX(t)
      PROVE  PlaceInv'
  <2>1. t \in Contexts
    BY DEF Contexts
  <2> QED
    BY <1>1, <2>1, SendPlace, FlushPlace
<1>2. ASSUME NEW t \in Contexts, TrySendStep(t) PROVE PlaceInv'
  BY <1>2, OverflowPlace, ResourcesPlace, EnterPlace, IssuePlace, HifSendPlace,
     IssueFailedPlace, RequeuePlace, DrainAgainPlace, LeftoversPlace, NodropPlace
  DEF TrySendStep
<1>3. CASE HTCTxCompletionHandler
  BY <1>3, CompletionPlace
<1>4. CASE RecycleEntry
  BY <1>4, RecyclePlace
<1>5. CASE CE_per_engine_servicereap
  BY <1>5, ReapPlace
<1>6. ASSUME NEW asked \in 0..TxAlloc, NEW quiet \in 0..TxAlloc,
             HTCProcessCreditRpt(asked, quiet)
      PROVE  PlaceInv'
  BY <1>6, CreditRptPlace
<1>7. CASE UNCHANGED vars
  <2>1. UNCHANGED <<TxQueue, ring, client, sendQ, callers, TxLookupQueue, pc>>
    BY <1>7 DEF vars, epVars, ctxVars, pktVars, hifVars
  <2> QED
    BY <2>1 DEF PlaceInv, OnceEach, Apart, Somewhere, Shared, HeldBy, Hands, LookupInv
<1> QED
  BY <1>1, <1>2, <1>3, <1>4, <1>5, <1>6, <1>7 DEF Next

(* For any number of packets and contexts: every queue holds a packet at   *)
(* most once, no two queues share one, and none is lost.                   *)
LEMMA Placed == Spec => [](TypeInv /\ DrainInv /\ PlaceInv)
<1>1. Init => TypeInv /\ DrainInv /\ PlaceInv
  BY InitType, InitDrain, InitPlace
<1>2. (TypeInv /\ DrainInv /\ PlaceInv) /\ [Next]_vars => (TypeInv /\ DrainInv /\ PlaceInv)'
  BY NextType, NextDrain, NextPlace
<1> QED
  BY <1>1, <1>2, PTL DEF Spec

-----------------------------------------------------------------------------
(* The properties.                                                         *)

(* The packets the drainer holds are those of its local queue. *)
LEMMA InHandIs ==
  ASSUME DrainInv
  PROVE  /\ \A t \in Drainers : InHand = sendQ[t]
         /\ Drainers = {} => InHand = <<>>
<1>1. ASSUME NEW t \in Drainers PROVE InHand = sendQ[t]
  <2>1. \A u, v \in Drainers : u = v
    BY DEF DrainInv, SingleDrainer
  <2>2. (CHOOSE u \in Drainers : TRUE) \in Drainers
    BY <1>1
  <2>3. (CHOOSE u \in Drainers : TRUE) = t
    BY <1>1, <2>1, <2>2
  <2> QED
    BY <1>1, <2>3 DEF InHand
<1> QED
  BY <1>1 DEF InHand

(* HTCLookupTxPacket: in every state TxLookupQueue lists exactly the       *)
(* packets on the bus, in bus order, and the one being handed over, so the *)
(* packet of a completed netbuf is always at its head.                     *)
THEOREM LookupFollowsBus == Spec => []LookupInBusOrder
<1>1. ASSUME TypeInv, DrainInv, PlaceInv PROVE LookupInBusOrder
  <2> SUFFICES ASSUME ~HttDataSvc
               PROVE  TxLookupQueue = ring \o (IF \E t \in Drainers : pc[t] = "hif"
                                               THEN <<Head(InHand)>> ELSE <<>>)
    BY DEF LookupInBusOrder
  <2>1. ring \in Seq(Packets)
    BY <1>1 DEF TypeInv, TypeOK
  <2>2. CASE \E t \in Drainers : pc[t] = "hif"
    <3>1. PICK t \in Drainers : pc[t] = "hif"
      BY <2>2
    <3>2. t \in Contexts
      BY DEF Drainers
    <3>3. TxLookupQueue = Append(ring, Head(sendQ[t])) /\ sendQ[t] # <<>>
      BY <1>1, <3>1, <3>2 DEF PlaceInv, LookupInv, Hands
    <3>4. Head(sendQ[t]) \in Packets
      BY <1>1, <3>2, <3>3, HeadAndTail DEF TypeInv, TypeOK
    <3>5. InHand = sendQ[t]
      BY <1>1, InHandIs
    <3> QED
      BY <2>1, <2>2, <3>3, <3>4, <3>5, Appended
  <2>3. CASE ~\E t \in Drainers : pc[t] = "hif"
    <3>1. \A t \in Contexts : pc[t] # "hif"
      BY <2>3 DEF Drainers
    <3>2. TxLookupQueue = ring
      BY <1>1, <3>1 DEF PlaceInv, LookupInv
    <3> QED
      BY <2>1, <2>3, <3>2, ConcatEmptySeq
  <2> QED
    BY <2>2, <2>3
<1> QED
  BY <1>1, Placed, PTL

LEMMA SlotsFacts ==
  ASSUME NEW q, IsInjective(q), NEW p
  PROVE  /\ p \notin Range(q) => Slots(q, p) = {}
         /\ p \in Range(q) => \E i : Slots(q, p) = {i}
<1>1. ASSUME p \in Range(q) PROVE \E i : Slots(q, p) = {i}
  <2>1. PICK i \in DOMAIN q : q[i] = p
    BY <1>1 DEF Range
  <2>2. Slots(q, p) = {i}
    BY <2>1 DEF Slots, IsInjective
  <2> QED
    BY <2>2
<1> QED
  BY <1>1 DEF Slots, Range

(* A packet is nowhere where it is not, and once where it is. *)
LEMMA PartsFacts ==
  ASSUME OnceEach, NEW p
  PROVE  /\ p \notin Range(TxQueue) => QueuePlaces(p) = {}
         /\ p \in Range(TxQueue) => \E x : QueuePlaces(p) = {x}
         /\ p \notin Range(ring) => RingPlaces(p) = {}
         /\ p \in Range(ring) => \E x : RingPlaces(p) = {x}
         /\ p \notin client => ClientPlaces(p) = {}
         /\ p \in client => \E x : ClientPlaces(p) = {x}
<1>1. /\ p \notin Range(TxQueue) => Slots(TxQueue, p) = {}
      /\ p \in Range(TxQueue) => \E i : Slots(TxQueue, p) = {i}
      /\ p \notin Range(ring) => Slots(ring, p) = {}
      /\ p \in Range(ring) => \E i : Slots(ring, p) = {i}
  BY SlotsFacts DEF OnceEach
<1>2. /\ \A i : Slots(TxQueue, p) = {i} => QueuePlaces(p) = {<<"queue", i>>}
      /\ Slots(TxQueue, p) = {} => QueuePlaces(p) = {}
  BY DEF QueuePlaces
<1>3. /\ \A i : Slots(ring, p) = {i} => RingPlaces(p) = {<<"ring", i>>}
      /\ Slots(ring, p) = {} => RingPlaces(p) = {}
  BY DEF RingPlaces
<1> QED
  BY <1>1, <1>2, <1>3 DEF ClientPlaces

LEMMA LocalFacts ==
  ASSUME OnceEach, NEW p
  PROVE  /\ (\A t \in Contexts : p \notin Range(sendQ[t])) => SendPlaces(p) = {}
         /\ (\A t \in Contexts : p \notin Range(callers[t])) => CallPlaces(p) = {}
         /\ \A t \in Contexts :
              /\ (p \in Range(sendQ[t]) /\ \A u \in Contexts : u # t => p \notin Range(sendQ[u]))
                   => \E x : SendPlaces(p) = {x}
              /\ (p \in Range(callers[t]) /\ \A u \in Contexts : u # t => p \notin Range(callers[u]))
                   => \E x : CallPlaces(p) = {x}
<1>1. \A t \in Contexts : /\ p \notin Range(sendQ[t]) => Slots(sendQ[t], p) = {}
                          /\ p \in Range(sendQ[t]) => \E i : Slots(sendQ[t], p) = {i}
  BY SlotsFacts DEF OnceEach
<1>2. \A t \in Contexts : /\ p \notin Range(callers[t]) => Slots(callers[t], p) = {}
                          /\ p \in Range(callers[t]) => \E i : Slots(callers[t], p) = {i}
  BY SlotsFacts DEF OnceEach
<1>3. (\A t \in Contexts : p \notin Range(sendQ[t])) => SendPlaces(p) = {}
  BY <1>1 DEF SendPlaces
<1>4. (\A t \in Contexts : p \notin Range(callers[t])) => CallPlaces(p) = {}
  BY <1>2 DEF CallPlaces
<1>5. ASSUME NEW t \in Contexts, p \in Range(sendQ[t]),
             \A u \in Contexts : u # t => p \notin Range(sendQ[u])
      PROVE  \E x : SendPlaces(p) = {x}
  <2>1. PICK i : Slots(sendQ[t], p) = {i}
    BY <1>1, <1>5
  <2>2. \A u \in Contexts : u # t => Slots(sendQ[u], p) = {}
    BY <1>1, <1>5
  <2>3. SendPlaces(p) = {<<"send", t, i>>}
    BY <2>1, <2>2 DEF SendPlaces
  <2> QED
    BY <2>3
<1>6. ASSUME NEW t \in Contexts, p \in Range(callers[t]),
             \A u \in Contexts : u # t => p \notin Range(callers[u])
      PROVE  \E x : CallPlaces(p) = {x}
  <2>1. PICK i : Slots(callers[t], p) = {i}
    BY <1>2, <1>6
  <2>2. \A u \in Contexts : u # t => Slots(callers[u], p) = {}
    BY <1>2, <1>6
  <2>3. CallPlaces(p) = {<<"call", t, i>>}
    BY <2>1, <2>2 DEF CallPlaces
  <2> QED
    BY <2>3
<1> QED
  BY <1>3, <1>4, <1>5, <1>6

(* Exactly one place. *)
LEMMA OnePlace ==
  ASSUME OnceEach, Apart, Somewhere, NEW p \in Packets
  PROVE  \E x : PlacesOf(p) = {x}
<1>1. CASE p \in Shared
  <2>1. \A t \in Contexts : p \notin Range(sendQ[t]) /\ p \notin Range(callers[t])
    BY <1>1 DEF Apart, HeldBy
  <2>2. SendPlaces(p) = {} /\ CallPlaces(p) = {}
    BY <2>1, LocalFacts
  <2>3. PlacesOf(p) = QueuePlaces(p) \cup RingPlaces(p) \cup ClientPlaces(p)
    BY <2>2 DEF PlacesOf
  <2>4. \/ p \in Range(TxQueue) /\ p \notin Range(ring) /\ p \notin client
        \/ p \notin Range(TxQueue) /\ p \in Range(ring) /\ p \notin client
        \/ p \notin Range(TxQueue) /\ p \notin Range(ring) /\ p \in client
    BY <1>1 DEF Shared, Apart
  <2> QED
    BY <2>3, <2>4, PartsFacts
<1>2. ASSUME NEW t \in Contexts, p \in HeldBy(t) PROVE \E x : PlacesOf(p) = {x}
  <2>1. p \notin Range(TxQueue) /\ p \notin Range(ring) /\ p \notin client
    BY <1>2 DEF Apart, Shared
  <2>2. QueuePlaces(p) = {} /\ RingPlaces(p) = {} /\ ClientPlaces(p) = {}
    BY <2>1, PartsFacts
  <2>3. PlacesOf(p) = SendPlaces(p) \cup CallPlaces(p)
    BY <2>2 DEF PlacesOf
  <2>4. \A u \in Contexts : u # t => p \notin HeldBy(u)
    BY <1>2 DEF Apart
  <2>5. \A u \in Contexts : u # t => p \notin Range(sendQ[u]) /\ p \notin Range(callers[u])
    BY <2>4 DEF HeldBy
  <2>6. CASE p \in Range(sendQ[t])
    <3>1. p \notin Range(callers[t])
      BY <2>6 DEF Apart
    <3>2. CallPlaces(p) = {}
      BY <2>5, <3>1, LocalFacts
    <3>3. PICK x : SendPlaces(p) = {x}
      BY <2>5, <2>6, LocalFacts
    <3> QED
      BY <2>3, <3>2, <3>3
  <2>7. CASE p \in Range(callers[t])
    <3>1. p \notin Range(sendQ[t])
      BY <2>7 DEF Apart
    <3>2. SendPlaces(p) = {}
      BY <2>5, <3>1, LocalFacts
    <3>3. PICK x : CallPlaces(p) = {x}
      BY <2>5, <2>7, LocalFacts
    <3> QED
      BY <2>3, <3>2, <3>3
  <2> QED
    BY <1>2, <2>6, <2>7 DEF HeldBy
<1> QED
  BY <1>1, <1>2 DEF Somewhere

(* Whatever races with whatever (flush, drain, failed HIFSend_head,        *)
(* completion), a packet is in exactly one queue or with its client: none  *)
(* is lost, none is queued or completed twice.                             *)
THEOREM NoPacketLost == Spec => []PacketConserved
<1>1. ASSUME PlaceInv PROVE PacketConserved
  <2> SUFFICES ASSUME NEW p \in Packets PROVE Cardinality(PlacesOf(p)) = 1
    BY DEF PacketConserved
  <2>1. PICK x : PlacesOf(p) = {x}
    BY <1>1, OnePlace DEF PlaceInv
  <2> QED
    BY <2>1, FS_Singleton
<1> QED
  BY <1>1, Placed, PTL

-----------------------------------------------------------------------------
(* What clients are told.  onBus is about the packets: those in the ring   *)
(* are on the bus, those neither there nor with the client are not.        *)

BusInv ==
    /\ \A p \in Range(ring) : p \in onBus
    /\ \A p \in Packets : p \notin Range(ring) /\ p \notin client => p \notin onBus
    /\ CompletionTruthful

(* Packets that never reached the bus are given back. *)
LEMMA GiveBackUnsent ==
  ASSUME TypeOK, BusInv, NEW S \in SUBSET Packets, NEW st, st # "A_OK",
         S \cap Range(ring) = {}, S \cap client = {}, GiveBack(S, st),
         ring' = ring, onBus' = onBus
  PROVE  BusInv'
<1>1. client' = client \cup S
  BY DEF GiveBack
<1>2. \A p \in Packets : status'[p] = IF p \in S THEN st ELSE status[p]
  BY DEF GiveBack
<1>3. \A p \in S : p \notin onBus
  BY DEF BusInv
<1>4. ASSUME NEW p \in client'
      PROVE  /\ status'[p] = "A_OK" => p \in onBus'
             /\ status'[p] \in {"A_ECANCELED", "A_NO_RESOURCE"} => p \notin onBus'
  <2>1. p \in Packets
    BY <1>1, <1>4 DEF TypeOK
  <2>2. CASE p \in S
    BY <1>2, <1>3, <2>1, <2>2
  <2>3. CASE p \notin S
    <3>1. p \in client /\ status'[p] = status[p]
      BY <1>1, <1>2, <1>4, <2>1, <2>3
    <3> QED
      BY <3>1 DEF BusInv, CompletionTruthful
  <2> QED
    BY <2>2, <2>3
<1>5. CompletionTruthful'
  BY <1>4 DEF CompletionTruthful
<1> QED
  BY <1>1, <1>5 DEF BusInv

LEMMA BusSame ==
  ASSUME BusInv, UNCHANGED <<ring, client, status, onBus>>
  PROVE  BusInv'
BY DEF BusInv, CompletionTruthful

LEMMA SendBus ==
  ASSUME TypeOK, PlaceInv, BusInv, NEW t \in Threads, HTCSendPktsMultiple(t)
  PROVE  BusInv'
<1>1. PICK s \in Batches :
        /\ client' = client \ Range(s)
        /\ onBus' = onBus \ Range(s)
        /\ status' = [p \in Packets |-> IF p \in Range(s) THEN "none" ELSE status[p]]
        /\ ring' = ring
  BY DEF HTCSendPktsMultiple, hifVars
<1>2. Range(s) \subseteq client
  BY DEF Batches, Range
<1>3. Range(ring) \cap client = {}
  BY DEF PlaceInv, Apart
<1>4. CompletionTruthful'
  <2> SUFFICES ASSUME NEW p \in client'
               PROVE  /\ status'[p] = "A_OK" => p \in onBus'
                      /\ status'[p] \in {"A_ECANCELED", "A_NO_RESOURCE"} => p \notin onBus'
    BY DEF CompletionTruthful
  <2>1. p \in Packets /\ p \in client /\ p \notin Range(s)
    BY <1>1 DEF TypeOK
  <2>2. status'[p] = status[p]
    BY <1>1, <2>1
  <2> QED
    BY <1>1, <2>1, <2>2 DEF BusInv, CompletionTruthful
<1>5. \A p \in Range(ring') : p \in onBus'
  BY <1>1, <1>2, <1>3 DEF BusInv
<1>6. \A p \in Packets : p \notin Range(ring') /\ p \notin client' => p \notin onBus'
  BY <1>1, <1>2 DEF BusInv
<1> QED
  BY <1>4, <1>5, <1>6 DEF BusInv

LEMMA HifSendBus ==
  ASSUME TypeOK, PlaceInv, BusInv, NEW t \in Contexts, HIFSend_head(t)
  PROVE  BusInv'
<1>1. PICK p : p = Head(sendQ[t])
  OBVIOUS
<1>2. /\ pc[t] = "hif" /\ ring' = Append(ring, p) /\ onBus' = onBus \cup {p}
      /\ UNCHANGED <<client, status>>
  BY <1>1 DEF HIFSend_head
<1>3. sendQ[t] # <<>>
  BY <1>2 DEF PlaceInv, Hands
<1>4. /\ sendQ[t] \in Seq(Packets) /\ ring \in Seq(Packets)
      /\ (Range(sendQ[t]) \cup Range(callers[t]))
             \cap (Range(TxQueue) \cup Range(ring) \cup client) = {}
  BY AtContext DEF PlaceInv
<1>5. p \in Packets /\ p \in Range(sendQ[t])
  BY <1>1, <1>3, <1>4, HeadAndTail
<1>6. p \notin client
  BY <1>4, <1>5
<1>7. Range(ring') = Range(ring) \cup {p}
  BY <1>2, <1>4, <1>5, Appended
<1>8. CompletionTruthful'
  BY <1>2, <1>6 DEF BusInv, CompletionTruthful
<1> QED
  BY <1>2, <1>7, <1>8 DEF BusInv

LEMMA CompletionBus ==
  ASSUME TypeOK, DrainInv, PlaceInv, BusInv, HTCTxCompletionHandler
  PROVE  BusInv'
<1>1. PICK h : h = Head(ring)
  OBVIOUS
<1>2. /\ ~HttDataSvc /\ ring # <<>> /\ ring' = Tail(ring) /\ GiveBack(Found(h), "A_OK")
      /\ onBus' = onBus
  BY <1>1 DEF HTCTxCompletionHandler
<1>3. Found(h) = {h}
  BY <1>1, <1>2, FirstOfLookup
<1>4. /\ client' = client \cup {h}
      /\ status' = [p \in Packets |-> IF p \in {h} THEN "A_OK" ELSE status[p]]
  BY <1>2, <1>3 DEF GiveBack
<1>5. h \in Packets /\ Range(ring) = {h} \cup Range(ring')
  BY <1>1, <1>2, HeadAndTail DEF TypeOK
<1>6. h \in onBus
  BY <1>5 DEF BusInv
<1>7. CompletionTruthful'
  <2> SUFFICES ASSUME NEW p \in client'
               PROVE  /\ status'[p] = "A_OK" => p \in onBus'
                      /\ status'[p] \in {"A_ECANCELED", "A_NO_RESOURCE"} => p \notin onBus'
    BY DEF CompletionTruthful
  <2>1. p \in Packets
    BY <1>4, <1>5 DEF TypeOK
  <2>2. CASE p = h
    BY <1>2, <1>4, <1>6, <2>1, <2>2
  <2>3. CASE p # h
    <3>1. p \in client /\ status'[p] = status[p]
      BY <1>4, <2>1, <2>3
    <3> QED
      BY <1>2, <3>1 DEF BusInv, CompletionTruthful
  <2> QED
    BY <2>2, <2>3
<1> QED
  BY <1>2, <1>4, <1>5, <1>7 DEF BusInv

LEMMA ReapBus ==
  ASSUME TypeOK, BusInv, CE_per_engine_servicereap
  PROVE  BusInv'
<1>1. PICK h : h = Head(ring)
  OBVIOUS
<1>2. /\ ring # <<>> /\ ring' = Tail(ring) /\ client' = client \cup {h} /\ onBus' = onBus
      /\ status' = [status EXCEPT ![h] = "none"]
  BY <1>1 DEF CE_per_engine_servicereap
<1>3. h \in Packets /\ Range(ring) = {h} \cup Range(ring')
  BY <1>1, <1>2, HeadAndTail DEF TypeOK
<1>4. CompletionTruthful'
  <2> SUFFICES ASSUME NEW p \in client'
               PROVE  /\ status'[p] = "A_OK" => p \in onBus'
                      /\ status'[p] \in {"A_ECANCELED", "A_NO_RESOURCE"} => p \notin onBus'
    BY DEF CompletionTruthful
  <2>1. p \in Packets
    BY <1>2, <1>3 DEF TypeOK
  <2>2. CASE p = h
    BY <1>2, <2>1, <2>2 DEF TypeOK
  <2>3. CASE p # h
    <3>1. p \in client /\ status'[p] = status[p]
      BY <1>2, <2>1, <2>3 DEF TypeOK
    <3> QED
      BY <1>2, <3>1 DEF BusInv, CompletionTruthful
  <2> QED
    BY <2>2, <2>3
<1> QED
  BY <1>2, <1>3, <1>4 DEF BusInv

LEMMA StepBus ==
  ASSUME TypeOK, PlaceInv, BusInv, NEW t \in Contexts, TrySendStep(t)
  PROVE  BusInv'
<1>1. CASE CheckOverflow(t) \/ ReadResources(t) \/ RefreshResources(t)
  BY <1>1, BusSame DEF CheckOverflow, ReadResources, RefreshResources, hifVars, pktVars
<1>2. CASE EnterTrySend(t) \/ DrainAgain(t)
  BY <1>2, BusSame DEF EnterTrySend, DrainAgain, hifVars
<1>3. CASE IssuePacket(t) \/ IssueFailed(t) \/ Requeue(t) \/ HTCSetNodropPkt(t)
  BY <1>3, BusSame DEF IssuePacket, IssueFailed, Requeue, HTCSetNodropPkt, hifVars, pktVars
<1>4. CASE HIFSend_head(t)
  BY <1>4, HifSendBus
<1>5. CASE CompleteLeftovers(t)
  <2>1. /\ GiveBack(Range(callers[t]), "A_NO_RESOURCE")
        /\ ring' = ring /\ onBus' = onBus
    BY <1>5 DEF CompleteLeftovers, hifVars
  <2>2. /\ callers[t] \in Seq(Packets)
        /\ (Range(sendQ[t]) \cup Range(callers[t]))
             \cap (Range(TxQueue) \cup Range(ring) \cup client) = {}
    BY AtContext DEF PlaceInv
  <2>3. Range(callers[t]) \in SUBSET Packets
    BY <2>2, RangeType
  <2>4. Range(callers[t]) \cap Range(ring) = {} /\ Range(callers[t]) \cap client = {}
    BY <2>2
  <2>5. PICK st : st = "A_NO_RESOURCE"
    OBVIOUS
  <2> QED
    BY <2>1, <2>3, <2>4, <2>5, GiveBackUnsent
<1> QED
  BY <1>1, <1>2, <1>3, <1>4, <1>5 DEF TrySendStep

LEMMA NextBus ==
  (TypeInv /\ DrainInv /\ PlaceInv) /\ BusInv /\ [Next]_vars => BusInv'
<1> SUFFICES ASSUME TypeOK, DrainInv, PlaceInv, BusInv, [Next]_vars PROVE BusInv'
  BY DEF TypeInv
<1>1. ASSUME NEW t \in Threads, HTCSendPktsMultiple(t) PROVE BusInv'
  BY <1>1, SendBus
<1>2. ASSUME NEW t \in Threads, HTCFlushEndpointTX(t) PROVE BusInv'
  <2>1. GiveBack(Range(TxQueue), "A_ECANCELED") /\ ring' = ring /\ onBus' = onBus
    BY <1>2 DEF HTCFlushEndpointTX, hifVars
  <2>2. Range(TxQueue) \in SUBSET Packets
    BY RangeType DEF TypeOK
  <2>3. Range(TxQueue) \cap Range(ring) = {} /\ Range(TxQueue) \cap client = {}
    BY DEF PlaceInv, Apart
  <2>4. PICK st : st = "A_ECANCELED"
    OBVIOUS
  <2> QED
    BY <2>1, <2>2, <2>3, <2>4, GiveBackUnsent
<1>3. ASSUME NEW t \in Contexts, TrySendStep(t) PROVE BusInv'
  BY <1>3, StepBus
<1>4. CASE HTCTxCompletionHandler
  BY <1>4, CompletionBus
<1>5. CASE RecycleEntry
  BY <1>5, BusSame DEF RecycleEntry, pktVars
<1>6. CASE CE_per_engine_servicereap
  BY <1>6, ReapBus
<1>7. ASSUME NEW asked \in 0..TxAlloc, NEW quiet \in 0..TxAlloc,
             HTCProcessCreditRpt(asked, quiet)
      PROVE  BusInv'
  BY <1>7, BusSame DEF HTCProcessCreditRpt, pktVars
<1>8. CASE UNCHANGED vars
  BY <1>8, BusSame DEF vars, pktVars, hifVars
<1> QED
  BY <1>1, <1>2, <1>3, <1>4, <1>5, <1>6, <1>7, <1>8 DEF Next

(* A client is told A_OK only for a packet the bus accepted since it was   *)
(* posted, and A_ECANCELED or A_NO_RESOURCE only for one it never saw,     *)
(* although flush, send-full and failed sends hand packets back and forth. *)
THEOREM ClientsToldTruth == Spec => []CompletionTruthful
<1>1. Init => BusInv
  BY EmptyFacts DEF Init, BusInv, CompletionTruthful
<1>2. BusInv => CompletionTruthful
  BY DEF BusInv
<1> QED
  BY <1>1, <1>2, NextBus, Placed, PTL DEF Spec

-----------------------------------------------------------------------------
(* Network buffers.  A packet on its way to the bus carries one header,    *)
(* and is mapped already, once, unless the endpoint uses credits; then     *)
(* HTCIssuePackets maps it each time the packet is taken to the bus.       *)

OneHeader(p) == nbuf[p].hdr = 1
Mapped(p) == nbuf[p].fixup /\ (~CreditFlow => nbuf[p].maps = 1)
Ready(p) == OneHeader(p) /\ (~CreditFlow => Mapped(p))

(* Packets that may still be handed to the bus as they are. *)
OnTheWay(p) ==
    \/ p \in Range(TxQueue)
    \/ \E t \in Contexts : p \in Range(sendQ[t])
    \/ \E t \in Contexts : pc[t] = "overflow" /\ p \in Range(callers[t])

HeaderInv ==
    /\ \A p \in Packets : OnTheWay(p) => Ready(p)
    /\ \A t \in Contexts : pc[t] = "hif" => Mapped(Head(sendQ[t]))
    /\ \A p \in Range(ring) : Mapped(p) /\ OneHeader(p)

(* A packet whose buffer is not touched. *)
LEMMA NbufSame ==
  ASSUME NEW p, nbuf'[p] = nbuf[p]
  PROVE  /\ Ready(p) => Ready(p)'
         /\ Mapped(p) => Mapped(p)'
         /\ OneHeader(p) => OneHeader(p)'
BY DEF Ready, Mapped, OneHeader

(* A step of one context that brings no packet on the way. *)
LEMMA WayKept ==
  ASSUME TypeOK, NEW t \in Contexts, NEW w, NEW s, NEW c, w # "overflow",
         pc' = [pc EXCEPT ![t] = w], sendQ' = [sendQ EXCEPT ![t] = s],
         callers' = [callers EXCEPT ![t] = c],
         \A p \in Range(TxQueue') : OnTheWay(p), \A p \in Range(s) : OnTheWay(p)
  PROVE  \A p : OnTheWay(p)' => OnTheWay(p)
<1>1. /\ pc'[t] = w /\ sendQ'[t] = s
      /\ \A u \in Contexts : u # t => pc'[u] = pc[u] /\ sendQ'[u] = sendQ[u]
                                        /\ callers'[u] = callers[u]
  BY DEF TypeOK
<1> SUFFICES ASSUME NEW p, OnTheWay(p)' PROVE OnTheWay(p)
  OBVIOUS
<1>2. CASE p \in Range(TxQueue')
  BY <1>2
<1>3. ASSUME NEW u \in Contexts, p \in Range(sendQ'[u]) PROVE OnTheWay(p)
  <2>1. CASE u = t
    BY <1>1, <1>3, <2>1
  <2>2. CASE u # t
    BY <1>1, <1>3, <2>2 DEF OnTheWay
  <2> QED
    BY <2>1, <2>2
<1>4. ASSUME NEW u \in Contexts, pc'[u] = "overflow", p \in Range(callers'[u])
      PROVE  OnTheWay(p)
  <2>1. u # t
    BY <1>1, <1>4
  <2> QED
    BY <1>1, <1>4, <2>1 DEF OnTheWay
<1> QED
  BY <1>2, <1>3, <1>4 DEF OnTheWay

(* What the context has in its hands, and what waits, is on the way. *)
LEMMA WayHere ==
  ASSUME NEW t \in Contexts
  PROVE  /\ \A p \in Range(TxQueue) : OnTheWay(p)
         /\ \A p \in Range(sendQ[t]) : OnTheWay(p)
         /\ pc[t] = "overflow" => \A p \in Range(callers[t]) : OnTheWay(p)
BY DEF OnTheWay

(* Nothing on the way is with the client, in the ring or left over. *)
LEMMA WayNotClient ==
  Apart => /\ \A p : OnTheWay(p) => p \notin client /\ p \notin Range(ring)
           /\ \A t \in Contexts : pc[t] # "overflow" =>
                 \A p \in Range(callers[t]) : ~OnTheWay(p) /\ p \notin Range(ring)
<1> SUFFICES ASSUME Apart
             PROVE  /\ \A p : OnTheWay(p) => p \notin client /\ p \notin Range(ring)
                    /\ \A t \in Contexts : pc[t] # "overflow" =>
                          \A p \in Range(callers[t]) : ~OnTheWay(p) /\ p \notin Range(ring)
  OBVIOUS
<1>1. ASSUME NEW p, OnTheWay(p) PROVE p \notin client /\ p \notin Range(ring)
  <2>1. CASE p \in Range(TxQueue)
    BY <2>1 DEF Apart
  <2>2. ASSUME NEW t \in Contexts, p \in Range(sendQ[t]) \cup Range(callers[t])
        PROVE  p \notin client /\ p \notin Range(ring)
    BY <2>2 DEF Apart, HeldBy, Shared
  <2> QED
    BY <1>1, <2>1, <2>2 DEF OnTheWay
<1>2. ASSUME NEW t \in Contexts, pc[t] # "overflow", NEW p \in Range(callers[t])
      PROVE  ~OnTheWay(p) /\ p \notin Range(ring)
  <2>1. p \in HeldBy(t)
    BY DEF HeldBy
  <2>2. p \notin Shared /\ p \notin Range(sendQ[t])
    BY <2>1 DEF Apart
  <2>3. \A u \in Contexts : u # t => p \notin HeldBy(u)
    BY <2>1 DEF Apart
  <2> QED
    BY <1>2, <2>2, <2>3 DEF OnTheWay, HeldBy, Shared
<1> QED
  BY <1>1, <1>2

LEMMA WayNotClientNext ==
  Apart' => /\ \A p : OnTheWay(p)' => p \notin client' /\ p \notin Range(ring')
            /\ \A t \in Contexts : pc'[t] # "overflow" =>
                 \A p \in Range(callers'[t]) : ~OnTheWay(p)' /\ p \notin Range(ring')
<1>1. (Apart => /\ \A p : OnTheWay(p) => p \notin client /\ p \notin Range(ring)
               /\ \A t \in Contexts : pc[t] # "overflow" =>
                    \A p \in Range(callers[t]) : ~OnTheWay(p) /\ p \notin Range(ring))'
  BY WayNotClient, PTL
<1> QED
  BY <1>1

(* Steps after which no other packet is on the way or in the ring, and     *)
(* that touch only buffers of other packets.                               *)
LEMMA HeaderKept ==
  ASSUME HeaderInv,
         \A p \in Packets : OnTheWay(p)' => OnTheWay(p) /\ nbuf'[p] = nbuf[p],
         \A p \in Range(ring') : p \in Range(ring) /\ nbuf'[p] = nbuf[p],
         \A t \in Contexts : pc'[t] = "hif" => /\ pc[t] = "hif" /\ sendQ'[t] = sendQ[t]
                                               /\ nbuf'[Head(sendQ[t])] = nbuf[Head(sendQ[t])]
  PROVE  HeaderInv'
<1>1. \A p \in Packets : OnTheWay(p)' => Ready(p)'
  BY NbufSame DEF HeaderInv
<1>2. \A p \in Range(ring') : Mapped(p)' /\ OneHeader(p)'
  BY NbufSame DEF HeaderInv
<1>3. ASSUME NEW t \in Contexts, pc'[t] = "hif" PROVE Mapped(Head(sendQ[t]))'
  <2>1. PICK p : p = Head(sendQ[t])
    OBVIOUS
  <2>2. Mapped(p) /\ nbuf'[p] = nbuf[p]
    BY <1>3, <2>1 DEF HeaderInv
  <2>3. Mapped(p)'
    BY <2>2, NbufSame
  <2>4. p = Head(sendQ'[t])
    BY <1>3, <2>1
  <2> QED
    BY <2>3, <2>4 DEF Mapped
<1> QED
  BY <1>1, <1>2, <1>3 DEF HeaderInv

(* A step of one context that maps no buffer and posts no packet. *)
LEMMA HeaderStep ==
  ASSUME TypeOK, PlaceInv, HeaderInv, NEW t \in Contexts, NEW w, NEW s, NEW c,
         w # "overflow", w # "hif",
         pc' = [pc EXCEPT ![t] = w], sendQ' = [sendQ EXCEPT ![t] = s],
         callers' = [callers EXCEPT ![t] = c],
         \A p \in Range(TxQueue') : OnTheWay(p), \A p \in Range(s) : OnTheWay(p),
         \A p \in Range(ring') : p \in Range(ring),
         \A p \in Packets : OnTheWay(p)' \/ p \in Range(ring') => nbuf'[p] = nbuf[p]
  PROVE  HeaderInv'
<1>1. \A p : OnTheWay(p)' => OnTheWay(p)
  BY WayKept
<1>2. \A p \in Range(ring') : p \in Packets
  BY RangeType DEF TypeOK
<1>3. ASSUME NEW u \in Contexts, pc'[u] = "hif"
      PROVE  /\ pc[u] = "hif" /\ sendQ'[u] = sendQ[u]
             /\ nbuf'[Head(sendQ[u])] = nbuf[Head(sendQ[u])]
  <2>1. pc[u] = "hif" /\ sendQ'[u] = sendQ[u]
    BY <1>3 DEF TypeOK
  <2>2. sendQ[u] # <<>> /\ sendQ[u] \in Seq(Packets)
    BY <2>1 DEF PlaceInv, Hands, TypeOK
  <2>3. PICK p \in Packets : p = Head(sendQ[u]) /\ p \in Range(sendQ[u])
    BY <2>2, HeadAndTail
  <2>4. p \in Range(sendQ'[u])
    BY <2>1, <2>3
  <2>5. OnTheWay(p)'
    BY <2>4 DEF OnTheWay
  <2> QED
    BY <2>1, <2>3, <2>5
<1>4. \A p \in Packets : OnTheWay(p)' => OnTheWay(p) /\ nbuf'[p] = nbuf[p]
  BY <1>1
<1>5. \A p \in Range(ring') : p \in Range(ring) /\ nbuf'[p] = nbuf[p]
  BY <1>2
<1> QED
  BY <1>3, <1>4, <1>5, HeaderKept

LEMMA OverflowHeader ==
  ASSUME TypeOK, PlaceInv, PlaceInv', HeaderInv, EpSendFull # "KEEP",
         NEW t \in Contexts, CheckOverflow(t)
  PROVE  HeaderInv'
<1>1. /\ pc[t] = "overflow"
      /\ sendQ' = [sendQ EXCEPT ![t] = Taken(t)]
      /\ callers' = [callers EXCEPT ![t] = Left(t)]
      /\ pc' = [pc EXCEPT ![t] = IF Taken(t) = <<>> THEN "cleanup" ELSE "resources"]
      /\ UNCHANGED <<TxQueue, ring>>
  BY DEF CheckOverflow, Taken, Left, epVars, hifVars
<1>2. PICK w \in {"cleanup", "resources"} : pc' = [pc EXCEPT ![t] = w]
  BY <1>1
<1>3. Range(Taken(t)) \subseteq Range(callers[t])
  BY TakenAndLeft DEF PlaceInv, OnceEach
<1>4. /\ \A p \in Range(TxQueue') : OnTheWay(p)
      /\ \A p \in Range(Taken(t)) : OnTheWay(p)
  BY <1>1, <1>3, WayHere
<1>5. ASSUME NEW p \in Packets, OnTheWay(p)' \/ p \in Range(ring') PROVE nbuf'[p] = nbuf[p]
  <2>1. CASE Overflow(t) > 0 /\ EpSendFull = "DROP"
    <3> DEFINE over == SubSeq(callers[t], Len(callers[t]) - Overflow(t) + 1, Len(callers[t]))
               n == Len(callers[t]) - Overflow(t)
    <3>1. n \in Nat /\ n < Len(callers[t]) /\ callers[t] \in Seq(Packets)
      BY <2>1, OverflowRange DEF TypeOK
    <3>2. Taken(t) # callers[t]
      <4>1. Taken(t) = SubSeq(callers[t], 1, n)
        BY <2>1 DEF Taken
      <4> HIDE DEF n
      <4>2. Len(SubSeq(callers[t], 1, n)) = n
        BY <3>1, CutInTwo, LenProperties
      <4> QED
        BY <3>1, <4>1, <4>2
    <3>3. Left(t) = over
      BY <3>2 DEF Left
    <3>4. pc'[t] # "overflow" /\ callers'[t] = over
      BY <1>1, <1>2, <3>3 DEF TypeOK
    <3>5. p \notin Range(over)
      BY <1>5, <3>4, WayNotClientNext DEF PlaceInv
    <3>6. nbuf' = [b \in Packets |-> IF b \in Range(over)
                     THEN IF EpSendFull = "KEEP" THEN PushHeader(RestoreTxPacket(nbuf[b]))
                                                 ELSE RestoreTxPacket(nbuf[b])
                     ELSE nbuf[b]]
      BY <2>1 DEF CheckOverflow, OnNbufs
    <3> HIDE DEF over
    <3> QED
      BY <3>5, <3>6
  <2>2. CASE ~(Overflow(t) > 0 /\ EpSendFull = "DROP")
    <3>1. ~(Overflow(t) > 0 /\ EpSendFull # "NULL")
      BY <2>2, ConstantsAssumption
    <3> QED
      BY <3>1 DEF CheckOverflow
  <2> QED
    BY <2>1, <2>2
<1>6. \A p \in Range(ring') : p \in Range(ring)
  BY <1>1
<1> QED
  BY <1>1, <1>2, <1>4, <1>5, <1>6, HeaderStep

(* A pass of the drain loop. *)
LEMMA PassHeader ==
  ASSUME TypeOK, PlaceInv, HeaderInv, NEW t \in Contexts,
         NEW q \in Seq(Packets), IsInjective(q),
         Range(q) = Range(TxQueue) \cup Range(sendQ[t]), DrainPass(t, q),
         UNCHANGED <<nbuf, callers, ring>>
  PROVE  HeaderInv'
<1>1. PICK n \in 0..Len(q) :
        /\ TxQueue' = SubSeq(q, n + 1, Len(q))
        /\ sendQ' = [sendQ EXCEPT ![t] = SubSeq(q, 1, n)]
        /\ pc' = [pc EXCEPT ![t] = IF n = 0 THEN ReturnPoint(t, callers[t]) ELSE "issue"]
  BY DEF DrainPass
<1>2. n \in Nat /\ n <= Len(q)
  BY LenProperties
<1> DEFINE a == SubSeq(q, 1, n)
<1>3. Range(a) \cup Range(TxQueue') = Range(q) /\ sendQ' = [sendQ EXCEPT ![t] = a]
  BY <1>1, <1>2, CutApart
<1> HIDE DEF a
<1>4. (\A p \in Range(TxQueue') : OnTheWay(p)) /\ \A p \in Range(a) : OnTheWay(p)
  BY <1>3, WayHere
<1> DEFINE w == IF n = 0 THEN ReturnPoint(t, callers[t]) ELSE "issue"
<1>5. pc' = [pc EXCEPT ![t] = w] /\ w # "overflow" /\ w # "hif"
  BY <1>1, ReturnPlaces
<1> HIDE DEF w
<1>6. callers' = [callers EXCEPT ![t] = callers[t]]
  BY AtContext DEF PlaceInv
<1>7. \A p \in Range(ring') : p \in Range(ring)
  OBVIOUS
<1> QED
  BY <1>3, <1>4, <1>5, <1>6, <1>7, HeaderStep

LEMMA EnterHeader ==
  ASSUME TypeOK, PlaceInv, HeaderInv, NEW t \in Contexts, EnterTrySend(t)
  PROVE  HeaderInv'
<1>1. UNCHANGED <<nbuf, callers, ring>>
  BY DEF EnterTrySend, hifVars
<1>2. /\ Enqueued(t) \in Seq(Packets) /\ IsInjective(Enqueued(t))
      /\ Range(Enqueued(t)) = Range(TxQueue) \cup Range(sendQ[t])
  BY EnqueuedFacts DEF PlaceInv
<1>3. CASE TxProcessCount > 0
  <2>1. /\ TxQueue' = Enqueued(t)
        /\ sendQ' = [sendQ EXCEPT ![t] = <<>>]
        /\ pc' = [pc EXCEPT ![t] = ReturnPoint(t, callers[t])]
    BY <1>3 DEF EnterTrySend
  <2>2. PICK w \in {"cleanup", "clear", "recycle", "idle"} : pc' = [pc EXCEPT ![t] = w]
    BY <2>1, ReturnPlaces
  <2>3. (\A p \in Range(TxQueue') : OnTheWay(p)) /\ \A p \in Range(<<>>) : OnTheWay(p)
    BY <1>2, <2>1, WayHere, EmptyFacts
  <2>4. callers' = [callers EXCEPT ![t] = callers[t]]
    BY <1>1, AtContext DEF PlaceInv
  <2>5. \A p \in Range(ring') : p \in Range(ring)
    BY <1>1
  <2> QED
    BY <1>1, <2>1, <2>2, <2>3, <2>4, <2>5, HeaderStep
<1>4. CASE ~(TxProcessCount > 0)
  <2>1. DrainPass(t, Enqueued(t))
    BY <1>4 DEF EnterTrySend
  <2> QED
    BY <1>1, <1>2, <2>1, PassHeader
<1> QED
  BY <1>3, <1>4

LEMMA DrainAgainHeader ==
  ASSUME TypeOK, PlaceInv, HeaderInv, NEW t \in Contexts, DrainAgain(t)
  PROVE  HeaderInv'
<1>1. pc[t] = "drain" /\ DrainPass(t, TxQueue) /\ UNCHANGED <<nbuf, callers, ring>>
  BY DEF DrainAgain, hifVars
<1>2. sendQ[t] = <<>>
  BY <1>1 DEF PlaceInv, Hands
<1>3. Range(TxQueue) = Range(TxQueue) \cup Range(sendQ[t])
  BY <1>2, EmptyFacts
<1>4. TxQueue \in Seq(Packets) /\ IsInjective(TxQueue)
  BY DEF TypeOK, PlaceInv, OnceEach
<1> QED
  BY <1>1, <1>3, <1>4, PassHeader

(* The step changes a position and moves nothing but from hand to queue. *)
LEMMA MoveHeader ==
  ASSUME TypeOK, PlaceInv, HeaderInv, NEW t \in Contexts,
         \/ ReadResources(t) \/ RefreshResources(t) \/ HTCSetNodropPkt(t)
         \/ IssueFailed(t) \/ Requeue(t)
  PROVE  HeaderInv'
<1>1. UNCHANGED <<nbuf, callers, ring>>
  BY DEF ReadResources, RefreshResources, HTCSetNodropPkt, IssueFailed, Requeue, hifVars,
         pktVars
<1>2. callers' = [callers EXCEPT ![t] = callers[t]] /\ sendQ = [sendQ EXCEPT ![t] = sendQ[t]]
  BY <1>1, AtContext DEF PlaceInv
<1>3. \A p \in Range(ring') : p \in Range(ring)
  BY <1>1
<1>4. CASE ReadResources(t) \/ RefreshResources(t) \/ HTCSetNodropPkt(t) \/ IssueFailed(t)
  <2>1. UNCHANGED <<TxQueue, sendQ>>
    BY <1>4 DEF ReadResources, RefreshResources, HTCSetNodropPkt, IssueFailed, epVars
  <2>2. PICK w \in {"enter", "drain", "idle", "requeue"} : pc' = [pc EXCEPT ![t] = w]
    BY <1>4 DEF ReadResources, RefreshResources, HTCSetNodropPkt, IssueFailed
  <2>3. sendQ' = [sendQ EXCEPT ![t] = sendQ[t]]
    BY <1>2, <2>1
  <2>4. (\A p \in Range(TxQueue') : OnTheWay(p)) /\ \A p \in Range(sendQ[t]) : OnTheWay(p)
    BY <2>1, WayHere
  <2> QED
    BY <1>1, <1>2, <1>3, <2>2, <2>3, <2>4, HeaderStep
<1>5. CASE Requeue(t)
  <2>1. /\ TxQueue' = sendQ[t] \o TxQueue
        /\ sendQ' = [sendQ EXCEPT ![t] = <<>>]
        /\ pc' = [pc EXCEPT ![t] = ReturnPoint(t, callers[t])]
    BY <1>5 DEF Requeue
  <2>2. PICK w \in {"cleanup", "clear", "recycle", "idle"} : pc' = [pc EXCEPT ![t] = w]
    BY <2>1, ReturnPlaces
  <2>3. Range(TxQueue') = Range(sendQ[t]) \cup Range(TxQueue)
    BY <2>1, Concatenated DEF TypeOK
  <2>4. (\A p \in Range(TxQueue') : OnTheWay(p)) /\ \A p \in Range(<<>>) : OnTheWay(p)
    BY <2>3, WayHere, EmptyFacts
  <2> QED
    BY <1>1, <1>2, <1>3, <2>1, <2>2, <2>4, HeaderStep
<1> QED
  BY <1>4, <1>5

(* Mapping a buffer keeps its header, and is counted. *)
LEMMA MapFacts ==
  ASSUME NEW b \in Netbufs
  PROVE  Map(b).hdr = b.hdr /\ Map(b).fixup /\ (b.maps = 0 => Map(b).maps = 1)
<1>1. Map(b).hdr = b.hdr
  BY DEF Map, Netbufs
<1>2. Map(b).fixup
  BY DEF Map, Netbufs
<1>3. b.maps = 0 => Map(b).maps = 1
  BY DEF Map, Netbufs, MapsCounted
<1> QED
  BY <1>1, <1>2, <1>3

(* HTCSendPktsMultiple leaves a buffer with one header. *)
LEMMA PostedReady ==
  ASSUME NEW b, b = IF CreditFlow THEN PushHeader(Fresh) ELSE Map(PushHeader(Fresh))
  PROVE  b.hdr = 1 /\ (~CreditFlow => b.fixup /\ b.maps = 1)
<1>1. ASSUME NEW c \in Netbufs PROVE PushHeader(c).hdr = c.hdr + 1
  BY DEF PushHeader, Netbufs
<1>2. Fresh \in Netbufs /\ PushHeader(Fresh) \in Netbufs
  BY NetbufOps
<1>3. Fresh.hdr = 0 /\ PushHeader(Fresh).maps = 0
  BY DEF Fresh, PushHeader
<1>4. PushHeader(Fresh).hdr = 1
  BY <1>1, <1>2, <1>3
<1>5. LET m == Map(PushHeader(Fresh)) IN m.hdr = 1 /\ m.fixup /\ m.maps = 1
  BY <1>2, <1>3, <1>4, MapFacts
<1>6. b.hdr = 1
  BY <1>4, <1>5
<1>7. ~CreditFlow => b.fixup /\ b.maps = 1
  BY <1>5
<1> QED
  BY <1>6, <1>7

LEMMA SendHeader ==
  ASSUME TypeOK, PlaceInv, HeaderInv, NEW t \in Threads, HTCSendPktsMultiple(t)
  PROVE  HeaderInv'
<1>1. PICK s \in Batches :
        /\ nbuf' = [p \in Packets |->
                      IF p \notin Range(s) THEN nbuf[p]
                      ELSE IF CreditFlow THEN PushHeader(Fresh) ELSE Map(PushHeader(Fresh))]
        /\ callers' = [callers EXCEPT ![t] = s]
        /\ pc' = [pc EXCEPT ![t] = "overflow"]
        /\ UNCHANGED <<TxQueue, sendQ, ring>>
  BY DEF HTCSendPktsMultiple, hifVars
<1>2. t \in Contexts /\ pc[t] = "idle"
  BY DEF Contexts, HTCSendPktsMultiple
<1>3. Range(s) \subseteq client
  BY DEF Batches, Range
<1>4. /\ pc'[t] = "overflow" /\ callers'[t] = s
      /\ \A u \in Contexts : u # t => pc'[u] = pc[u] /\ callers'[u] = callers[u]
  BY <1>1, <1>2 DEF TypeOK
<1>5. \A p : OnTheWay(p)' => OnTheWay(p) \/ p \in Range(s)
  BY <1>1, <1>4 DEF OnTheWay
<1>6. ASSUME NEW p \in Packets, OnTheWay(p)' PROVE Ready(p)'
  <2>1. CASE p \in Range(s)
    <3>1. nbuf'[p] = IF CreditFlow THEN PushHeader(Fresh) ELSE Map(PushHeader(Fresh))
      BY <1>1, <2>1
    <3>2. nbuf'[p].hdr = 1 /\ (~CreditFlow => nbuf'[p].fixup /\ nbuf'[p].maps = 1)
      BY <3>1, PostedReady
    <3> QED
      BY <3>2 DEF Ready, OneHeader, Mapped
  <2>2. CASE p \notin Range(s)
    <3>1. nbuf'[p] = nbuf[p] /\ Ready(p)
      BY <1>1, <1>5, <1>6, <2>2 DEF HeaderInv
    <3> QED
      BY <3>1, NbufSame
  <2> QED
    BY <2>1, <2>2
<1>7. ASSUME NEW p \in Range(ring') PROVE Mapped(p)' /\ OneHeader(p)'
  <2>1. p \in Range(ring) /\ p \in Packets /\ p \notin Range(s)
    BY <1>1, <1>3, RangeType DEF TypeOK, PlaceInv, Apart
  <2>2. nbuf'[p] = nbuf[p]
    BY <1>1, <2>1
  <2> QED
    BY <2>1, <2>2, NbufSame DEF HeaderInv
<1>8. ASSUME NEW u \in Contexts, pc'[u] = "hif" PROVE Mapped(Head(sendQ[u]))'
  <2>1. pc[u] = "hif" /\ u # t
    BY <1>4, <1>8
  <2>2. sendQ[u] # <<>> /\ sendQ[u] \in Seq(Packets)
    BY <2>1 DEF PlaceInv, Hands, TypeOK
  <2>3. PICK p \in Packets : p = Head(sendQ[u]) /\ p \in Range(sendQ[u])
    BY <2>2, HeadAndTail
  <2>4. p \notin client
    BY <2>3, WayHere, WayNotClient DEF PlaceInv
  <2>5. nbuf'[p] = nbuf[p] /\ Mapped(p)
    BY <1>1, <1>3, <2>1, <2>3, <2>4 DEF HeaderInv
  <2>6. Mapped(p)'
    BY <2>5, NbufSame
  <2>7. p = Head(sendQ'[u])
    BY <1>1, <2>3
  <2> QED
    BY <2>6, <2>7 DEF Mapped
<1> QED
  BY <1>6, <1>7, <1>8 DEF HeaderInv

LEMMA IssueHeader ==
  ASSUME TypeOK, DrainInv, PlaceInv, HeaderInv, NEW t \in Contexts, IssuePacket(t)
  PROVE  HeaderInv'
<1>1. /\ pc[t] = "issue" /\ sendQ[t] # <<>>
      /\ pc' = [pc EXCEPT ![t] = "hif"]
      /\ UNCHANGED <<TxQueue, callers, sendQ, ring>>
  BY DEF IssuePacket, hifVars
<1>2. PICK h \in Packets : h = Head(sendQ[t]) /\ h \in Range(sendQ[t])
  BY <1>1, HeadAndTail DEF TypeOK
<1>3. pc'[t] = "hif" /\ \A u \in Contexts : u # t => pc'[u] = pc[u] /\ pc[u] # "hif"
  BY <1>1, NoOtherHif DEF TypeOK
<1>4. \A p : OnTheWay(p)' => OnTheWay(p)
  BY <1>1, <1>3 DEF OnTheWay
<1>5. Ready(h)
  BY <1>2, WayHere DEF HeaderInv
<1>6. /\ \A p \in Packets : p # h => nbuf'[p] = nbuf[p]
      /\ CreditFlow => nbuf'[h] = Map(nbuf[h])
      /\ ~CreditFlow => nbuf' = nbuf
  <2>1. CASE CreditFlow
    <3>1. nbuf' = [p \in Packets |-> IF p \in {Head(sendQ[t])} THEN Map(nbuf[p]) ELSE nbuf[p]]
      BY <2>1 DEF IssuePacket, OnNbufs
    <3> QED
      BY <1>2, <2>1, <3>1
  <2>2. CASE ~CreditFlow
    BY <2>2 DEF IssuePacket
  <2> QED
    BY <2>1, <2>2
<1>7. Ready(h)' /\ Mapped(h)'
  <2>1. CASE CreditFlow
    <3>1. nbuf'[h].hdr = nbuf[h].hdr
      BY <1>2, <1>6, <2>1, MapFacts DEF TypeOK
    <3>2. nbuf'[h].fixup
      BY <1>2, <1>6, <2>1, MapFacts DEF TypeOK
    <3>3. Mapped(h)'
      BY <2>1, <3>2 DEF Mapped
    <3>4. OneHeader(h)'
      BY <1>5, <3>1 DEF Ready, OneHeader
    <3> QED
      BY <3>3, <3>4 DEF Ready
  <2>2. CASE ~CreditFlow
    BY <1>5, <1>6, <2>2, NbufSame DEF Ready
  <2> QED
    BY <2>1, <2>2
<1>8. ASSUME NEW p \in Packets, OnTheWay(p)' PROVE Ready(p)'
  <2>1. CASE p = h
    BY <1>7, <2>1
  <2>2. CASE p # h
    BY <1>4, <1>6, <1>8, <2>2, NbufSame DEF HeaderInv
  <2> QED
    BY <2>1, <2>2
<1>9. ASSUME NEW p \in Range(ring') PROVE Mapped(p)' /\ OneHeader(p)'
  <2>1. p \in Range(ring) /\ p \in Packets
    BY <1>1, RangeType DEF TypeOK
  <2>2. p # h
    BY <1>2, <2>1, WayHere, WayNotClient DEF PlaceInv
  <2> QED
    BY <1>6, <2>1, <2>2, NbufSame DEF HeaderInv
<1>10. ASSUME NEW u \in Contexts, pc'[u] = "hif" PROVE Mapped(Head(sendQ[u]))'
  <2>1. u = t
    BY <1>3, <1>10
  <2>2. h = Head(sendQ'[u])
    BY <1>1, <1>2, <2>1
  <2> QED
    BY <1>7, <2>2 DEF Mapped
<1> QED
  BY <1>8, <1>9, <1>10 DEF HeaderInv

LEMMA HifSendHeader ==
  ASSUME TypeOK, DrainInv, PlaceInv, HeaderInv, NEW t \in Contexts, HIFSend_head(t)
  PROVE  HeaderInv'
<1>1. PICK h : h = Head(sendQ[t])
  OBVIOUS
<1>2. /\ pc[t] = "hif" /\ ring' = Append(ring, h)
      /\ sendQ' = [sendQ EXCEPT ![t] = Tail(sendQ[t])]
      /\ pc' = [pc EXCEPT ![t] = "issue"]
      /\ UNCHANGED <<TxQueue, callers, nbuf>>
  BY <1>1 DEF HIFSend_head, epVars, TypeOK
<1>3. sendQ[t] # <<>> /\ sendQ[t] \in Seq(Packets) /\ ring \in Seq(Packets)
  BY <1>2 DEF PlaceInv, Hands, TypeOK
<1>4. /\ h \in Packets /\ h \in Range(sendQ[t])
      /\ Range(Tail(sendQ[t])) \subseteq Range(sendQ[t])
  BY <1>1, <1>3, HeadAndTail
<1>5. Mapped(h) /\ Ready(h)
  BY <1>1, <1>2, <1>4, WayHere DEF HeaderInv
<1>6. Range(ring') = Range(ring) \cup {h}
  BY <1>2, <1>3, <1>4, Appended
<1>7. (\A p \in Range(TxQueue') : OnTheWay(p)) /\ \A p \in Range(Tail(sendQ[t])) : OnTheWay(p)
  BY <1>2, <1>4, WayHere
<1>8. callers' = [callers EXCEPT ![t] = callers[t]]
  BY <1>2, AtContext DEF PlaceInv
<1>9. \A p : OnTheWay(p)' => OnTheWay(p)
  <2>1. PICK w : w = "issue"
    OBVIOUS
  <2>2. pc' = [pc EXCEPT ![t] = w] /\ w # "overflow"
    BY <1>2, <2>1
  <2> QED
    BY <1>2, <1>7, <1>8, <2>2, WayKept
<1>10. \A p : (Ready(p) => Ready(p)') /\ (Mapped(p) => Mapped(p)') /\ (OneHeader(p) => OneHeader(p)')
  BY <1>2, NbufSame
<1>11. \A p \in Packets : OnTheWay(p)' => Ready(p)'
  BY <1>9, <1>10 DEF HeaderInv
<1>12. OneHeader(h)
  BY <1>5 DEF Ready
<1>13. ASSUME NEW p \in Range(ring') PROVE Mapped(p)' /\ OneHeader(p)'
  <2>1. CASE p = h
    BY <1>5, <1>10, <1>12, <2>1
  <2>2. CASE p \in Range(ring)
    BY <1>10, <2>2 DEF HeaderInv
  <2> QED
    BY <1>6, <1>13, <2>1, <2>2
<1>14. \A u \in Contexts : pc'[u] # "hif"
  BY <1>2, NoOtherHif DEF TypeOK
<1> QED
  BY <1>11, <1>13, <1>14 DEF HeaderInv

(* Packets are given back: their buffers are restored, no others. *)
LEMMA GiveBackNbuf ==
  ASSUME NEW S, NEW st, GiveBack(S, st)
  PROVE  /\ client' = client \cup S
         /\ \A p \in Packets : p \notin S => nbuf'[p] = nbuf[p]
BY DEF GiveBack, OnNbufs

LEMMA LeftoversHeader ==
  ASSUME TypeOK, PlaceInv, PlaceInv', HeaderInv, NEW t \in Contexts, CompleteLeftovers(t)
  PROVE  HeaderInv'
<1>1. /\ GiveBack(Range(callers[t]), "A_NO_RESOURCE")
      /\ callers' = [callers EXCEPT ![t] = <<>>]
      /\ pc' = [pc EXCEPT ![t] = ReturnPoint(t, <<>>)]
      /\ UNCHANGED <<TxQueue, sendQ, ring>>
  BY DEF CompleteLeftovers, hifVars, epVars
<1>2. PICK w \in {"cleanup", "clear", "recycle", "idle"} : pc' = [pc EXCEPT ![t] = w]
  BY <1>1, ReturnPlaces
<1>3. sendQ' = [sendQ EXCEPT ![t] = sendQ[t]]
  BY <1>1, AtContext DEF PlaceInv
<1>4. (\A p \in Range(TxQueue') : OnTheWay(p)) /\ \A p \in Range(sendQ[t]) : OnTheWay(p)
  BY <1>1, WayHere
<1>5. ASSUME NEW p \in Packets, OnTheWay(p)' \/ p \in Range(ring') PROVE nbuf'[p] = nbuf[p]
  <2>1. p \notin client'
    BY <1>5, WayNotClientNext DEF PlaceInv, Apart
  <2> QED
    BY <1>1, <2>1, GiveBackNbuf
<1>6. \A p \in Range(ring') : p \in Range(ring)
  BY <1>1
<1> QED
  BY <1>1, <1>2, <1>3, <1>4, <1>5, <1>6, HeaderStep

(* No context moves, and TxQueue and the ring only lose packets. *)
LEMMA HeaderShared ==
  ASSUME TypeOK, PlaceInv, PlaceInv', HeaderInv, UNCHANGED <<sendQ, callers>>,
         \A t \in Contexts : /\ pc'[t] = "hif" => pc[t] = "hif"
                             /\ pc'[t] = "overflow" => pc[t] = "overflow",
         \A p \in Range(TxQueue') : p \in Range(TxQueue),
         \A p \in Range(ring') : p \in Range(ring),
         \A p \in Packets : p \notin client' => nbuf'[p] = nbuf[p]
  PROVE  HeaderInv'
<1>1. \A p : OnTheWay(p)' => OnTheWay(p)
  BY DEF OnTheWay
<1>2. \A p \in Packets : OnTheWay(p)' => nbuf'[p] = nbuf[p]
  BY WayNotClientNext DEF PlaceInv
<1>3. \A p \in Range(ring') : p \in Packets /\ nbuf'[p] = nbuf[p]
  BY RangeType DEF PlaceInv, Apart, TypeOK
<1>4. ASSUME NEW u \in Contexts, pc'[u] = "hif"
      PROVE  /\ pc[u] = "hif" /\ sendQ'[u] = sendQ[u]
             /\ nbuf'[Head(sendQ[u])] = nbuf[Head(sendQ[u])]
  <2>1. pc[u] = "hif"
    BY <1>4
  <2>2. sendQ[u] # <<>> /\ sendQ[u] \in Seq(Packets)
    BY <2>1 DEF PlaceInv, Hands, TypeOK
  <2>3. PICK p \in Packets : p = Head(sendQ[u]) /\ p \in Range(sendQ[u])
    BY <2>2, HeadAndTail
  <2>4. p \in Range(sendQ'[u])
    BY <2>3
  <2>5. OnTheWay(p)'
    BY <2>4 DEF OnTheWay
  <2> QED
    BY <1>2, <2>1, <2>3, <2>5
<1> QED
  BY <1>1, <1>2, <1>3, <1>4, HeaderKept

LEMMA NextHeader ==
  ASSUME EpSendFull # "KEEP"
  PROVE  (TypeInv /\ DrainInv /\ PlaceInv) /\ PlaceInv' /\ HeaderInv /\ [Next]_vars
            => HeaderInv'
<1> SUFFICES ASSUME TypeOK, DrainInv, PlaceInv, PlaceInv', HeaderInv, [Next]_vars
             PROVE  HeaderInv'
  BY DEF TypeInv
<1>1. ASSUME NEW t \in Threads, HTCSendPktsMultiple(t) PROVE HeaderInv'
  BY <1>1, SendHeader
<1>2. ASSUME NEW t \in Threads, HTCFlushEndpointTX(t) PROVE HeaderInv'
  <2>1. /\ GiveBack(Range(TxQueue), "A_ECANCELED") /\ TxQueue' = <<>>
        /\ UNCHANGED <<sendQ, callers, pc, ring>>
    BY <1>2 DEF HTCFlushEndpointTX, hifVars, ctxVars
  <2>2. \A p \in Packets : p \notin client' => nbuf'[p] = nbuf[p]
    BY <2>1, GiveBackNbuf
  <2>3. \A p \in Range(TxQueue') : p \in Range(TxQueue)
    BY <2>1, EmptyFacts
  <2> QED
    BY <2>1, <2>2, <2>3, HeaderShared
<1>3. ASSUME NEW t \in Contexts, TrySendStep(t) PROVE HeaderInv'
  BY <1>3, OverflowHeader, EnterHeader, IssueHeader, HifSendHeader, MoveHeader,
     DrainAgainHeader, LeftoversHeader
  DEF TrySendStep
<1>4. Tasklet \in Contexts
  BY DEF Contexts
<1>5. CASE HTCTxCompletionHandler
  <2>1. /\ ring # <<>> /\ ring' = Tail(ring) /\ GiveBack(Found(Head(ring)), "A_OK")
        /\ UNCHANGED <<TxQueue, sendQ, callers>>
    BY <1>5 DEF HTCTxCompletionHandler
  <2>2. PICK w \in {"recycle", "resources"} : pc' = [pc EXCEPT ![Tasklet] = w]
    BY <1>5 DEF HTCTxCompletionHandler
  <2>3. \A t \in Contexts : /\ pc'[t] = "hif" => pc[t] = "hif"
                            /\ pc'[t] = "overflow" => pc[t] = "overflow"
    BY <1>4, <2>2 DEF TypeOK
  <2>4. \A p \in Packets : p \notin client' => nbuf'[p] = nbuf[p]
    BY <2>1, GiveBackNbuf
  <2>5. \A p \in Range(ring') : p \in Range(ring)
    BY <2>1, HeadAndTail DEF TypeOK
  <2> QED
    BY <2>1, <2>3, <2>4, <2>5, HeaderShared
<1>6. CASE RecycleEntry
  <2>1. pc' = [pc EXCEPT ![Tasklet] = "idle"] /\ UNCHANGED <<TxQueue, sendQ, callers, ring, nbuf>>
    BY <1>6 DEF RecycleEntry, epVars, pktVars
  <2>2. \A t \in Contexts : /\ pc'[t] = "hif" => pc[t] = "hif"
                            /\ pc'[t] = "overflow" => pc[t] = "overflow"
    BY <1>4, <2>1 DEF TypeOK
  <2> QED
    BY <2>1, <2>2, HeaderShared
<1>7. CASE CE_per_engine_servicereap
  <2>1. /\ ring # <<>> /\ ring' = Tail(ring) /\ client' = client \cup {Head(ring)}
        /\ nbuf' = [nbuf EXCEPT ![Head(ring)] = Fresh]
        /\ UNCHANGED <<TxQueue, sendQ, callers, pc>>
    BY <1>7 DEF CE_per_engine_servicereap, epVars, ctxVars
  <2>2. \A p \in Packets : p \notin client' => nbuf'[p] = nbuf[p]
    BY <2>1 DEF TypeOK
  <2>3. \A p \in Range(ring') : p \in Range(ring)
    BY <2>1, HeadAndTail DEF TypeOK
  <2> QED
    BY <2>1, <2>2, <2>3, HeaderShared
<1>8. ASSUME NEW asked \in 0..TxAlloc, NEW quiet \in 0..TxAlloc,
             HTCProcessCreditRpt(asked, quiet)
      PROVE  HeaderInv'
  <2>1. UNCHANGED <<TxQueue, sendQ, callers, ring, nbuf>>
    BY <1>8 DEF HTCProcessCreditRpt, pktVars
  <2>2. PICK w \in {"resources", "idle"} : pc' = [pc EXCEPT ![Tasklet] = w]
    BY <1>8 DEF HTCProcessCreditRpt
  <2>3. \A t \in Contexts : /\ pc'[t] = "hif" => pc[t] = "hif"
                            /\ pc'[t] = "overflow" => pc[t] = "overflow"
    BY <1>4, <2>2 DEF TypeOK
  <2> QED
    BY <2>1, <2>3, HeaderShared
<1>9. CASE UNCHANGED vars
  <2>1. UNCHANGED <<TxQueue, sendQ, callers, ring, nbuf, pc>>
    BY <1>9 DEF vars, epVars, ctxVars, pktVars, hifVars
  <2> QED
    BY <2>1, HeaderShared
<1> QED
  BY <1>1, <1>2, <1>3, <1>5, <1>6, <1>7, <1>8, <1>9 DEF Next

(* Packets their client has back, or is about to get back from             *)
(* HTCSendPktsMultiple, are as they were before they were posted.          *)
Returned(p) ==
    \/ p \in client
    \/ \E t \in Contexts : pc[t] # "overflow" /\ p \in Range(callers[t])

ReturnInv == ~CreditFlow => \A p \in Packets : Returned(p) => nbuf[p] = Fresh

(* RestoreTxPacket undoes what posting a packet did, and nothing twice. *)
LEMMA Restored ==
  ASSUME TypeOK, ~CreditFlow, NEW p \in Packets
  PROVE  /\ Ready(p) => RestoreTxPacket(nbuf[p]) = Fresh
         /\ RestoreTxPacket(Fresh) = Fresh
<1>1. nbuf[p] \in Netbufs
  BY DEF TypeOK
<1>2. Ready(p) => nbuf[p].hdr = 1 /\ nbuf[p].maps = 1 /\ nbuf[p].fixup
  BY DEF Ready, OneHeader, Mapped
<1>3. ASSUME NEW b \in Netbufs, b.hdr = 1, b.maps = 1, b.fixup
      PROVE  RestoreTxPacket(b) = Fresh
  BY <1>3 DEF RestoreTxPacket, Fresh, Netbufs
<1>4. RestoreTxPacket(Fresh) = Fresh
  BY DEF RestoreTxPacket, Fresh
<1> QED
  BY <1>1, <1>2, <1>3, <1>4

(* Packets are given back that were on the way, in the ring or left over. *)
LEMMA BackFresh ==
  ASSUME TypeOK, HeaderInv, ReturnInv, NEW S, NEW st, GiveBack(S, st),
         \A p \in S : OnTheWay(p) \/ p \in Range(ring) \/ Returned(p),
         \A p \in Packets : Returned(p)' => Returned(p) \/ p \in S
  PROVE  ReturnInv'
<1> SUFFICES ASSUME ~CreditFlow, NEW p \in Packets, Returned(p)' PROVE nbuf'[p] = Fresh
  BY DEF ReturnInv
<1>1. nbuf'[p] = IF p \in S THEN RestoreTxPacket(nbuf[p]) ELSE nbuf[p]
  BY DEF GiveBack, OnNbufs
<1>2. CASE p \in S
  <2>1. CASE OnTheWay(p)
    BY <1>1, <1>2, <2>1, Restored DEF HeaderInv
  <2>2. CASE p \in Range(ring)
    BY <1>1, <1>2, <2>2, Restored DEF HeaderInv, Ready
  <2>3. CASE Returned(p)
    BY <1>1, <1>2, <2>3, Restored DEF ReturnInv
  <2> QED
    BY <1>2, <2>1, <2>2, <2>3
<1>3. CASE p \notin S
  BY <1>1, <1>3 DEF ReturnInv
<1> QED
  BY <1>2, <1>3

(* No buffer is touched and nothing more is given back. *)
LEMMA ReturnKept ==
  ASSUME ReturnInv, \A p \in Packets : Returned(p)' => Returned(p) /\ nbuf'[p] = nbuf[p]
  PROVE  ReturnInv'
BY DEF ReturnInv

LEMMA OverflowReturn ==
  ASSUME TypeOK, PlaceInv, PlaceInv', HeaderInv, ReturnInv, EpSendFull # "KEEP",
         NEW t \in Contexts, CheckOverflow(t)
  PROVE  ReturnInv'
<1> SUFFICES ASSUME ~CreditFlow, NEW p \in Packets, Returned(p)' PROVE nbuf'[p] = Fresh
  BY DEF ReturnInv
<1>1. /\ pc[t] = "overflow"
      /\ callers' = [callers EXCEPT ![t] = Left(t)]
      /\ pc' = [pc EXCEPT ![t] = IF Taken(t) = <<>> THEN "cleanup" ELSE "resources"]
      /\ UNCHANGED client
  BY DEF CheckOverflow, Taken, Left
<1>2. /\ pc'[t] # "overflow" /\ callers'[t] = Left(t)
      /\ \A u \in Contexts : u # t => pc'[u] = pc[u] /\ callers'[u] = callers[u]
  BY <1>1 DEF TypeOK
<1>3. Range(Left(t)) \subseteq Range(callers[t])
  BY TakenAndLeft DEF PlaceInv, OnceEach
<1> DEFINE over == SubSeq(callers[t], Len(callers[t]) - Overflow(t) + 1, Len(callers[t]))
<1>4. CASE p \in Range(Left(t))
  <2>1. Left(t) # <<>>
    BY <1>4, EmptyFacts
  <2>2. Overflow(t) > 0 /\ EpSendFull = "DROP" /\ Left(t) = over
    BY <2>1 DEF Left, Taken
  <2>3. nbuf' = [b \in Packets |-> IF b \in Range(over)
                   THEN IF EpSendFull = "KEEP" THEN PushHeader(RestoreTxPacket(nbuf[b]))
                                               ELSE RestoreTxPacket(nbuf[b])
                   ELSE nbuf[b]]
    BY <2>2 DEF CheckOverflow, OnNbufs
  <2>4. Ready(p)
    BY <1>1, <1>3, <1>4, WayHere DEF HeaderInv
  <2> HIDE DEF over
  <2>5. nbuf'[p] = RestoreTxPacket(nbuf[p])
    BY <1>4, <2>2, <2>3
  <2> QED
    BY <2>4, <2>5, Restored
<1>5. CASE p \notin Range(Left(t))
  <2>1. Returned(p) /\ p \notin HeldBy(t)
    <3>1. CASE p \in client
      <4>1. p \notin HeldBy(t)
        BY <3>1 DEF PlaceInv, Apart, Shared
      <4> QED
        BY <3>1, <4>1 DEF Returned
    <3>2. ASSUME NEW u \in Contexts, pc'[u] # "overflow", p \in Range(callers'[u])
          PROVE  Returned(p) /\ p \notin HeldBy(t)
      <4>1. u # t
        BY <1>2, <1>5, <3>2
      <4>2. pc[u] # "overflow" /\ p \in Range(callers[u])
        BY <1>2, <3>2, <4>1
      <4>3. p \in HeldBy(u)
        BY <4>2 DEF HeldBy
      <4> QED
        BY <4>1, <4>2, <4>3 DEF Returned, PlaceInv, Apart
    <3> QED
      BY <1>1, <3>1, <3>2 DEF Returned
  <2>2. nbuf'[p] = nbuf[p]
    <3>1. CASE Overflow(t) > 0 /\ EpSendFull = "DROP"
      <4>1. nbuf' = [b \in Packets |-> IF b \in Range(over)
                       THEN IF EpSendFull = "KEEP" THEN PushHeader(RestoreTxPacket(nbuf[b]))
                                                   ELSE RestoreTxPacket(nbuf[b])
                       ELSE nbuf[b]]
        BY <3>1 DEF CheckOverflow, OnNbufs
      <4>2. Taken(t) = SubSeq(callers[t], 1, Len(callers[t]) - Overflow(t))
        BY <3>1 DEF Taken
      <4>3. p \notin Range(over)
        <5>1. CASE Taken(t) = callers[t]
          <6>1. Len(callers[t]) - Overflow(t) \in Nat /\ callers[t] \in Seq(Packets)
                /\ Len(callers[t]) - Overflow(t) < Len(callers[t])
            BY <3>1, OverflowRange DEF TypeOK
          <6> HIDE DEF over
          <6>2. Len(SubSeq(callers[t], 1, Len(callers[t]) - Overflow(t)))
                  = Len(callers[t]) - Overflow(t)
            BY <6>1, CutInTwo, LenProperties
          <6> QED
            BY <4>2, <5>1, <6>1, <6>2
        <5>2. CASE Taken(t) # callers[t]
          BY <1>5, <5>2 DEF Left
        <5> QED
          BY <5>1, <5>2
      <4> HIDE DEF over
      <4> QED
        BY <4>1, <4>3
    <3>2. CASE ~(Overflow(t) > 0 /\ EpSendFull = "DROP")
      <4>1. ~(Overflow(t) > 0 /\ EpSendFull # "NULL")
        BY <3>2, ConstantsAssumption
      <4> QED
        BY <4>1 DEF CheckOverflow
    <3> QED
      BY <3>1, <3>2
  <2> QED
    BY <2>1, <2>2 DEF ReturnInv
<1> QED
  BY <1>4, <1>5

LEMMA SendReturn ==
  ASSUME TypeOK, PlaceInv, ReturnInv, NEW t \in Threads, HTCSendPktsMultiple(t)
  PROVE  ReturnInv'
<1>1. PICK s \in Batches :
        /\ client' = client \ Range(s)
        /\ nbuf' = [p \in Packets |->
                      IF p \notin Range(s) THEN nbuf[p]
                      ELSE IF CreditFlow THEN PushHeader(Fresh) ELSE Map(PushHeader(Fresh))]
        /\ callers' = [callers EXCEPT ![t] = s]
        /\ pc' = [pc EXCEPT ![t] = "overflow"]
  BY DEF HTCSendPktsMultiple
<1>2. t \in Contexts /\ Range(s) \subseteq client
  BY DEF Contexts, Batches, Range
<1>3. /\ pc'[t] = "overflow"
      /\ \A u \in Contexts : u # t => pc'[u] = pc[u] /\ callers'[u] = callers[u]
  BY <1>1, <1>2 DEF TypeOK
<1>4. ASSUME NEW p \in Packets, Returned(p)' PROVE Returned(p) /\ p \notin Range(s)
  <2>1. CASE p \in client'
    BY <1>1, <2>1 DEF Returned
  <2>2. ASSUME NEW u \in Contexts, pc'[u] # "overflow", p \in Range(callers'[u])
        PROVE  Returned(p) /\ p \notin Range(s)
    <3>1. pc[u] # "overflow" /\ p \in Range(callers[u])
      BY <1>3, <2>2
    <3>2. p \notin client
      BY <3>1 DEF PlaceInv, Apart, HeldBy, Shared
    <3> QED
      BY <1>2, <3>1, <3>2 DEF Returned
  <2> QED
    BY <1>4, <2>1, <2>2 DEF Returned
<1>5. \A p \in Packets : p \notin Range(s) => nbuf'[p] = nbuf[p]
  BY <1>1
<1> QED
  BY <1>4, <1>5, ReturnKept

(* Steps that touch no buffer of an endpoint without credit flow. *)
LEMMA QuietReturn ==
  ASSUME TypeOK, ReturnInv, ~CreditFlow,
         \A t \in Contexts : pc[t] = "overflow" => pc'[t] = "overflow",
         UNCHANGED <<nbuf, client, callers>>
  PROVE  ReturnInv'
<1>1. \A p \in Packets : Returned(p)' => Returned(p)
  BY DEF Returned
<1> QED
  BY <1>1, ReturnKept

LEMMA DrainReturn ==
  ASSUME TypeOK, PlaceInv, ReturnInv, ~CreditFlow, NEW t \in Contexts,
         \/ ReadResources(t) \/ EnterTrySend(t) \/ IssuePacket(t) \/ HIFSend_head(t)
         \/ IssueFailed(t) \/ Requeue(t) \/ RefreshResources(t) \/ DrainAgain(t)
         \/ HTCSetNodropPkt(t)
  PROVE  ReturnInv'
<1>1. pc[t] # "overflow"
  BY DEF ReadResources, EnterTrySend, IssuePacket, HIFSend_head, IssueFailed, Requeue,
         RefreshResources, DrainAgain, HTCSetNodropPkt
<1>2. UNCHANGED <<nbuf, client, callers>>
  BY DEF ReadResources, EnterTrySend, IssuePacket, HIFSend_head, IssueFailed, Requeue,
         RefreshResources, DrainAgain, HTCSetNodropPkt, pktVars
<1>3. PICK w : pc' = [pc EXCEPT ![t] = w]
  BY DEF ReadResources, EnterTrySend, IssuePacket, HIFSend_head, IssueFailed, Requeue,
         RefreshResources, DrainAgain, HTCSetNodropPkt, DrainPass
<1>4. \A u \in Contexts : pc[u] = "overflow" => pc'[u] = "overflow"
  BY <1>1, <1>3 DEF TypeOK
<1> QED
  BY <1>2, <1>4, QuietReturn

LEMMA LeftoversReturn ==
  ASSUME TypeOK, PlaceInv, HeaderInv, ReturnInv, NEW t \in Contexts, CompleteLeftovers(t)
  PROVE  ReturnInv'
<1>1. /\ pc[t] = "cleanup" /\ GiveBack(Range(callers[t]), "A_NO_RESOURCE")
      /\ client' = client \cup Range(callers[t])
      /\ callers' = [callers EXCEPT ![t] = <<>>]
      /\ pc' = [pc EXCEPT ![t] = ReturnPoint(t, <<>>)]
  BY DEF CompleteLeftovers, GiveBack
<1>2. /\ Range(callers'[t]) = {}
      /\ \A u \in Contexts : u # t => pc'[u] = pc[u] /\ callers'[u] = callers[u]
  BY <1>1, EmptyFacts DEF TypeOK
<1>3. \A p \in Range(callers[t]) : Returned(p)
  BY <1>1 DEF Returned
<1>4. \A p \in Packets : Returned(p)' => Returned(p) \/ p \in Range(callers[t])
  BY <1>1, <1>2 DEF Returned
<1> QED
  BY <1>1, <1>3, <1>4, BackFresh

LEMMA NextReturn ==
  ASSUME EpSendFull # "KEEP"
  PROVE  (TypeInv /\ DrainInv /\ PlaceInv) /\ PlaceInv' /\ HeaderInv /\ ReturnInv
            /\ [Next]_vars => ReturnInv'
<1> SUFFICES ASSUME TypeOK, PlaceInv, PlaceInv', HeaderInv, ReturnInv, [Next]_vars,
                    ~CreditFlow
             PROVE  ReturnInv'
  BY DEF TypeInv, ReturnInv
<1>1. ASSUME NEW t \in Threads, HTCSendPktsMultiple(t) PROVE ReturnInv'
  BY <1>1, SendReturn
<1>2. ASSUME NEW t \in Threads, HTCFlushEndpointTX(t) PROVE ReturnInv'
  <2>1. /\ GiveBack(Range(TxQueue), "A_ECANCELED")
        /\ client' = client \cup Range(TxQueue) /\ UNCHANGED <<callers, pc>>
    BY <1>2 DEF HTCFlushEndpointTX, ctxVars, GiveBack
  <2>2. \A p \in Range(TxQueue) : OnTheWay(p)
    BY DEF OnTheWay
  <2>3. \A p \in Packets : Returned(p)' => Returned(p) \/ p \in Range(TxQueue)
    BY <2>1 DEF Returned
  <2> QED
    BY <2>1, <2>2, <2>3, BackFresh
<1>3. ASSUME NEW t \in Contexts, TrySendStep(t) PROVE ReturnInv'
  BY <1>3, OverflowReturn, DrainReturn, LeftoversReturn DEF TrySendStep
<1>4. Tasklet \in Contexts
  BY DEF Contexts
<1>5. CASE HTCTxCompletionHandler
  <2>1. /\ pc[Tasklet] = "idle" /\ ring # <<>> /\ GiveBack(Found(Head(ring)), "A_OK")
        /\ client' = client \cup Found(Head(ring)) /\ UNCHANGED callers
    BY <1>5 DEF HTCTxCompletionHandler, GiveBack
  <2>2. PICK w \in {"recycle", "resources"} : pc' = [pc EXCEPT ![Tasklet] = w]
    BY <1>5 DEF HTCTxCompletionHandler
  <2>3. \A p \in Found(Head(ring)) : p \in Range(ring)
    BY <2>1, HeadAndTail DEF Found, TypeOK
  <2>4. \A p \in Packets : Returned(p)' => Returned(p) \/ p \in Found(Head(ring))
    BY <1>4, <2>1, <2>2 DEF Returned, TypeOK
  <2> QED
    BY <2>1, <2>3, <2>4, BackFresh
<1>6. CASE RecycleEntry
  <2>1. /\ pc[Tasklet] = "recycle" /\ pc' = [pc EXCEPT ![Tasklet] = "idle"]
        /\ UNCHANGED <<nbuf, client, callers>>
    BY <1>6 DEF RecycleEntry, pktVars
  <2>2. \A t \in Contexts : pc[t] = "overflow" => pc'[t] = "overflow"
    BY <1>4, <2>1 DEF TypeOK
  <2> QED
    BY <2>1, <2>2, QuietReturn
<1>7. CASE CE_per_engine_servicereap
  <2>1. /\ client' = client \cup {Head(ring)} /\ UNCHANGED <<callers, pc>>
        /\ nbuf' = [nbuf EXCEPT ![Head(ring)] = Fresh]
    BY <1>7 DEF CE_per_engine_servicereap, ctxVars
  <2>2. ASSUME NEW p \in Packets, Returned(p)' PROVE nbuf'[p] = Fresh
    <3>1. CASE p = Head(ring)
      BY <2>1, <3>1 DEF TypeOK
    <3>2. CASE p # Head(ring)
      BY <2>1, <2>2, <3>2 DEF TypeOK, Returned, ReturnInv
    <3> QED
      BY <3>1, <3>2
  <2> QED
    BY <2>2 DEF ReturnInv
<1>8. ASSUME NEW asked \in 0..TxAlloc, NEW quiet \in 0..TxAlloc,
             HTCProcessCreditRpt(asked, quiet)
      PROVE  ReturnInv'
  BY <1>8 DEF HTCProcessCreditRpt
<1>9. CASE UNCHANGED vars
  BY <1>9, QuietReturn DEF vars, ctxVars, pktVars
<1> QED
  BY <1>1, <1>2, <1>3, <1>5, <1>6, <1>7, <1>8, <1>9 DEF Next

(* Unless the client's send-full callback keeps overflowing packets (then  *)
(* RestoreTxPacket is followed by a second header and no mapping), a       *)
(* netbuf in the copy engine carries exactly one HTC header and is marked  *)
(* for RestoreTxPacket, and without credit flow it is given to             *)
(* adf_nbuf_map once and its client gets back what it posted, however      *)
(* often a send failed, was undone and repeated.                           *)
THEOREM BuffersRestored ==
  ASSUME EpSendFull # "KEEP"
  PROVE  Spec => []NetbufsRestored
<1>1. Init => HeaderInv /\ ReturnInv
  <2> SUFFICES ASSUME Init PROVE HeaderInv /\ ReturnInv
    OBVIOUS
  <2>1. /\ Range(TxQueue) = {} /\ Range(ring) = {}
        /\ \A t \in Contexts : pc[t] = "idle" /\ Range(sendQ[t]) = {}
    BY EmptyFacts DEF Init
  <2>2. HeaderInv
    BY <2>1 DEF HeaderInv, OnTheWay
  <2>3. ReturnInv
    BY DEF Init, ReturnInv
  <2> QED
    BY <2>2, <2>3
<1>2. TypeInv /\ HeaderInv /\ ReturnInv => NetbufsRestored
  <2> SUFFICES ASSUME TypeOK, HeaderInv, ReturnInv PROVE NetbufsRestored
    BY DEF TypeInv
  <2>1. \A p \in Range(ring) : nbuf[p].hdr = 1 /\ nbuf[p].fixup
    BY DEF HeaderInv, Mapped, OneHeader
  <2>2. ~CreditFlow => \A p \in Range(ring) : nbuf[p].maps = 1
    BY DEF HeaderInv, Mapped
  <2>3. ~CreditFlow => \A p \in client : nbuf[p] = Fresh
    BY DEF ReturnInv, Returned, TypeOK
  <2> QED
    BY <2>1, <2>2, <2>3 DEF NetbufsRestored
<1>3. (TypeInv /\ DrainInv /\ PlaceInv) /\ PlaceInv' /\ HeaderInv /\ [Next]_vars
            => HeaderInv'
  BY NextHeader
<1>4. (TypeInv /\ DrainInv /\ PlaceInv) /\ PlaceInv' /\ HeaderInv /\ ReturnInv
            /\ [Next]_vars => ReturnInv'
  BY NextReturn
<1> QED
  BY <1>1, <1>2, <1>3, <1>4, Placed, PTL DEF Spec

-----------------------------------------------------------------------------
(* The endpoint implements the FIFO channel of HTCChannel.tla.             *)

(* The queue the client sees: what the drainer holds, then TxQueue. *)
View == InHand \o TxQueue

LEMMA InHandNext ==
  ASSUME DrainInv'
  PROVE  /\ \A t \in Drainers' : InHand' = sendQ'[t]
         /\ Drainers' = {} => InHand' = <<>>
<1>1. ASSUME NEW t \in Drainers' PROVE InHand' = sendQ'[t]
  <2>1. \A u, v \in Drainers' : u = v
    BY DEF DrainInv, SingleDrainer
  <2>2. (CHOOSE u \in Drainers' : TRUE) \in Drainers'
    BY <1>1
  <2>3. (CHOOSE u \in Drainers' : TRUE) = t
    BY <1>1, <2>1, <2>2
  <2> QED
    BY <1>1, <2>3 DEF InHand
<1> QED
  BY <1>1 DEF InHand

LEMMA InHandType ==
  ASSUME TypeOK, DrainInv
  PROVE  InHand \in Seq(Packets) /\ View \in Seq(Packets)
<1>1. InHand \in Seq(Packets)
  <2>1. CASE Drainers = {}
    BY <2>1, InHandIs, EmptySeq
  <2>2. CASE Drainers # {}
    <3>1. PICK t \in Drainers : TRUE
      BY <2>2
    <3>2. t \in Contexts /\ InHand = sendQ[t]
      BY InHandIs DEF Drainers
    <3> QED
      BY <3>2 DEF TypeOK
  <2> QED
    BY <2>1, <2>2
<1> QED
  BY <1>1, ConcatProperties DEF View, TypeOK

(* A context outside the drain loop steps and stays outside. *)
LEMMA HandOther ==
  ASSUME TypeOK, DrainInv, DrainInv', NEW t \in Contexts, NEW w,
         pc[t] \notin {"issue", "hif", "requeue", "drain"},
         w \notin {"issue", "hif", "requeue", "drain"},
         pc' = [pc EXCEPT ![t] = w], NEW q, sendQ' = [sendQ EXCEPT ![t] = q]
  PROVE  InHand' = InHand
<1>1. Drainers' = Drainers /\ t \notin Drainers
  BY DEF Drainers, TypeOK
<1>2. \A u \in Drainers : sendQ'[u] = sendQ[u]
  BY <1>1 DEF Drainers, TypeOK
<1>3. CASE Drainers = {}
  BY <1>1, <1>3, InHandIs, InHandNext
<1>4. CASE Drainers # {}
  <2>1. PICK u \in Drainers : TRUE
    BY <1>4
  <2>2. InHand = sendQ[u] /\ InHand' = sendQ'[u]
    BY <1>1, InHandIs, InHandNext
  <2> QED
    BY <1>2, <2>2
<1> QED
  BY <1>3, <1>4

(* The drainer steps: it stays in the loop, or leaves it. *)
LEMMA HandStays ==
  ASSUME TypeOK, DrainInv', NEW t \in Contexts,
         NEW w \in {"issue", "hif", "requeue", "drain"}, pc' = [pc EXCEPT ![t] = w]
  PROVE  InHand' = sendQ'[t]
<1>1. t \in Drainers'
  BY DEF Drainers, TypeOK
<1> QED
  BY <1>1, InHandNext

LEMMA HandLeaves ==
  ASSUME TypeOK, DrainInv', NEW t \in Contexts, Drainers \subseteq {t},
         NEW w, w \notin {"issue", "hif", "requeue", "drain"}, pc' = [pc EXCEPT ![t] = w]
  PROVE  InHand' = <<>>
<1>1. Drainers' = {}
  BY DEF Drainers, TypeOK
<1> QED
  BY <1>1, InHandNext

(* Cutting queue q in HTCTrySend is invisible. *)
LEMMA PassView ==
  ASSUME TypeOK, DrainInv', NEW t \in Contexts, Drainers \subseteq {t},
         NEW q \in Seq(Packets), DrainPass(t, q)
  PROVE  View' = q
<1>1. PICK n \in 0..Len(q) :
        /\ TxQueue' = SubSeq(q, n + 1, Len(q))
        /\ sendQ' = [sendQ EXCEPT ![t] = SubSeq(q, 1, n)]
        /\ pc' = [pc EXCEPT ![t] = IF n = 0 THEN ReturnPoint(t, callers[t]) ELSE "issue"]
  BY DEF DrainPass
<1>2. Len(q) \in Nat /\ n \in Nat /\ n <= Len(q)
  BY LenProperties
<1>3. SubSeq(q, 1, n) \o SubSeq(q, n + 1, Len(q)) = q
  BY <1>2, CutInTwo
<1>4. CASE n = 0
  <2>1. PICK w \in {"cleanup", "clear", "recycle", "idle"} : pc' = [pc EXCEPT ![t] = w]
    BY <1>1, <1>4, ReturnPlaces
  <2>2. InHand' = <<>>
    BY <2>1, HandLeaves
  <2>3. SubSeq(q, 1, n) = <<>>
    BY <1>4, SubSeqEmpty
  <2> QED
    BY <1>1, <1>3, <2>2, <2>3 DEF View
<1>5. CASE n # 0
  <2>1. PICK w : w = "issue"
    OBVIOUS
  <2>2. pc' = [pc EXCEPT ![t] = w] /\ w \in {"issue", "hif", "requeue", "drain"}
    BY <1>1, <1>5, <2>1
  <2>3. InHand' = sendQ'[t]
    BY <2>2, HandStays
  <2>4. sendQ'[t] = SubSeq(q, 1, n)
    BY <1>1 DEF TypeOK
  <2> QED
    BY <1>1, <1>3, <2>3, <2>4 DEF View
<1> QED
  BY <1>4, <1>5

(* HTCTrySend puts the batch behind what the drainer holds. *)
LEMMA EnterView ==
  ASSUME TypeOK, DrainInv, DrainInv', PlaceInv, NEW t \in Contexts, EnterTrySend(t)
  PROVE  View' = InHand \o Enqueued(t)
<1>1. Enqueued(t) \in Seq(Packets)
  BY EnqueuedFacts DEF PlaceInv
<1>2. pc[t] = "enter"
  BY DEF EnterTrySend
<1>3. CASE TxProcessCount > 0
  <2>1. /\ TxQueue' = Enqueued(t)
        /\ sendQ' = [sendQ EXCEPT ![t] = <<>>]
        /\ pc' = [pc EXCEPT ![t] = ReturnPoint(t, callers[t])]
    BY <1>3 DEF EnterTrySend
  <2>2. PICK w \in {"cleanup", "clear", "recycle", "idle"} : pc' = [pc EXCEPT ![t] = w]
    BY <2>1, ReturnPlaces
  <2>3. InHand' = InHand
    BY <1>2, <2>1, <2>2, HandOther
  <2> QED
    BY <2>1, <2>3 DEF View
<1>4. CASE ~(TxProcessCount > 0)
  <2>1. Drainers = {}
    BY <1>4 DEF DrainInv, SingleDrainer
  <2>2. DrainPass(t, Enqueued(t))
    BY <1>4 DEF EnterTrySend
  <2>3. View' = Enqueued(t)
    BY <1>1, <2>1, <2>2, PassView
  <2>4. InHand = <<>>
    BY <2>1, InHandIs
  <2> QED
    BY <1>1, <2>3, <2>4, ConcatEmptySeq
<1> QED
  BY <1>3, <1>4

LEMMA Regrouped ==
  ASSUME NEW a \in Seq(Packets), NEW b \in Seq(Packets), NEW c \in Seq(Packets)
  PROVE  (a \o b) \o c = a \o (b \o c)
BY ConcatAssociative

(* The batch is one a client may post: its packets are in no queue. *)
LEMMA PostedBatch ==
  ASSUME TypeOK, DrainInv, PlaceInv, NEW t \in Contexts, pc[t] = "enter", sendQ[t] # <<>>
  PROVE  sendQ[t] \in Channel!Batches
<1>1. sendQ[t] \in Seq(Packets) /\ IsInjective(sendQ[t])
  BY DEF TypeOK, PlaceInv, OnceEach
<1> DEFINE C == Packets \ (Range(View) \cup Range(ring))
<1>2. Channel!Client = C
  BY DEF Channel!Client, View, Range, Channel!Range
<1>3. InHand \in Seq(Packets)
  BY InHandType
<1>4. Range(View) = Range(InHand) \cup Range(TxQueue)
  BY <1>3, Concatenated DEF View, TypeOK
<1>5. Range(sendQ[t]) \cap Range(InHand) = {}
  <2>1. CASE Drainers = {}
    BY <2>1, InHandIs, EmptyFacts
  <2>2. CASE Drainers # {}
    <3>1. PICK u \in Drainers : TRUE
      BY <2>2
    <3>2. u \in Contexts /\ u # t /\ InHand = sendQ[u]
      BY InHandIs DEF Drainers
    <3> QED
      BY <3>2 DEF PlaceInv, Apart, HeldBy
  <2> QED
    BY <2>1, <2>2
<1>6. Range(sendQ[t]) \cap (Range(TxQueue) \cup Range(ring)) = {}
  BY DEF PlaceInv, Apart, HeldBy, Shared
<1>7. Range(sendQ[t]) \subseteq C
  BY <1>1, <1>4, <1>5, <1>6, RangeType
<1> HIDE DEF C
<1> DEFINE n == Len(sendQ[t])
<1>8. n \in Nat /\ n >= 1 /\ DOMAIN sendQ[t] = 1..n
  BY <1>1, EmptySeq, LenProperties
<1>9. sendQ[t] \in [1..n -> C]
  <2>1. \A i \in 1..n : sendQ[t][i] \in C
    BY <1>1, <1>7, RangeSeq
  <2>2. sendQ[t] \in [1..n -> Packets]
    BY <1>1, LenProperties
  <2> QED
    BY <2>1, <2>2
<1>10. n <= Cardinality(C) /\ Cardinality(C) \in Nat
  <2>1. IsFiniteSet(C) /\ Cardinality(C) \in Nat
    BY ConstantsAssumption, FS_Subset, FS_CardinalityType DEF C
  <2>2. sendQ[t] \in Injection(1..n, C)
    BY <1>1, <1>9 DEF Injection
  <2>3. Cardinality(1..n) <= Cardinality(C)
    BY <2>1, <2>2, FS_Injection
  <2>4. Cardinality(1..n) = n
    BY <1>8, FS_Interval
  <2> QED
    BY <2>1, <2>3, <2>4
<1> HIDE DEF n
<1>11. n \in 1..Cardinality(C)
  BY <1>8, <1>10
<1>12. Channel!IsInjective(sendQ[t])
  BY <1>1 DEF IsInjective, Channel!IsInjective
<1>13. Channel!Cardinality(C) = Cardinality(C)
  BY Zenon DEF Cardinality, Channel!Cardinality
<1>14. n \in 1..Channel!Cardinality(C)
  BY <1>11, <1>13
<1> QED
  BY <1>2, <1>9, <1>14, <1>12 DEF Channel!Batches

(* Cutting a concatenation where its parts meet. *)
LEMMA SplitBack ==
  ASSUME NEW a \in Seq(Packets), NEW b \in Seq(Packets)
  PROVE  /\ SubSeq(a \o b, 1, Len(a)) = a
         /\ SubSeq(a \o b, Len(a) + 1, Len(a \o b)) = b
<1> DEFINE q == a \o b
           n == Len(a)
<1>1. /\ q \in Seq(Packets) /\ n \in Nat /\ Len(b) \in Nat /\ Len(q) = n + Len(b)
      /\ \A i \in 1..n + Len(b) : q[i] = IF i <= n THEN a[i] ELSE b[i - n]
  BY ConcatProperties, LenProperties
<1> HIDE DEF q, n
<1>2. /\ SubSeq(q, 1, n) \in Seq(Packets) /\ SubSeq(q, n + 1, Len(q)) \in Seq(Packets)
      /\ Len(SubSeq(q, 1, n)) = n
      /\ Len(SubSeq(q, n + 1, Len(q))) = Len(q) - n
      /\ \A i \in 1..n : SubSeq(q, 1, n)[i] = q[i]
      /\ \A i \in 1..(Len(q) - n) : SubSeq(q, n + 1, Len(q))[i] = q[n + i]
  <2>1. n <= Len(q)
    BY <1>1
  <2> QED
    BY <1>1, <2>1, CutInTwo
<1>3. SubSeq(q, 1, n) = a
  <2>1. \A i \in 1..n : SubSeq(q, 1, n)[i] = a[i]
    BY <1>1, <1>2
  <2>2. Len(a) = n
    BY DEF n
  <2> QED
    BY <1>2, <2>1, <2>2, SeqEqual
<1>4. SubSeq(q, n + 1, Len(q)) = b
  <2>1. ASSUME NEW i \in 1..Len(b) PROVE SubSeq(q, n + 1, Len(q))[i] = b[i]
    <3>1. n + i \in 1..n + Len(b) /\ ~(n + i <= n) /\ (n + i) - n = i /\ i \in 1..(Len(q) - n)
      BY <1>1
    <3>2. q[n + i] = b[(n + i) - n]
      BY <1>1, <3>1
    <3> QED
      BY <1>2, <3>1, <3>2
  <2>2. Len(SubSeq(q, n + 1, Len(q))) = Len(b)
    BY <1>1, <1>2
  <2> QED
    BY <1>2, <2>1, <2>2, SeqEqual
<1> QED
  BY <1>3, <1>4 DEF q, n

LEMMA EnterChannel ==
  ASSUME TypeOK, DrainInv, DrainInv', PlaceInv, NEW t \in Contexts, EnterTrySend(t)
  PROVE  [Channel!Next]_(Channel!vars)
<1>1. /\ sendQ[t] \in Seq(Packets) /\ TxQueue \in Seq(Packets) /\ InHand \in Seq(Packets)
      /\ View \in Seq(Packets) /\ is_nodrop_pkt \in BOOLEAN
  BY InHandType DEF TypeOK
<1>2. /\ pc[t] = "enter" /\ ring' = ring
      /\ is_nodrop_pkt' = IF sendQ[t] # <<>> THEN FALSE ELSE is_nodrop_pkt
  BY DEF EnterTrySend, hifVars
<1>3. View' = InHand \o Enqueued(t)
  BY EnterView
<1>4. CASE sendQ[t] = <<>>
  <2>1. Enqueued(t) = TxQueue
    BY <1>1, <1>4, ConcatEmptySeq DEF Enqueued
  <2> QED
    BY <1>2, <1>3, <1>4, <2>1 DEF Channel!vars, View
<1>5. CASE sendQ[t] # <<>> /\ ~is_nodrop_pkt
  <2>1. sendQ[t] \in Channel!Batches
    BY <1>2, <1>5, PostedBatch
  <2>2. View' = View \o sendQ[t]
    <3>1. View' = InHand \o (TxQueue \o sendQ[t])
      BY <1>3, <1>5 DEF Enqueued
    <3> QED
      BY <1>1, <3>1, Regrouped DEF View
  <2>3. UNCHANGED <<ring, is_nodrop_pkt>>
    BY <1>1, <1>2, <1>5
  <2>4. Channel!Accept
    BY <1>5, <2>1, <2>2, <2>3 DEF Channel!Accept, View
  <2> QED
    BY <2>4 DEF Channel!Next
<1>6. CASE sendQ[t] # <<>> /\ is_nodrop_pkt
  <2>1. sendQ[t] \in Channel!Batches
    BY <1>2, <1>6, PostedBatch
  <2> DEFINE i == Len(InHand)
  <2>2. i \in Nat /\ Len(TxQueue) \in Nat /\ Len(View) = i + Len(TxQueue)
    BY <1>1, LenProperties, ConcatProperties DEF View
  <2>3. i \in 0..Len(View)
    BY <2>2
  <2>4. SubSeq(View, 1, i) = InHand /\ SubSeq(View, i + 1, Len(View)) = TxQueue
    BY <1>1, SplitBack DEF View
  <2>5. View' = SubSeq(View, 1, i) \o sendQ[t] \o SubSeq(View, i + 1, Len(View))
    <3>1. View' = InHand \o (sendQ[t] \o TxQueue)
      BY <1>3, <1>6 DEF Enqueued
    <3>2. InHand \o (sendQ[t] \o TxQueue) = (InHand \o sendQ[t]) \o TxQueue
      BY <1>1, Regrouped
    <3> QED
      BY <2>4, <3>1, <3>2
  <2>6. is_nodrop_pkt' = FALSE
    BY <1>2, <1>6
  <2> HIDE DEF i
  <2>7. Channel!AcceptUrgent
    BY <1>2, <1>6, <2>1, <2>3, <2>5, <2>6 DEF Channel!AcceptUrgent, View
  <2> QED
    BY <2>7 DEF Channel!Next
<1> QED
  BY <1>4, <1>5, <1>6

LEMMA FirstOfTwo ==
  ASSUME NEW a \in Seq(Packets), NEW b \in Seq(Packets), a # <<>>
  PROVE  a \o b # <<>> /\ Head(a \o b) = Head(a) /\ Tail(a \o b) = Tail(a) \o b
<1>1. /\ Len(a) \in Nat /\ Len(b) \in Nat /\ Len(a) >= 1
      /\ a \o b \in Seq(Packets) /\ Len(a \o b) = Len(a) + Len(b)
      /\ \A i \in 1..Len(a) + Len(b) : (a \o b)[i] = IF i <= Len(a) THEN a[i] ELSE b[i - Len(a)]
  BY LenProperties, EmptySeq, ConcatProperties
<1>2. a \o b # <<>>
  BY <1>1, EmptySeq
<1>3. Head(a \o b) = (a \o b)[1] /\ Head(a) = a[1] /\ Tail(a) \in Seq(Packets)
  BY <1>1, <1>2, HeadAndTail
<1>4. (a \o b)[1] = a[1]
  BY <1>1
<1>5. /\ Tail(a \o b) \in Seq(Packets) /\ Len(Tail(a \o b)) = Len(a) + Len(b) - 1
      /\ \A i \in 1..Len(a) + Len(b) - 1 : Tail(a \o b)[i] = (a \o b)[i + 1]
      /\ Len(Tail(a)) = Len(a) - 1
      /\ \A i \in 1..Len(a) - 1 : Tail(a)[i] = a[i + 1]
  BY <1>1, <1>2, HeadTailProperties
<1>6. /\ Tail(a) \o b \in Seq(Packets) /\ Len(Tail(a) \o b) = Len(a) - 1 + Len(b)
      /\ \A i \in 1..Len(a) - 1 + Len(b) :
            (Tail(a) \o b)[i] = IF i <= Len(a) - 1 THEN Tail(a)[i] ELSE b[i - (Len(a) - 1)]
  BY <1>3, <1>5, ConcatProperties
<1>7. ASSUME NEW i \in 1..Len(a) + Len(b) - 1 PROVE Tail(a \o b)[i] = (Tail(a) \o b)[i]
  <2>1. /\ Tail(a \o b)[i] = (a \o b)[i + 1]
        /\ (a \o b)[i + 1] = IF i + 1 <= Len(a) THEN a[i + 1] ELSE b[(i + 1) - Len(a)]
    BY <1>1, <1>5
  <2>2. (Tail(a) \o b)[i] = IF i <= Len(a) - 1 THEN Tail(a)[i] ELSE b[i - (Len(a) - 1)]
    BY <1>1, <1>6
  <2>3. CASE i <= Len(a) - 1
    BY <1>1, <1>5, <2>1, <2>2, <2>3
  <2>4. CASE ~(i <= Len(a) - 1)
    <3>1. (i + 1) - Len(a) = i - (Len(a) - 1) /\ ~(i + 1 <= Len(a))
      BY <1>1, <2>4
    <3> QED
      BY <2>1, <2>2, <2>4, <3>1
  <2> QED
    BY <2>3, <2>4
<1>8. Len(Tail(a \o b)) = Len(Tail(a) \o b)
  BY <1>1, <1>5, <1>6
<1>9. Tail(a \o b) = Tail(a) \o b
  BY <1>5, <1>6, <1>7, <1>8, SeqEqual
<1> QED
  BY <1>2, <1>3, <1>4, <1>9

(* Nothing the channel shows has changed. *)
LEMMA Invisible ==
  ASSUME View' = View, UNCHANGED <<ring, is_nodrop_pkt>>
  PROVE  [Channel!Next]_(Channel!vars)
BY DEF View, Channel!vars

(* Only the nodrop flag has changed. *)
LEMMA FlagOnly ==
  ASSUME View' = View, ring' = ring, is_nodrop_pkt' \in BOOLEAN
  PROVE  [Channel!Next]_(Channel!vars)
<1>1. Channel!SetUrgent
  BY DEF View, Channel!SetUrgent
<1> QED
  BY <1>1 DEF Channel!Next

(* HIFSend_head takes the oldest packet of the queue to the bus. *)
LEMMA TransmitChannel ==
  ASSUME TypeOK, DrainInv, DrainInv', NEW t \in Contexts, sendQ[t] # <<>>, HIFSend_head(t)
  PROVE  [Channel!Next]_(Channel!vars)
<1>1. /\ pc[t] = "hif" /\ ring' = Append(ring, Head(sendQ[t]))
      /\ sendQ' = [sendQ EXCEPT ![t] = Tail(sendQ[t])]
      /\ pc' = [pc EXCEPT ![t] = "issue"]
      /\ TxQueue' = TxQueue /\ is_nodrop_pkt' = is_nodrop_pkt
  BY DEF HIFSend_head, epVars
<1>2. InHand = sendQ[t]
  <2>1. t \in Drainers
    BY <1>1 DEF Drainers
  <2> QED
    BY <2>1, InHandIs
<1>3. PICK w : w = "issue"
  OBVIOUS
<1>4. w \in {"issue", "hif", "requeue", "drain"} /\ pc' = [pc EXCEPT ![t] = w]
  BY <1>1, <1>3
<1>5. InHand' = Tail(sendQ[t])
  <2>1. InHand' = sendQ'[t]
    BY <1>4, HandStays
  <2> QED
    BY <1>1, <2>1 DEF TypeOK
<1>6. sendQ[t] \in Seq(Packets) /\ TxQueue \in Seq(Packets)
  BY DEF TypeOK
<1>7. View # <<>> /\ Head(View) = Head(sendQ[t]) /\ Tail(View) = Tail(sendQ[t]) \o TxQueue
  BY <1>2, <1>6, FirstOfTwo DEF View
<1>8. View' = Tail(View)
  BY <1>1, <1>5, <1>7 DEF View
<1>9. Channel!Transmit
  BY <1>1, <1>7, <1>8 DEF View, Channel!Transmit
<1> QED
  BY <1>9 DEF Channel!Next

(* A completion takes the oldest packet off the bus. *)
LEMMA CompleteChannel ==
  ASSUME View' = View, ring # <<>>, ring' = Tail(ring), is_nodrop_pkt' = is_nodrop_pkt
  PROVE  [Channel!Next]_(Channel!vars)
<1>1. Channel!Complete
  BY DEF View, Channel!Complete
<1> QED
  BY <1>1 DEF Channel!Next

(* HTCFlushEndpointTX cancels what is behind the packets the drainer holds. *)
LEMMA CancelChannel ==
  ASSUME TypeOK, DrainInv, NEW t \in Threads, HTCFlushEndpointTX(t)
  PROVE  [Channel!Next]_(Channel!vars)
<1>1. TxQueue' = <<>> /\ UNCHANGED <<pc, sendQ, ring, is_nodrop_pkt>>
  BY DEF HTCFlushEndpointTX, ctxVars, hifVars
<1>2. InHand' = InHand
  BY <1>1 DEF InHand, Drainers
<1>3. InHand \in Seq(Packets) /\ TxQueue \in Seq(Packets)
  BY InHandType DEF TypeOK
<1>4. View' = InHand
  BY <1>1, <1>2, <1>3, ConcatEmptySeq DEF View
<1>5. PICK i \in 0..Len(View) : i = Len(InHand)
  BY <1>3, LenProperties, ConcatProperties DEF View
<1>6. SubSeq(View, 1, i) = InHand
  BY <1>3, <1>5, SplitBack DEF View
<1>7. View' = SubSeq(View, 1, i)
  BY <1>4, <1>6
<1>8. Channel!Cancel
  BY <1>1, <1>7 DEF View, Channel!Cancel
<1> QED
  BY <1>8 DEF Channel!Next

(* A step of a context that stays outside the drain loop. *)
LEMMA OutsideView ==
  ASSUME TypeOK, DrainInv, DrainInv', NEW t \in Contexts, NEW w,
         pc[t] \notin {"issue", "hif", "requeue", "drain"},
         w \notin {"issue", "hif", "requeue", "drain"},
         pc' = [pc EXCEPT ![t] = w], NEW q, sendQ' = [sendQ EXCEPT ![t] = q],
         TxQueue' = TxQueue
  PROVE  View' = View
BY HandOther DEF View

(* A step of the drainer that moves no packet. *)
LEMMA InsideView ==
  ASSUME TypeOK, DrainInv, DrainInv', NEW t \in Contexts,
         pc[t] \in {"issue", "hif", "requeue", "drain"},
         NEW w \in {"issue", "hif", "requeue", "drain"},
         pc' = [pc EXCEPT ![t] = w], UNCHANGED <<sendQ, TxQueue>>
  PROVE  View' = View
<1>1. t \in Drainers
  BY DEF Drainers
<1>2. InHand = sendQ[t] /\ InHand' = sendQ'[t]
  BY <1>1, InHandIs, HandStays
<1> QED
  BY <1>2 DEF View

LEMMA RequeueView ==
  ASSUME TypeOK, DrainInv, DrainInv', NEW t \in Contexts, Requeue(t)
  PROVE  View' = View
<1>1. /\ pc[t] = "requeue" /\ TxQueue' = sendQ[t] \o TxQueue
      /\ pc' = [pc EXCEPT ![t] = ReturnPoint(t, callers[t])]
  BY DEF Requeue
<1>2. PICK w \in {"cleanup", "clear", "recycle", "idle"} : pc' = [pc EXCEPT ![t] = w]
  BY <1>1, ReturnPlaces
<1>3. Drainers = {t}
  BY <1>1, OnlyDrainer
<1>4. InHand = sendQ[t] /\ InHand' = <<>>
  BY <1>2, <1>3, InHandIs, HandLeaves
<1>5. sendQ[t] \o TxQueue \in Seq(Packets)
  BY ConcatProperties DEF TypeOK
<1> QED
  BY <1>1, <1>4, <1>5, ConcatEmptySeq DEF View

LEMMA DrainAgainView ==
  ASSUME TypeOK, DrainInv, DrainInv', PlaceInv, NEW t \in Contexts, DrainAgain(t)
  PROVE  View' = View
<1>1. pc[t] = "drain" /\ DrainPass(t, TxQueue)
  BY DEF DrainAgain
<1>2. Drainers = {t} /\ sendQ[t] = <<>>
  BY <1>1, OnlyDrainer DEF PlaceInv, Hands
<1>3. InHand = <<>> /\ TxQueue \in Seq(Packets)
  BY <1>2, InHandIs DEF TypeOK
<1>4. View' = TxQueue
  BY <1>1, <1>2, <1>3, PassView
<1> QED
  BY <1>3, <1>4, ConcatEmptySeq DEF View

LEMMA StepChannel ==
  ASSUME TypeInv, DrainInv, DrainInv', PlaceInv, NEW t \in Contexts, TrySendStep(t)
  PROVE  [Channel!Next]_(Channel!vars)
<1> USE DEF TypeInv
<1>1. sendQ = [sendQ EXCEPT ![t] = sendQ[t]]
  BY DEF TypeOK
<1>2. CASE CheckOverflow(t)
  <2>1. PICK w \in {"cleanup", "resources"} : pc' = [pc EXCEPT ![t] = w]
    BY <1>2 DEF CheckOverflow
  <2>2. PICK q : sendQ' = [sendQ EXCEPT ![t] = q]
    BY <1>2 DEF CheckOverflow
  <2>3. pc[t] = "overflow" /\ UNCHANGED <<TxQueue, ring, is_nodrop_pkt>>
    BY <1>2 DEF CheckOverflow, epVars, hifVars
  <2>4. View' = View
    BY <2>1, <2>2, <2>3, OutsideView
  <2> QED
    BY <2>3, <2>4, Invisible
<1>3. CASE ReadResources(t)
  <2>1. PICK w : w = "enter"
    OBVIOUS
  <2>2. /\ pc[t] = "resources" /\ UNCHANGED <<TxQueue, sendQ, ring, is_nodrop_pkt>>
        /\ pc' = [pc EXCEPT ![t] = w]
    BY <1>3, <2>1 DEF ReadResources, epVars, hifVars
  <2>3. View' = View
    BY <1>1, <2>1, <2>2, OutsideView
  <2> QED
    BY <2>2, <2>3, Invisible
<1>4. CASE EnterTrySend(t)
  BY <1>4, EnterChannel
<1>5. CASE IssuePacket(t) \/ IssueFailed(t) \/ RefreshResources(t)
  <2>1. PICK w \in {"hif", "requeue", "drain"} : pc' = [pc EXCEPT ![t] = w]
    BY <1>5 DEF IssuePacket, IssueFailed, RefreshResources
  <2>2. /\ pc[t] \in {"issue", "hif"} /\ UNCHANGED <<TxQueue, sendQ, ring, is_nodrop_pkt>>
    BY <1>5 DEF IssuePacket, IssueFailed, RefreshResources, epVars, hifVars
  <2>3. View' = View
    BY <2>1, <2>2, InsideView
  <2> QED
    BY <2>2, <2>3, Invisible
<1>6. CASE HIFSend_head(t)
  <2>1. sendQ[t] # <<>>
    BY <1>6 DEF HIFSend_head, HifHolds
  <2> QED
    BY <1>6, <2>1, TransmitChannel
<1>7. CASE Requeue(t)
  <2>1. UNCHANGED <<ring, is_nodrop_pkt>>
    BY <1>7 DEF Requeue, hifVars
  <2> QED
    BY <1>7, <2>1, RequeueView, Invisible
<1>8. CASE DrainAgain(t)
  <2>1. UNCHANGED <<ring, is_nodrop_pkt>>
    BY <1>8 DEF DrainAgain, hifVars
  <2> QED
    BY <1>8, <2>1, DrainAgainView, Invisible
<1>9. CASE CompleteLeftovers(t)
  <2>1. /\ pc[t] = "cleanup" /\ UNCHANGED <<TxQueue, sendQ, ring, is_nodrop_pkt>>
        /\ pc' = [pc EXCEPT ![t] = ReturnPoint(t, <<>>)]
    BY <1>9 DEF CompleteLeftovers, epVars, hifVars
  <2>2. PICK w \in {"cleanup", "clear", "recycle", "idle"} : pc' = [pc EXCEPT ![t] = w]
    BY <2>1, ReturnPlaces
  <2>3. View' = View
    BY <1>1, <2>1, <2>2, OutsideView
  <2> QED
    BY <2>1, <2>3, Invisible
<1>10. CASE HTCSetNodropPkt(t)
  <2>1. PICK w : w = "idle"
    OBVIOUS
  <2>2. /\ pc[t] = "clear" /\ UNCHANGED <<TxQueue, sendQ, ring>> /\ is_nodrop_pkt' = FALSE
        /\ pc' = [pc EXCEPT ![t] = w]
    BY <1>10, <2>1 DEF HTCSetNodropPkt, hifVars
  <2>3. View' = View
    BY <1>1, <2>1, <2>2, OutsideView
  <2> QED
    BY <2>2, <2>3, FlagOnly
<1> QED
  BY <1>2, <1>3, <1>4, <1>5, <1>6, <1>7, <1>8, <1>9, <1>10 DEF TrySendStep

(* The completion thread, and a client's call. *)
LEMMA OutsideChannel ==
  ASSUME TypeInv, DrainInv, DrainInv',
         \/ \E t \in Threads : HTCSendPktsMultiple(t)
         \/ HTCTxCompletionHandler \/ RecycleEntry \/ CE_per_engine_servicereap
         \/ \E asked, quiet \in 0..TxAlloc : HTCProcessCreditRpt(asked, quiet)
  PROVE  [Channel!Next]_(Channel!vars)
<1> USE DEF TypeInv
<1>1. Tasklet \in Contexts /\ \A t \in Contexts : sendQ = [sendQ EXCEPT ![t] = sendQ[t]]
  BY DEF TypeOK, Contexts
<1>2. ASSUME NEW t \in Threads, HTCSendPktsMultiple(t) PROVE [Channel!Next]_(Channel!vars)
  <2>1. PICK w : w = "overflow"
    OBVIOUS
  <2>2. t \in Contexts /\ pc[t] = "idle" /\ UNCHANGED <<TxQueue, sendQ, ring>>
        /\ pc' = [pc EXCEPT ![t] = w] /\ is_nodrop_pkt' \in BOOLEAN
    BY <1>2, <2>1 DEF HTCSendPktsMultiple, hifVars, Contexts, TypeOK
  <2>3. View' = View
    BY <1>1, <2>1, <2>2, OutsideView
  <2> QED
    BY <2>2, <2>3, FlagOnly
<1>3. CASE HTCTxCompletionHandler
  <2>1. PICK w \in {"recycle", "resources"} : pc' = [pc EXCEPT ![Tasklet] = w]
    BY <1>3 DEF HTCTxCompletionHandler
  <2>2. /\ pc[Tasklet] = "idle" /\ UNCHANGED <<TxQueue, sendQ, is_nodrop_pkt>>
        /\ ring # <<>> /\ ring' = Tail(ring)
    BY <1>3 DEF HTCTxCompletionHandler
  <2>3. View' = View
    BY <1>1, <2>1, <2>2, OutsideView
  <2> QED
    BY <2>2, <2>3, CompleteChannel
<1>4. CASE RecycleEntry
  <2>1. PICK w : w = "idle"
    OBVIOUS
  <2>2. /\ pc[Tasklet] = "recycle" /\ UNCHANGED <<TxQueue, sendQ, ring, is_nodrop_pkt>>
        /\ pc' = [pc EXCEPT ![Tasklet] = w]
    BY <1>4, <2>1 DEF RecycleEntry, epVars
  <2>3. View' = View
    BY <1>1, <2>1, <2>2, OutsideView
  <2> QED
    BY <2>2, <2>3, Invisible
<1>5. CASE CE_per_engine_servicereap
  <2>1. /\ UNCHANGED <<pc, TxQueue, sendQ, is_nodrop_pkt>>
        /\ ring # <<>> /\ ring' = Tail(ring)
    BY <1>5 DEF CE_per_engine_servicereap, epVars, ctxVars
  <2>2. View' = View
    BY <2>1 DEF View, InHand, Drainers
  <2> QED
    BY <2>1, <2>2, CompleteChannel
<1>6. ASSUME NEW asked \in 0..TxAlloc, NEW quiet \in 0..TxAlloc,
             HTCProcessCreditRpt(asked, quiet)
      PROVE  [Channel!Next]_(Channel!vars)
  <2>1. PICK w \in {"idle", "resources"} : pc' = [pc EXCEPT ![Tasklet] = w]
    BY <1>6 DEF HTCProcessCreditRpt
  <2>2. /\ pc[Tasklet] = "idle" /\ UNCHANGED <<TxQueue, sendQ, ring, is_nodrop_pkt>>
    BY <1>6 DEF HTCProcessCreditRpt
  <2>3. View' = View
    BY <1>1, <2>1, <2>2, OutsideView
  <2> QED
    BY <2>2, <2>3, Invisible
<1> QED
  BY <1>2, <1>3, <1>4, <1>5, <1>6

(* An HTC endpoint implements a FIFO channel: whatever contexts send,      *)
(* drain, fail and flush at once, packets reach the bus in the order they  *)
(* were queued (a nodrop batch may overtake), complete in bus order, and   *)
(* only packets that never reached the bus are cancelled.                  *)
THEOREM ChannelImplemented == Spec => ImplementsChannel
<1>1. Init => Channel!Init
  <2> SUFFICES ASSUME Init PROVE Channel!Init
    OBVIOUS
  <2>1. Drainers = {}
    BY DEF Init, Drainers
  <2>2. InHand = <<>> /\ TxQueue = <<>> /\ TxQueue \in Seq(Packets)
    BY <2>1, EmptySeq DEF Init, InHand
  <2>3. InHand \o TxQueue = <<>>
    BY <2>2, ConcatEmptySeq
  <2> QED
    BY <2>3 DEF Init, Channel!Init
<1>2. TypeInv /\ DrainInv /\ DrainInv' /\ PlaceInv /\ [Next]_vars
        => [Channel!Next]_(Channel!vars)
  <2> SUFFICES ASSUME TypeInv, DrainInv, DrainInv', PlaceInv, [Next]_vars
               PROVE  [Channel!Next]_(Channel!vars)
    OBVIOUS
  <2>1. ASSUME NEW t \in Contexts, TrySendStep(t) PROVE [Channel!Next]_(Channel!vars)
    BY <2>1, StepChannel
  <2>2. ASSUME NEW t \in Threads, HTCFlushEndpointTX(t) PROVE [Channel!Next]_(Channel!vars)
    BY <2>2, CancelChannel DEF TypeInv
  <2>3. CASE UNCHANGED vars
    <3>1. UNCHANGED <<pc, TxQueue, sendQ, ring, is_nodrop_pkt>>
      BY <2>3 DEF vars, epVars, ctxVars, hifVars
    <3>2. View' = View
      BY <3>1 DEF View, InHand, Drainers
    <3> QED
      BY <3>1, <3>2, Invisible
  <2> QED
    BY <2>1, <2>2, <2>3, OutsideChannel DEF Next
<1>3. Spec => []DrainInv
  BY Placed, PTL
<1> QED
  BY <1>1, <1>2, Placed, PTL DEF Spec, ImplementsChannel, Channel!Spec

=============================================================================
