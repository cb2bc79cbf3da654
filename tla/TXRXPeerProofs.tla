--------------------------- MODULE TXRXPeerProofs ---------------------------
(***************************************************************************)
(* Peers and their references, proved for any number of peers, addresses,  *)
(* IDs and threads, and whatever commands are lost; where a theorem does   *)
(* not cover every target, it says so.                                     *)
(*                                                                         *)
(* NoDangling is not inductive: a peer is freed when its count becomes 0,  *)
(* so no count may be lower than the number of references it stands for    *)
(* (Covered).  References come from the attachment, from the ID map, and   *)
(* from threads that are between a lookup and its release, so the          *)
(* invariant also says who these threads are (McInv, OtherInv), that a     *)
(* peer being attached is known to nobody else (FreshInv), which peers are *)
(* on the list (ListInv), and whose IDs the maps hold (MapInv).  Covered is*)
(* an inequality because the count can exceed the references for good,     *)
(* when the target reuses an ID without unmapping it; where it does not,   *)
(* counts are exact (Exact, Alternate).  That no plain decrement but a     *)
(* peeker's is the last, and that the write after it finds the peer alive, *)
(* needs the order of peers in a bin (GoneInv).                            *)
(***************************************************************************)
EXTENDS TXRXPeer, FiniteSetTheorems, SequenceTheorems, WellFoundedInduction, TLAPS

-----------------------------------------------------------------------------
(* Peer objects                                                            *)

PeerRec == [mem: {"none", "live", "freed"}, mac: Macs \cup {NoMac}, ref_cnt: Nat,
            valid: BOOLEAN, delete_in_progress: BOOLEAN,
            local_id: Lids \cup {INVALID}, peer_ids: Seq(Ids)]
Objects == [Peers -> PeerRec]

(* What an assignment to fields of one peer does to all fields of all. *)
PutRef(f, p, x) == [f EXCEPT ![p].ref_cnt = x]

LEMMA SetRef ==
  ASSUME NEW f \in Objects, NEW p \in Peers, NEW x \in Nat
  PROVE  LET g == PutRef(f, p, x) IN
         /\ g \in Objects
         /\ g[p].ref_cnt = x
         /\ \A q \in Peers :
              /\ q # p => g[q] = f[q]
              /\ g[q].mem = f[q].mem /\ g[q].mac = f[q].mac /\ g[q].valid = f[q].valid
              /\ g[q].delete_in_progress = f[q].delete_in_progress
              /\ g[q].local_id = f[q].local_id /\ g[q].peer_ids = f[q].peer_ids
<1> DEFINE r == [f[p] EXCEPT !.ref_cnt = x]
           h == [f EXCEPT ![p] = r]
<1>1. f[p] \in PeerRec
  BY DEF Objects
<1>2. /\ r \in PeerRec
      /\ r.ref_cnt = x
      /\ r.mem = f[p].mem /\ r.mac = f[p].mac /\ r.valid = f[p].valid
      /\ r.delete_in_progress = f[p].delete_in_progress
      /\ r.local_id = f[p].local_id /\ r.peer_ids = f[p].peer_ids
  BY <1>1 DEF PeerRec
<1> HIDE DEF r
<1>3. h \in Objects /\ h[p] = r /\ \A q \in Peers : q # p => h[q] = f[q]
  BY <1>2 DEF Objects
<1>4. h = PutRef(f, p, x)
  BY DEF r, PutRef
<1> HIDE DEF h
<1> QED
  BY <1>2, <1>3, <1>4

PutInvalid(f, p) == [f EXCEPT ![p].valid = FALSE]

LEMMA SetInvalid ==
  ASSUME NEW f \in Objects, NEW p \in Peers
  PROVE  LET g == PutInvalid(f, p) IN
         /\ g \in Objects
         /\ g[p].valid = FALSE
         /\ \A q \in Peers :
              /\ q # p => g[q] = f[q]
              /\ g[q].mem = f[q].mem /\ g[q].mac = f[q].mac
              /\ g[q].ref_cnt = f[q].ref_cnt
              /\ g[q].delete_in_progress = f[q].delete_in_progress
              /\ g[q].local_id = f[q].local_id /\ g[q].peer_ids = f[q].peer_ids
<1> DEFINE r == [f[p] EXCEPT !.valid = FALSE]
           h == [f EXCEPT ![p] = r]
<1>1. f[p] \in PeerRec
  BY DEF Objects
<1>2. /\ r \in PeerRec
      /\ r.valid = FALSE
      /\ r.mem = f[p].mem /\ r.mac = f[p].mac /\ r.ref_cnt = f[p].ref_cnt
      /\ r.delete_in_progress = f[p].delete_in_progress
      /\ r.local_id = f[p].local_id /\ r.peer_ids = f[p].peer_ids
  BY <1>1 DEF PeerRec
<1> HIDE DEF r
<1>3. h \in Objects /\ h[p] = r /\ \A q \in Peers : q # p => h[q] = f[q]
  BY <1>2 DEF Objects
<1>4. h = PutInvalid(f, p)
  BY DEF r, PutInvalid
<1> HIDE DEF h
<1> QED
  BY <1>2, <1>3, <1>4

PutMark(f, p) == [f EXCEPT ![p].delete_in_progress = TRUE]

LEMMA SetMark ==
  ASSUME NEW f \in Objects, NEW p \in Peers
  PROVE  LET g == PutMark(f, p) IN
         /\ g \in Objects
         /\ g[p].delete_in_progress = TRUE
         /\ \A q \in Peers :
              /\ q # p => g[q] = f[q]
              /\ g[q].mem = f[q].mem /\ g[q].mac = f[q].mac
              /\ g[q].ref_cnt = f[q].ref_cnt /\ g[q].valid = f[q].valid
              /\ g[q].local_id = f[q].local_id /\ g[q].peer_ids = f[q].peer_ids
<1> DEFINE r == [f[p] EXCEPT !.delete_in_progress = TRUE]
           h == [f EXCEPT ![p] = r]
<1>1. f[p] \in PeerRec
  BY DEF Objects
<1>2. /\ r \in PeerRec
      /\ r.delete_in_progress = TRUE
      /\ r.mem = f[p].mem /\ r.mac = f[p].mac /\ r.ref_cnt = f[p].ref_cnt
      /\ r.valid = f[p].valid /\ r.local_id = f[p].local_id
      /\ r.peer_ids = f[p].peer_ids
  BY <1>1 DEF PeerRec
<1> HIDE DEF r
<1>3. h \in Objects /\ h[p] = r /\ \A q \in Peers : q # p => h[q] = f[q]
  BY <1>2 DEF Objects
<1>4. h = PutMark(f, p)
  BY DEF r, PutMark
<1> HIDE DEF h
<1> QED
  BY <1>2, <1>3, <1>4

PutLocalId(f, p, x) == [f EXCEPT ![p].local_id = x]

LEMMA SetLocalId ==
  ASSUME NEW f \in Objects, NEW p \in Peers, NEW x \in Lids \cup {INVALID}
  PROVE  LET g == PutLocalId(f, p, x) IN
         /\ g \in Objects
         /\ g[p].local_id = x
         /\ \A q \in Peers :
              /\ q # p => g[q] = f[q]
              /\ g[q].mem = f[q].mem /\ g[q].mac = f[q].mac
              /\ g[q].ref_cnt = f[q].ref_cnt /\ g[q].valid = f[q].valid
              /\ g[q].delete_in_progress = f[q].delete_in_progress
              /\ g[q].peer_ids = f[q].peer_ids
<1> DEFINE r == [f[p] EXCEPT !.local_id = x]
           h == [f EXCEPT ![p] = r]
<1>1. f[p] \in PeerRec
  BY DEF Objects
<1>2. /\ r \in PeerRec
      /\ r.local_id = x
      /\ r.mem = f[p].mem /\ r.mac = f[p].mac /\ r.ref_cnt = f[p].ref_cnt
      /\ r.valid = f[p].valid /\ r.delete_in_progress = f[p].delete_in_progress
      /\ r.peer_ids = f[p].peer_ids
  BY <1>1 DEF PeerRec
<1> HIDE DEF r
<1>3. h \in Objects /\ h[p] = r /\ \A q \in Peers : q # p => h[q] = f[q]
  BY <1>2 DEF Objects
<1>4. h = PutLocalId(f, p, x)
  BY DEF r, PutLocalId
<1> HIDE DEF h
<1> QED
  BY <1>2, <1>3, <1>4

PutIds(f, p, x) == [f EXCEPT ![p].peer_ids = x]

LEMMA SetIds ==
  ASSUME NEW f \in Objects, NEW p \in Peers, NEW x \in Seq(Ids)
  PROVE  LET g == PutIds(f, p, x) IN
         /\ g \in Objects
         /\ g[p].peer_ids = x
         /\ \A q \in Peers :
              /\ q # p => g[q] = f[q]
              /\ g[q].mem = f[q].mem /\ g[q].mac = f[q].mac
              /\ g[q].ref_cnt = f[q].ref_cnt /\ g[q].valid = f[q].valid
              /\ g[q].delete_in_progress = f[q].delete_in_progress
              /\ g[q].local_id = f[q].local_id
<1> DEFINE r == [f[p] EXCEPT !.peer_ids = x]
           h == [f EXCEPT ![p] = r]
<1>1. f[p] \in PeerRec
  BY DEF Objects
<1>2. /\ r \in PeerRec
      /\ r.peer_ids = x
      /\ r.mem = f[p].mem /\ r.mac = f[p].mac /\ r.ref_cnt = f[p].ref_cnt
      /\ r.valid = f[p].valid /\ r.delete_in_progress = f[p].delete_in_progress
      /\ r.local_id = f[p].local_id
  BY <1>1 DEF PeerRec
<1> HIDE DEF r
<1>3. h \in Objects /\ h[p] = r /\ \A q \in Peers : q # p => h[q] = f[q]
  BY <1>2 DEF Objects
<1>4. h = PutIds(f, p, x)
  BY DEF r, PutIds
<1> HIDE DEF h
<1> QED
  BY <1>2, <1>3, <1>4

PutMemory(f, p, x) == [f EXCEPT ![p].mem = "live", ![p].mac = x]

LEMMA SetMemory ==
  ASSUME NEW f \in Objects, NEW p \in Peers, NEW x \in Macs
  PROVE  LET g == PutMemory(f, p, x) IN
         /\ g \in Objects
         /\ g[p].mem = "live" /\ g[p].mac = x
         /\ \A q \in Peers :
              /\ q # p => g[q] = f[q]
              /\ g[q].ref_cnt = f[q].ref_cnt /\ g[q].valid = f[q].valid
              /\ g[q].delete_in_progress = f[q].delete_in_progress
              /\ g[q].local_id = f[q].local_id /\ g[q].peer_ids = f[q].peer_ids
<1> DEFINE r == [f[p] EXCEPT !.mem = "live", !.mac = x]
           h == [f EXCEPT ![p] = r]
<1>1. f[p] \in PeerRec
  BY DEF Objects
<1>2. /\ r \in PeerRec
      /\ r.mem = "live" /\ r.mac = x
      /\ r.ref_cnt = f[p].ref_cnt /\ r.valid = f[p].valid
      /\ r.delete_in_progress = f[p].delete_in_progress
      /\ r.local_id = f[p].local_id /\ r.peer_ids = f[p].peer_ids
  BY <1>1 DEF PeerRec
<1> HIDE DEF r
<1>3. h \in Objects /\ h[p] = r /\ \A q \in Peers : q # p => h[q] = f[q]
  BY <1>2 DEF Objects
<1>4. h = PutMemory(f, p, x)
  BY DEF r, PutMemory
<1> HIDE DEF h
<1> QED
  BY <1>2, <1>3, <1>4

PutInitial(f, p) == [f EXCEPT ![p].ref_cnt = 2, ![p].valid = TRUE, ![p].delete_in_progress = FALSE, ![p].peer_ids = <<>>]

LEMMA SetInitial ==
  ASSUME NEW f \in Objects, NEW p \in Peers
  PROVE  LET g == PutInitial(f, p) IN
         /\ g \in Objects
         /\ g[p].ref_cnt = 2 /\ g[p].valid = TRUE /\ g[p].delete_in_progress = FALSE /\ g[p].peer_ids = <<>>
         /\ \A q \in Peers :
              /\ q # p => g[q] = f[q]
              /\ g[q].mem = f[q].mem /\ g[q].mac = f[q].mac
              /\ g[q].local_id = f[q].local_id
<1> DEFINE r == [f[p] EXCEPT !.ref_cnt = 2, !.valid = TRUE, !.delete_in_progress = FALSE, !.peer_ids = <<>>]
           h == [f EXCEPT ![p] = r]
<1>1. f[p] \in PeerRec
  BY DEF Objects
<1>0. <<>> \in Seq(Ids)
  OBVIOUS
<1>2. /\ r \in PeerRec
      /\ r.ref_cnt = 2 /\ r.valid = TRUE /\ r.delete_in_progress = FALSE /\ r.peer_ids = <<>>
      /\ r.mem = f[p].mem /\ r.mac = f[p].mac /\ r.local_id = f[p].local_id
  BY <1>0, <1>1 DEF PeerRec
<1> HIDE DEF r
<1>3. h \in Objects /\ h[p] = r /\ \A q \in Peers : q # p => h[q] = f[q]
  BY <1>2 DEF Objects
<1>4. h = PutInitial(f, p)
  BY DEF r, PutInitial
<1> HIDE DEF h
<1> QED
  BY <1>2, <1>3, <1>4

PutFreed(f, p) == [f EXCEPT ![p].mem = "freed", ![p].ref_cnt = 0, ![p].delete_in_progress = FALSE]

LEMMA SetFreed ==
  ASSUME NEW f \in Objects, NEW p \in Peers
  PROVE  LET g == PutFreed(f, p) IN
         /\ g \in Objects
         /\ g[p].mem = "freed" /\ g[p].ref_cnt = 0 /\ g[p].delete_in_progress = FALSE
         /\ \A q \in Peers :
              /\ q # p => g[q] = f[q]
              /\ g[q].mac = f[q].mac /\ g[q].valid = f[q].valid
              /\ g[q].local_id = f[q].local_id /\ g[q].peer_ids = f[q].peer_ids
<1> DEFINE r == [f[p] EXCEPT !.mem = "freed", !.ref_cnt = 0, !.delete_in_progress = FALSE]
           h == [f EXCEPT ![p] = r]
<1>1. f[p] \in PeerRec
  BY DEF Objects
<1>2. /\ r \in PeerRec
      /\ r.mem = "freed" /\ r.ref_cnt = 0 /\ r.delete_in_progress = FALSE
      /\ r.mac = f[p].mac /\ r.valid = f[p].valid /\ r.local_id = f[p].local_id
      /\ r.peer_ids = f[p].peer_ids
  BY <1>1 DEF PeerRec
<1> HIDE DEF r
<1>3. h \in Objects /\ h[p] = r /\ \A q \in Peers : q # p => h[q] = f[q]
  BY <1>2 DEF Objects
<1>4. h = PutFreed(f, p)
  BY DEF r, PutFreed
<1> HIDE DEF h
<1> QED
  BY <1>2, <1>3, <1>4

-----------------------------------------------------------------------------
(* Lists and lookups                                                       *)

LEMMA LeastNat ==
  ASSUME NEW S \in SUBSET Nat, S # {}
  PROVE  Min(S) \in S /\ \A y \in S : Min(S) <= y
<1> DEFINE R == OpToRel(<, Nat)
<1>1. IsWellFoundedOn(R, Nat)
  BY NatLessThanWellFounded
<1>2. \A x, y \in Nat : x < y => <<x, y>> \in R
  BY DEF OpToRel
<1> HIDE DEF R
<1>3. PICK x \in S : \A y \in S : ~(<<y, x>> \in R)
  BY <1>1, WFMin
<1>4. \A y \in S : ~(y < x)
  BY <1>2, <1>3
<1>5. \A y \in S : x <= y
  BY <1>4
<1> QED
  BY <1>5 DEF Min

LEMMA GreatestNat ==
  ASSUME NEW S \in SUBSET Nat, S # {}, NEW n \in Nat, \A y \in S : y <= n
  PROVE  Max(S) \in S
<1> DEFINE D == {n - y : y \in S}
<1>1. D \in SUBSET Nat /\ D # {}
  <2>1. \A y \in S : n - y \in Nat
    OBVIOUS
  <2> QED
    BY <2>1
<1>2. PICK x \in S : Min(D) = n - x
  BY <1>1, LeastNat
<1>3. \A y \in S : n - x <= n - y
  <2> HIDE DEF D
  <2>1. \A d \in D : Min(D) <= d
    BY <1>1, LeastNat
  <2>2. \A y \in S : n - y \in D
    BY DEF D
  <2> QED
    BY <1>2, <2>1, <2>2
<1>4. \A y \in S : x >= y
  BY <1>3
<1> QED
  BY <1>4 DEF Max

LEMMA ConcatFacts ==
  ASSUME NEW S, NEW a \in Seq(S), NEW b \in Seq(S)
  PROVE  /\ a \o b \in Seq(S) /\ Len(a \o b) = Len(a) + Len(b)
         /\ \A i \in 1..Len(a) : (a \o b)[i] = a[i]
         /\ \A i \in 1..(Len(a) + Len(b)) : i > Len(a) => (a \o b)[i] = b[i - Len(a)]
<1>1. Len(a) \in Nat /\ Len(b) \in Nat
  OBVIOUS
<1>2. a \o b \in Seq(S) /\ Len(a \o b) = Len(a) + Len(b)
  OBVIOUS
<1>3. \A i \in 1..Len(a) : (a \o b)[i] = a[i]
  OBVIOUS
<1>4. ASSUME NEW i \in 1..(Len(a) + Len(b)), i > Len(a) PROVE (a \o b)[i] = b[i - Len(a)]
  BY <1>1, <1>4
<1> QED
  BY <1>2, <1>3, <1>4

(* Each element is in the list once. *)
Once(s) == \A i, j \in DOMAIN s : s[i] = s[j] => i = j

(* TAILQ_REMOVE takes an element that is there once out of the list, and   *)
(* leaves the order of the others.                                         *)
LEMMA WithoutFacts ==
  ASSUME NEW S, NEW s \in Seq(S), Once(s), NEW p
  PROVE  LET w == Without(s, p) IN
         /\ w \in Seq(S) /\ Once(w) /\ ToSet(w) = ToSet(s) \ {p}
         /\ \A i, j \in DOMAIN w : i < j =>
              \E k, l \in DOMAIN s : k < l /\ s[k] = w[i] /\ s[l] = w[j]
<1> DEFINE at == {i \in DOMAIN s : s[i] = p}
           w == Without(s, p)
<1>0. Len(s) \in Nat /\ DOMAIN s = 1..Len(s)
  OBVIOUS
<1>1. CASE at = {}
  <2>1. w = s
    BY <1>1 DEF Without
  <2> HIDE DEF w
  <2> QED
    BY <1>1, <2>1 DEF ToSet, w
<1>2. CASE at # {}
  <2> DEFINE k == Min(at)
             n == Len(s)
  <2>1. at \in SUBSET Nat
    BY <1>0
  <2>2. k \in at
    BY <1>2, <2>1, LeastNat
  <2>3. k \in 1..n /\ s[k] = p /\ n \in Nat
    BY <1>0, <2>2
  <2>4. w = RemoveAt(s, k)
    BY <1>2 DEF Without
  <2> HIDE DEF w, k, at
  <2>5. /\ w \in Seq(S) /\ Len(w) = n - 1
        /\ \A i \in 1..(n - 1) : w[i] = IF i < k THEN s[i] ELSE s[i + 1]
    <3> DEFINE a == SubSeq(s, 1, k - 1)
               b == SubSeq(s, k + 1, n)
    <3>1. /\ a \in Seq(S) /\ Len(a) = k - 1
          /\ \A i \in 1..(k - 1) : a[i] = s[i]
      BY <2>3
    <3>2. /\ b \in Seq(S) /\ Len(b) = n - k
          /\ \A i \in 1..(n - k) : b[i] = s[k + i]
      BY <2>3
    <3> HIDE DEF a, b, n
    <3>3. /\ a \o b \in Seq(S) /\ Len(a \o b) = n - 1
          /\ \A i \in 1..(k - 1) : (a \o b)[i] = s[i]
          /\ \A i \in k..(n - 1) : (a \o b)[i] = s[i + 1]
      <4>1. /\ a \o b \in Seq(S) /\ Len(a \o b) = Len(a) + Len(b)
            /\ \A i \in 1..Len(a) : (a \o b)[i] = a[i]
            /\ \A i \in 1..(Len(a) + Len(b)) : i > Len(a) => (a \o b)[i] = b[i - Len(a)]
        BY <3>1, <3>2, ConcatFacts
      <4>2. Len(a \o b) = n - 1
        BY <2>3, <3>1, <3>2, <4>1
      <4>3. ASSUME NEW i \in k..(n - 1) PROVE (a \o b)[i] = s[i + 1]
        <5>1. i \in 1..(Len(a) + Len(b)) /\ i > Len(a) /\ i - Len(a) \in 1..(n - k)
              /\ k + (i - Len(a)) = i + 1
          BY <2>3, <3>1, <3>2
        <5> QED
          BY <3>2, <4>1, <5>1
      <4> QED
        BY <3>1, <4>1, <4>2, <4>3
    <3>4. w = a \o b
      BY <2>4 DEF RemoveAt, a, b, n
    <3>5. ASSUME NEW i \in 1..(n - 1) PROVE w[i] = IF i < k THEN s[i] ELSE s[i + 1]
      <4>1. i \in Int /\ (i < k => i \in 1..(k - 1)) /\ (~(i < k) => i \in k..(n - 1))
        BY <2>3
      <4> QED
        BY <3>3, <3>4, <4>1
    <3> QED
      BY <3>3, <3>4, <3>5
  <2>6. DOMAIN w = 1..(n - 1)
    BY <2>3, <2>5
  <2> DEFINE e(i) == IF i < k THEN i ELSE i + 1
  <2>7. \A i \in DOMAIN w : e(i) \in DOMAIN s /\ e(i) # k /\ w[i] = s[e(i)]
    BY <1>0, <2>3, <2>5, <2>6
  <2>8. \A i, j \in DOMAIN w : i < j => e(i) < e(j)
    BY <2>3, <2>6
  <2>9. \A j \in DOMAIN s : j # k => \E i \in DOMAIN w : e(i) = j
    <3> SUFFICES ASSUME NEW j \in DOMAIN s, j # k PROVE \E i \in DOMAIN w : e(i) = j
      OBVIOUS
    <3>1. CASE j < k
      BY <1>0, <2>3, <2>6, <3>1
    <3>2. CASE j > k
      <4>1. j - 1 \in DOMAIN w /\ e(j - 1) = j
        BY <1>0, <2>3, <2>6, <3>2
      <4> QED
        BY <4>1
    <3> QED
      BY <1>0, <2>3, <3>1, <3>2
  <2> HIDE DEF e
  <2>10. ToSet(w) = ToSet(s) \ {p}
    <3>1. \A i \in DOMAIN s : s[i] = p => i = k
      BY <1>0, <2>3 DEF Once
    <3> QED
      BY <1>0, <2>3, <2>7, <2>9, <3>1 DEF ToSet
  <2>11. Once(w)
    <3> SUFFICES ASSUME NEW i \in DOMAIN w, NEW j \in DOMAIN w, w[i] = w[j] PROVE i = j
      BY DEF Once
    <3>1. e(i) = e(j)
      BY <2>7 DEF Once
    <3>2. e(i) \in Nat /\ i \in Nat /\ j \in Nat
      BY <1>0, <2>3, <2>6, <2>7
    <3> QED
      BY <2>8, <3>1, <3>2
  <2> QED
    BY <2>5, <2>7, <2>8, <2>10, <2>11 DEF w
<1> QED
  BY <1>1, <1>2

LEMMA AppendFacts ==
  ASSUME NEW S, NEW s \in Seq(S), NEW p \in S
  PROVE  /\ Append(s, p) \in Seq(S) /\ ToSet(Append(s, p)) = ToSet(s) \cup {p}
         /\ Once(s) /\ p \notin ToSet(s) => Once(Append(s, p))
<1> DEFINE a == Append(s, p)
           n == Len(s)
<1>1. /\ n \in Nat /\ DOMAIN s = 1..n /\ a \in Seq(S) /\ DOMAIN a = 1..(n + 1)
      /\ \A i \in 1..n : a[i] = s[i]
      /\ a[n + 1] = p
  OBVIOUS
<1> HIDE DEF a, n
<1>2. ToSet(a) = ToSet(s) \cup {p}
  <2>1. \A i \in 1..(n + 1) : i \in 1..n \/ i = n + 1
    BY <1>1
  <2>2. 1..n \subseteq 1..(n + 1) /\ n + 1 \in 1..(n + 1)
    BY <1>1
  <2> QED
    BY <1>1, <2>1, <2>2 DEF ToSet
<1>3. ASSUME Once(s), p \notin ToSet(s) PROVE Once(a)
  <2>1. \A i \in 1..(n + 1) : i \in 1..n \/ i = n + 1
    BY <1>1
  <2> QED
    BY <1>1, <1>3, <2>1 DEF Once, ToSet
<1> QED
  BY <1>1, <1>2, <1>3 DEF a

(* The lookup returns a peer of the table, or none. *)
LEMMA FindFacts ==
  ASSUME peer \in Objects, hash \in Seq(Peers), NEW m, NEW v \in BOOLEAN
  PROVE  LET p == ol_txrx_peer_find_hash_find(m, v) IN
         \/ p = NoPeer
         \/ \E k \in DOMAIN hash :
              /\ p = hash[k] /\ p \in Peers /\ p \in ToSet(hash)
              /\ peer[p].mac = m /\ (v => peer[p].valid)
              /\ \A i \in DOMAIN hash : i < k =>
                    ~(peer[hash[i]].mac = m /\ (v => peer[hash[i]].valid))
<1> DEFINE hits == {i \in DOMAIN hash : /\ peer[hash[i]].mac = m
                                        /\ v => peer[hash[i]].valid}
           k == Min(hits)
<1>1. CASE hits = {}
  BY <1>1 DEF ol_txrx_peer_find_hash_find
<1>2. CASE hits # {}
  <2>1. hits \in SUBSET Nat
    OBVIOUS
  <2>2. k \in hits /\ \A y \in hits : k <= y
    BY <1>2, <2>1, LeastNat
  <2>3. ol_txrx_peer_find_hash_find(m, v) = hash[k]
    BY <1>2 DEF ol_txrx_peer_find_hash_find
  <2> HIDE DEF k
  <2>4. k \in DOMAIN hash /\ hash[k] \in Peers /\ hash[k] \in ToSet(hash)
    BY <2>2 DEF ToSet
  <2>5. \A i \in DOMAIN hash : i < k => i \notin hits
    <3>1. \A i \in DOMAIN hash : i \in Nat
      OBVIOUS
    <3> QED
      BY <2>1, <2>2, <3>1
  <2> QED
    BY <2>2, <2>3, <2>4, <2>5
<1> QED
  BY <1>1, <1>2

-----------------------------------------------------------------------------
(* Counting references                                                     *)

Holders(f, D, p) == {x \in D : f[x] = p}

Change(f, g, d, p) == (IF g[d] = p THEN 1 ELSE 0) - (IF f[d] = p THEN 1 ELSE 0)

LEMMA HolderStep ==
  ASSUME NEW D, IsFiniteSet(D), NEW f, NEW g, NEW d \in D, \A x \in D \ {d} : g[x] = f[x], NEW p
  PROVE  Cardinality(Holders(g, D, p)) = Cardinality(Holders(f, D, p)) + Change(f, g, d, p)
<1> DEFINE B == {x \in D \ {d} : f[x] = p}
<1>1. B \subseteq D /\ d \notin B
  OBVIOUS
<1>2. IsFiniteSet(B) /\ Cardinality(B) \in Nat
  BY <1>1, FS_Subset, FS_CardinalityType
<1>3. Holders(f, D, p) = IF f[d] = p THEN B \cup {d} ELSE B
  BY DEF Holders
<1>4. Holders(g, D, p) = IF g[d] = p THEN B \cup {d} ELSE B
  BY DEF Holders
<1>5. Cardinality(B \cup {d}) = Cardinality(B) + 1
  BY <1>1, <1>2, FS_AddElement
<1> HIDE DEF B
<1>6. Cardinality(Holders(f, D, p)) = Cardinality(B) + (IF f[d] = p THEN 1 ELSE 0)
  BY <1>2, <1>3, <1>5
<1>7. Cardinality(Holders(g, D, p)) = Cardinality(B) + (IF g[d] = p THEN 1 ELSE 0)
  BY <1>2, <1>4, <1>5
<1> QED
  BY <1>2, <1>6, <1>7 DEF Change

LEMMA HolderNat ==
  ASSUME NEW D, IsFiniteSet(D), NEW f, NEW p
  PROVE  /\ Cardinality(Holders(f, D, p)) \in Nat
         /\ (\E d \in D : f[d] = p) => Cardinality(Holders(f, D, p)) >= 1
         /\ Cardinality(Holders(f, D, p)) = 0 => \A d \in D : f[d] # p
<1>1. Holders(f, D, p) \subseteq D
  BY DEF Holders
<1>2. IsFiniteSet(Holders(f, D, p)) /\ Cardinality(Holders(f, D, p)) \in Nat
  BY <1>1, FS_Subset, FS_CardinalityType
<1>3. Cardinality(Holders(f, D, p)) = 0 => Holders(f, D, p) = {}
  BY <1>2, FS_EmptySet
<1>4. Holders(f, D, p) = {} => \A d \in D : f[d] # p
  BY DEF Holders
<1> QED
  BY <1>2, <1>3, <1>4

-----------------------------------------------------------------------------
(***************************************************************************)
(* The inductive invariant.  A count bounds the references from above:     *)
(* that is enough for a deletion never to leave a pointer behind, and it   *)
(* is inductive without a word about the target, whose messages may go to  *)
(* another peer of the same address or take an ID away from its owner.     *)
(***************************************************************************)

(* Where VOSS's main controller thread attaches a peer, detaches one.      *)
Early    == {"insert", "init", "hash_add"}
Naming   == {"update", "update_dec", "write", "local_id"}
Creating == {"dup_check", "wait", "alloc", "create_send"} \cup Early \cup Naming
HasPeer  == {"hash_add", "create_send", "detach"} \cup Naming
Leaving  == {"free_id", "mark", "detach_unref"}

(* The operands of the main controller thread. *)
McInv ==
    /\ pc[MC] \in Creating \cup Leaving \cup {"idle", "find", "find_dec", "remove_send", "detach"}
    /\ pc[MC] \in Creating \cup {"find", "find_dec", "remove_send"} => mac[MC] \in Macs
    /\ pc[MC] \in Creating => vdev = "up" /\ peer_count > 0
    /\ pc[MC] \in HasPeer => cur[MC] \in Peers /\ peer[cur[MC]].valid
    /\ pc[MC] = "remove_send" /\ cur[MC] # NoPeer => peer[cur[MC]].valid
    /\ pc[MC] \in Leaving => cur[MC] \in Peers /\ ~peer[cur[MC]].valid
    /\ pc[MC] \in {"insert", "init"} => cur[MC] \in Peers
    /\ pc[MC] \in {"idle", "dup_check", "wait", "alloc", "find", "find_dec"} => cur[MC] = NoPeer
    /\ pc[MC] = "find_dec" => got[MC] \in Peers /\ peer[got[MC]].valid
    /\ pc[MC] = "update_dec" => got[MC] \in Peers
    /\ pc[MC] \notin {"find_dec", "update_dec"} => got[MC] = NoPeer

(* Where another thread uses the peers, and where it holds one. *)
Holding    == {"held", "update", "update_dec", "write", "release"}
UserPlaces == {"idle", "find", "find_dec", "peeked"} \cup Holding
Between    == {"find_dec", "update_dec"}
USE DEF Holding, UserPlaces, Between

(* The operands of the tasklet and of the other threads. *)
OtherInv ==
    /\ pc[Tasklet] \in {"idle", "map"} /\ got[Tasklet] = NoPeer
    /\ cur[Tasklet] # NoPeer <=> pc[Tasklet] = "map"
    /\ pc[Tasklet] = "map" => msgs # <<>>
    /\ \A u \in Users :
        /\ pc[u] \in UserPlaces
        /\ got[u] # NoPeer <=> pc[u] \in {"find_dec", "update_dec"}
        /\ cur[u] # NoPeer <=> pc[u] \in Holding

(* A peer that is being attached is known to nobody else. *)
FreshInv ==
    /\ pc[MC] \in Early =>
        /\ cur[MC] \notin ToSet(hash)
        /\ \A i \in Ids : peer_id_to_obj_map[i] # cur[MC]
        /\ \A t \in Threads : got[t] # cur[MC]
        /\ \A t \in Threads \ {MC} : cur[t] # cur[MC]
    /\ pc[MC] \in Early \cup Naming => \A i \in Lids : map[i] # cur[MC]

(* The peers that are alive are the ones on the list. *)
ListInv ==
    /\ Once(peer_list) /\ Once(hash)
    /\ \A p \in Peers : Live(p) <=> \/ p \in ToSet(peer_list)
                                    \/ pc[MC] = "insert" /\ cur[MC] = p
    /\ pc[MC] = "insert" => cur[MC] \notin ToSet(peer_list)

(* A local ID is an attached peer's, a peer ID a mapped peer's. *)
MapInv ==
    /\ \A p \in Peers : peer[p].valid => Live(p)
    /\ \A i \in Lids : map[i] # NoPeer =>
         /\ peer[map[i]].local_id = i
         /\ \/ peer[map[i]].valid
            \/ pc[MC] = "free_id" /\ cur[MC] = map[i]
    /\ \A i \in Ids : peer_id_to_obj_map[i] # NoPeer =>
         peer[peer_id_to_obj_map[i]].peer_ids # <<>>

Raw(p) == cur[MC] = p /\ pc[MC] \in {"insert", "init"}

Covered == \A p \in Peers : (Live(p) /\ ~Raw(p)) => peer[p].ref_cnt >= References(p)

TableInv == FreshInv /\ ListInv /\ MapInv /\ NoDangling
PeerInv  == StateOK /\ McInv /\ OtherInv /\ TableInv /\ Covered

(* The four kinds of reference a count stands for. *)
RefA(p) == IF Attached(p) THEN 1 ELSE 0
RefI(p) == IF peer[p].peer_ids = <<>> THEN 1
           ELSE Cardinality(Holders(peer_id_to_obj_map, Ids, p))
RefG(p) == Cardinality(Holders(got, Threads, p))
RefC(p) == Cardinality(Holders(cur, Threads \ {MC}, p))

LEMMA ThreadsFinite ==
  /\ IsFiniteSet(Threads) /\ IsFiniteSet(Threads \ {MC}) /\ IsFiniteSet(Ids)
  /\ MC \in Threads /\ Tasklet \in Threads \ {MC} /\ Users \subseteq Threads \ {MC}
  /\ MC # Tasklet /\ MC \notin Users /\ Tasklet \notin Users
<1>1. IsFiniteSet({MC, Tasklet}) /\ IsFiniteSet(Users)
  <2>1. IsFiniteSet({MC}) /\ IsFiniteSet({Tasklet})
    BY FS_Singleton
  <2>2. IsFiniteSet({MC} \cup {Tasklet})
    BY <2>1, FS_Union
  <2>3. {MC, Tasklet} = {MC} \cup {Tasklet}
    OBVIOUS
  <2> QED
    BY <2>2, <2>3, PeerAssumption
<1>2. IsFiniteSet(Threads)
  BY <1>1, FS_Union DEF Threads
<1>3. IsFiniteSet(Threads \ {MC})
  BY <1>2, FS_Subset
<1>4. IsFiniteSet(Ids)
  BY PeerAssumption, FS_Interval DEF Ids
<1> QED
  BY <1>2, <1>3, <1>4, PeerAssumption DEF Threads, MC, Tasklet

LEMMA RefParts ==
  ASSUME NEW p
  PROVE  /\ References(p) = RefA(p) + RefI(p) + RefG(p) + RefC(p)
         /\ RefA(p) \in Nat /\ RefI(p) \in Nat /\ RefG(p) \in Nat /\ RefC(p) \in Nat
<1>1. /\ Cardinality(Holders(peer_id_to_obj_map, Ids, p)) \in Nat
      /\ RefG(p) \in Nat /\ RefC(p) \in Nat
  BY ThreadsFinite, HolderNat DEF RefG, RefC
<1>2. References(p) = RefA(p) + RefI(p) + RefG(p) + RefC(p)
  BY DEF References, RefA, RefI, RefG, RefC, Holders
<1> QED
  BY <1>1, <1>2 DEF RefA, RefI

(* ... in the next state, too. *)
LEMMA RefPartsNext ==
  \A p : /\ References(p)' = RefA(p)' + RefI(p)' + RefG(p)' + RefC(p)'
         /\ RefA(p)' \in Nat /\ RefI(p)' \in Nat /\ RefG(p)' \in Nat /\ RefC(p)' \in Nat
<1>1. \A p : /\ References(p) = RefA(p) + RefI(p) + RefG(p) + RefC(p)
             /\ RefA(p) \in Nat /\ RefI(p) \in Nat /\ RefG(p) \in Nat /\ RefC(p) \in Nat
  BY RefParts
<1>2. (\A p : /\ References(p) = RefA(p) + RefI(p) + RefG(p) + RefC(p)
              /\ RefA(p) \in Nat /\ RefI(p) \in Nat /\ RefG(p) \in Nat /\ RefC(p) \in Nat)'
  BY <1>1, PTL
<1> QED
  BY <1>2

(* Whoever has a reference is counted. *)
LEMMA RefHeld ==
  ASSUME NEW p
  PROVE  /\ Attached(p) => RefA(p) = 1
         /\ (\E t \in Threads : got[t] = p) => RefG(p) >= 1
         /\ (\E t \in Threads \ {MC} : cur[t] = p) => RefC(p) >= 1
         /\ (\E i \in Ids : peer_id_to_obj_map[i] = p) => RefI(p) >= 1
         /\ (peer[p].peer_ids = <<>>) => RefI(p) = 1
         /\ RefG(p) = 0 => \A t \in Threads : got[t] # p
         /\ RefC(p) = 0 => \A t \in Threads \ {MC} : cur[t] # p
         /\ RefI(p) = 0 => \A i \in Ids : peer_id_to_obj_map[i] # p
<1>1. /\ (\E t \in Threads : got[t] = p) => RefG(p) >= 1
      /\ RefG(p) = 0 => \A t \in Threads : got[t] # p
  BY ThreadsFinite, HolderNat DEF RefG
<1>2. /\ (\E t \in Threads \ {MC} : cur[t] = p) => RefC(p) >= 1
      /\ RefC(p) = 0 => \A t \in Threads \ {MC} : cur[t] # p
  BY ThreadsFinite, HolderNat DEF RefC
<1>3. /\ (\E i \in Ids : peer_id_to_obj_map[i] = p) => RefI(p) >= 1
      /\ RefI(p) = 0 => \A i \in Ids : peer_id_to_obj_map[i] # p
  <2> DEFINE k == Cardinality(Holders(peer_id_to_obj_map, Ids, p))
  <2>1. /\ k \in Nat
        /\ (\E i \in Ids : peer_id_to_obj_map[i] = p) => k >= 1
        /\ k = 0 => \A i \in Ids : peer_id_to_obj_map[i] # p
    BY ThreadsFinite, HolderNat
  <2>2. RefI(p) = IF peer[p].peer_ids = <<>> THEN 1 ELSE k
    BY DEF RefI
  <2> HIDE DEF k
  <2> QED
    BY <2>1, <2>2
<1> QED
  BY <1>1, <1>2, <1>3 DEF RefA, RefI

(* ... in the next state. *)
LEMMA RefHeldNext ==
  \A p : /\ RefG(p)' = 0 => \A t \in Threads : got'[t] # p
         /\ RefC(p)' = 0 => \A t \in Threads \ {MC} : cur'[t] # p
         /\ RefI(p)' = 0 => \A i \in Ids : peer_id_to_obj_map'[i] # p
<1>1. \A p : /\ RefG(p) = 0 => \A t \in Threads : got[t] # p
             /\ RefC(p) = 0 => \A t \in Threads \ {MC} : cur[t] # p
             /\ RefI(p) = 0 => \A i \in Ids : peer_id_to_obj_map[i] # p
  BY RefHeld
<1>2. (\A p : /\ RefG(p) = 0 => \A t \in Threads : got[t] # p
              /\ RefC(p) = 0 => \A t \in Threads \ {MC} : cur[t] # p
              /\ RefI(p) = 0 => \A i \in Ids : peer_id_to_obj_map[i] # p)'
  BY <1>1, PTL
<1> QED
  BY <1>2

-----------------------------------------------------------------------------
(* Steps that change no table                                              *)

LEMMA FewerHolders ==
  ASSUME NEW D, IsFiniteSet(D), NEW f, NEW g, NEW p, \A x \in D : g[x] = p => f[x] = p
  PROVE  Cardinality(Holders(g, D, p)) <= Cardinality(Holders(f, D, p))
<1>1. Holders(g, D, p) \subseteq Holders(f, D, p) /\ Holders(f, D, p) \subseteq D
  BY DEF Holders
<1>2. IsFiniteSet(Holders(f, D, p))
  BY <1>1, FS_Subset
<1> QED
  BY <1>1, <1>2, FS_Subset

(* A peer keeps enough references if it loses at least as many holders. *)
LEMMA CoveredBy ==
  ASSUME Covered,
         \A p \in Peers : (Live(p)' /\ ~Raw(p)') =>
            /\ Live(p) /\ ~Raw(p) /\ peer'[p].ref_cnt \in Nat /\ peer[p].ref_cnt \in Nat
            /\ RefA(p)' + RefI(p)' + RefG(p)' + RefC(p)' + peer[p].ref_cnt
                 <= RefA(p) + RefI(p) + RefG(p) + RefC(p) + peer'[p].ref_cnt
  PROVE  Covered'
<1> SUFFICES ASSUME NEW p \in Peers, Live(p)', ~Raw(p)'
             PROVE  peer'[p].ref_cnt >= References(p)'
  BY DEF Covered
<1>1. peer[p].ref_cnt >= References(p)
  BY DEF Covered
<1>2. /\ References(p) = RefA(p) + RefI(p) + RefG(p) + RefC(p)
      /\ RefA(p) \in Nat /\ RefI(p) \in Nat /\ RefG(p) \in Nat /\ RefC(p) \in Nat
  BY RefParts
<1>3. /\ References(p)' = RefA(p)' + RefI(p)' + RefG(p)' + RefC(p)'
      /\ RefA(p)' \in Nat /\ RefI(p)' \in Nat /\ RefG(p)' \in Nat /\ RefC(p)' \in Nat
  BY RefPartsNext
<1> DEFINE r == peer[p].ref_cnt
           s == peer'[p].ref_cnt
<1>4. /\ r \in Nat /\ s \in Nat /\ r >= References(p)
      /\ RefA(p)' + RefI(p)' + RefG(p)' + RefC(p)' + r
            <= RefA(p) + RefI(p) + RefG(p) + RefC(p) + s
  BY <1>1
<1> HIDE DEF r, s
<1>5. s >= References(p)'
  BY <1>2, <1>3, <1>4
<1> QED
  BY <1>5 DEF s

Moving == Early \cup Naming \cup Leaving

LEMMA QuietTables ==
  ASSUME PeerInv, UNCHANGED <<peer, peer_list, hash, map, peer_id_to_obj_map>>,
         \A t \in Threads : cur'[t] \in {cur[t], NoPeer} /\ got'[t] \in {got[t], NoPeer},
         \/ pc'[MC] = pc[MC] /\ cur'[MC] = cur[MC]
         \/ pc[MC] \notin Moving /\ pc'[MC] \notin Moving
  PROVE  TableInv' /\ Covered'
<1> USE DEF PeerInv, TableInv
<1>0. NoPeer \notin Peers /\ MC \in Threads
  BY ThreadsFinite DEF NoPeer, Peers
<1>1. FreshInv'
  <2>1. CASE pc'[MC] = pc[MC] /\ cur'[MC] = cur[MC]
    <3>1. pc[MC] \in Early => cur[MC] \in Peers
      BY DEF McInv, Early, HasPeer
    <3> QED
      BY <1>0, <2>1, <3>1 DEF FreshInv
  <2>2. CASE pc'[MC] \notin Moving
    BY <2>2 DEF FreshInv, Moving
  <2> QED
    BY <2>1, <2>2
<1>2. ListInv'
  BY DEF ListInv, Moving, Early, Live
<1>3. MapInv'
  BY DEF MapInv, Moving, Leaving, Live
<1>4. NoDangling'
  BY DEF NoDangling, Live
<1>5. Covered'
  <2> SUFFICES ASSUME NEW p \in Peers, Live(p)', ~Raw(p)'
        PROVE  /\ Live(p) /\ ~Raw(p) /\ peer'[p].ref_cnt \in Nat /\ peer[p].ref_cnt \in Nat
               /\ RefA(p)' + RefI(p)' + RefG(p)' + RefC(p)' + peer[p].ref_cnt
                    <= RefA(p) + RefI(p) + RefG(p) + RefC(p) + peer'[p].ref_cnt
    BY CoveredBy
  <2>1. peer[p].ref_cnt \in Nat /\ peer'[p].ref_cnt = peer[p].ref_cnt
    BY DEF StateOK
  <2>2. Live(p) /\ ~Raw(p)
    BY DEF Live, Raw, Moving, Early
  <2>3. RefA(p)' <= RefA(p)
    <3>1. Attached(p)' => Attached(p)
      BY DEF Attached, Moving, Leaving
    <3> QED
      BY <3>1 DEF RefA
  <2>4. RefI(p)' = RefI(p)
    BY DEF RefI, Holders
  <2>5. RefG(p)' <= RefG(p)
    BY <1>0, ThreadsFinite, FewerHolders DEF RefG
  <2>6. RefC(p)' <= RefC(p)
    BY <1>0, ThreadsFinite, FewerHolders DEF RefC
  <2>7. /\ RefA(p) \in Nat /\ RefI(p) \in Nat /\ RefG(p) \in Nat /\ RefC(p) \in Nat
        /\ RefA(p)' \in Nat /\ RefI(p)' \in Nat /\ RefG(p)' \in Nat /\ RefC(p)' \in Nat
    BY RefParts, RefPartsNext
  <2> DEFINE r == peer[p].ref_cnt
  <2>8. r \in Nat /\ peer'[p].ref_cnt = r
    BY <2>1
  <2> HIDE DEF r
  <2>9. RefA(p)' + RefI(p)' + RefG(p)' + RefC(p)' + r <= RefA(p) + RefI(p) + RefG(p) + RefC(p) + r
    BY <2>3, <2>4, <2>5, <2>6, <2>7, <2>8
  <2> QED
    BY <2>1, <2>2, <2>8, <2>9 DEF r
<1> QED
  BY <1>1, <1>2, <1>3, <1>4, <1>5

(* The target and the link to it. *)
LEMMA TargetTypes ==
  ASSUME StateOK, TargetStep
  PROVE  /\ cmds' \in Seq([type: {"create", "delete"}, mac: Macs])
         /\ targetIds' \in [Macs -> Seq(Ids)]
         /\ msgs' \in Seq([type: {"map", "unmap"}, id: Ids, mac: Macs])
         /\ msgs # <<>> => msgs' # <<>> /\ Head(msgs') = Head(msgs)
<1> DEFINE C == [type: {"create", "delete"}, mac: Macs]
           M == [type: {"map", "unmap"}, id: Ids, mac: Macs]
           m == Head(cmds).mac
<1>1. cmds \in Seq(C) /\ cmds # <<>> /\ cmds' = Tail(cmds)
  BY DEF StateOK, TargetStep, TargetCreate, TargetDelete
<1>2. Tail(cmds) \in Seq(C) /\ Head(cmds) \in C
  <2> HIDE DEF C
  <2> QED
    BY <1>1
<1>3. m \in Macs
  BY <1>2
<1>4. targetIds \in [Macs -> Seq(Ids)] /\ msgs \in Seq(M)
  BY DEF StateOK
<1>5. ASSUME NEW ids \in Seq(Ids), NEW k \in {"map", "unmap"},
             msgs' = msgs \o [i \in 1..Len(ids) |-> [type |-> k, id |-> ids[i], mac |-> m]]
      PROVE  /\ msgs' \in Seq(M)
             /\ msgs # <<>> => msgs' # <<>> /\ Head(msgs') = Head(msgs)
  <2> DEFINE new == [i \in 1..Len(ids) |-> [type |-> k, id |-> ids[i], mac |-> m]]
  <2>1. new \in Seq(M)
    <3>1. Len(ids) \in Nat
      OBVIOUS
    <3>2. \A i \in 1..Len(ids) : [type |-> k, id |-> ids[i], mac |-> m] \in M
      BY <1>3
    <3>3. new \in [1..Len(ids) -> M]
      BY <3>2
    <3> HIDE DEF new, M
    <3> QED
      BY <3>1, <3>3
  <2>2. msgs' = msgs \o new
    BY <1>5
  <2> HIDE DEF new, M
  <2> QED
    BY <1>4, <2>1, <2>2
<1>6. CASE TargetCreate
  <2> DEFINE free == Ids \ UNION {ToSet(targetIds[n]) : n \in Macs}
             a == Min(free)
             ids == IF IdsPerPeer = 1 THEN <<a>> ELSE <<a, Min(free \ {a})>>
  <2>1. /\ Cardinality(free) >= IdsPerPeer /\ targetIds' = [targetIds EXCEPT ![m] = ids]
        /\ msgs' = msgs \o [i \in 1..Len(ids) |-> [type |-> "map", id |-> ids[i], mac |-> m]]
    BY <1>6 DEF TargetCreate
  <2>2. free \subseteq Ids /\ Ids \subseteq Nat /\ IsFiniteSet(free)
    BY ThreadsFinite, FS_Subset, PeerAssumption DEF Ids
  <2> HIDE DEF free
  <2>3. free # {}
    <3> SUFFICES ASSUME free = {} PROVE FALSE
      OBVIOUS
    <3>1. Cardinality(free) = 0
      BY FS_EmptySet
    <3> QED
      BY <2>1, <3>1, PeerAssumption
  <2>4. a \in free
    BY <2>2, <2>3, LeastNat
  <2>5. IdsPerPeer # 1 => Min(free \ {a}) \in Ids
    <3> SUFFICES ASSUME IdsPerPeer # 1 PROVE Min(free \ {a}) \in Ids
      OBVIOUS
    <3>1. Cardinality(free) >= 2
      BY <2>1, PeerAssumption
    <3>2. Cardinality(free \ {a}) = Cardinality(free) - 1 /\ Cardinality(free) \in Nat
      BY <2>2, <2>4, FS_RemoveElement, FS_CardinalityType
    <3>3. free \ {a} # {}
      BY <3>1, <3>2, FS_EmptySet
    <3>4. free \ {a} \in SUBSET Nat
      BY <2>2
    <3> QED
      BY <2>2, <3>3, <3>4, LeastNat
  <2>6. ids \in Seq(Ids)
    <3> HIDE DEF a
    <3>1. a \in Ids
      BY <2>2, <2>4
    <3> QED
      BY <2>5, <3>1
  <2> HIDE DEF ids
  <2>7. targetIds' \in [Macs -> Seq(Ids)]
    BY <1>3, <1>4, <2>1, <2>6
  <2> QED
    BY <1>1, <1>2, <1>5, <2>1, <2>6, <2>7
<1>7. CASE TargetDelete
  <2> DEFINE ids == targetIds[m]
  <2>1. /\ targetIds' = [targetIds EXCEPT ![m] = <<>>]
        /\ msgs' = msgs \o [i \in 1..Len(ids) |-> [type |-> "unmap", id |-> ids[i], mac |-> m]]
    BY <1>7 DEF TargetDelete
  <2>2. ids \in Seq(Ids)
    BY <1>3, <1>4
  <2>3. targetIds' \in [Macs -> Seq(Ids)]
    <3>1. <<>> \in Seq(Ids)
      OBVIOUS
    <3> QED
      BY <1>3, <1>4, <2>1, <3>1
  <2> HIDE DEF ids
  <2> QED
    BY <1>1, <1>2, <1>5, <2>1, <2>2, <2>3
<1> QED
  BY SMTT(30), <1>6, <1>7 DEF TargetStep

LEMMA TargetKeeps ==
  ASSUME PeerInv, TargetStep
  PROVE  PeerInv'
<1>1. UNCHANGED <<pc, cur, got, mac, peer, peer_list, hash, wait_on_peer_id, wait_delete_comp,
                  vdev, freelist, map, peer_id_to_obj_map, peer_count>>
  BY DEF TargetStep, TargetCreate, TargetDelete, threads, tables, locals
<1>2. StateOK'
  <2>1. StateOK
    BY DEF PeerInv
  <2>2. /\ cmds' \in Seq([type: {"create", "delete"}, mac: Macs])
        /\ targetIds' \in [Macs -> Seq(Ids)]
        /\ msgs' \in Seq([type: {"map", "unmap"}, id: Ids, mac: Macs])
    BY <2>1, TargetTypes
  <2> QED
    BY <1>1, <2>1, <2>2 DEF StateOK
<1>3. McInv'
  BY <1>1 DEF PeerInv, McInv
<1>4. OtherInv'
  <2>1. OtherInv /\ (msgs # <<>> => msgs' # <<>>)
    BY TargetTypes DEF PeerInv
  <2> QED
    BY <1>1, <2>1 DEF OtherInv
<1>5. TableInv' /\ Covered'
  BY <1>1, QuietTables
<1> QED
  BY SMTT(30), <1>2, <1>3, <1>4, <1>5 DEF PeerInv

-----------------------------------------------------------------------------
(* The main controller thread, where it changes no table                   *)

LEMMA OthersSame ==
  ASSUME OtherInv, msgs' = msgs,
         \A t \in Threads \ {MC} : pc'[t] = pc[t] /\ cur'[t] = cur[t] /\ got'[t] = got[t]
  PROVE  OtherInv'
BY ThreadsFinite DEF OtherInv

LEMMA McSame ==
  ASSUME PeerInv, peer_count' = peer_count, vdev = "up" => vdev' = "up",
         pc'[MC] = pc[MC], cur'[MC] = cur[MC], got'[MC] = got[MC], mac'[MC] = mac[MC],
         \A p \in Peers : peer'[p].valid = peer[p].valid
  PROVE  McInv'
<1>1. cur[MC] \in Peers \cup {NoPeer} /\ got[MC] \in Peers \cup {NoPeer}
  BY ThreadsFinite DEF PeerInv, StateOK
<1> QED
  BY <1>1 DEF PeerInv, McInv

Objs == UNCHANGED <<peer, peer_list, hash, map, peer_id_to_obj_map, freelist>>

(* What a step of this thread has to show that changes no table. *)
LEMMA McQuiet ==
  ASSUME PeerInv, Objs, NEW w \in Steps, pc' = [pc EXCEPT ![MC] = w],
         pc[MC] \notin Moving, w \notin Moving,
         cur' = cur \/ cur' = [cur EXCEPT ![MC] = NoPeer],
         got' = got \/ got' = [got EXCEPT ![MC] = NoPeer],
         mac' = mac \/ \E z \in Macs \cup {NoMac} : mac' = [mac EXCEPT ![MC] = z],
         peer_count' \in 0..num_peers,
         vdev' \in {"up", "pending", "freed"}, wait_on_peer_id' \in Lids \cup {INVALID},
         wait_delete_comp' \in BOOLEAN,
         cmds' \in Seq([type: {"create", "delete"}, mac: Macs]),
         UNCHANGED <<targetIds, msgs>>
  PROVE  StateOK' /\ OtherInv' /\ TableInv' /\ Covered'
<1>1. pc \in [Threads -> Steps] /\ cur \in [Threads -> Peers \cup {NoPeer}]
      /\ got \in [Threads -> Peers \cup {NoPeer}] /\ mac \in [Threads -> Macs \cup {NoMac}]
      /\ MC \in Threads
  BY ThreadsFinite DEF PeerInv, StateOK
<1>2. /\ pc' \in [Threads -> Steps] /\ pc'[MC] = w
      /\ \A t \in Threads \ {MC} : pc'[t] = pc[t]
  BY <1>1
<1>3. /\ cur' \in [Threads -> Peers \cup {NoPeer}] /\ cur'[MC] \in {cur[MC], NoPeer}
      /\ \A t \in Threads \ {MC} : cur'[t] = cur[t]
  BY <1>1
<1>4. /\ got' \in [Threads -> Peers \cup {NoPeer}] /\ got'[MC] \in {got[MC], NoPeer}
      /\ \A t \in Threads \ {MC} : got'[t] = got[t]
  BY <1>1
<1>5. mac' \in [Threads -> Macs \cup {NoMac}]
  BY <1>1
<1>6. StateOK'
  BY <1>2, <1>3, <1>4, <1>5 DEF PeerInv, StateOK, Objs
<1>7. OtherInv'
  BY <1>2, <1>3, <1>4, OthersSame DEF PeerInv
<1>8. TableInv' /\ Covered'
  <2>1. \A t \in Threads : cur'[t] \in {cur[t], NoPeer} /\ got'[t] \in {got[t], NoPeer}
    BY <1>3, <1>4
  <2> QED
    BY <1>2, <2>1, QuietTables DEF Objs
<1> QED
  BY <1>6, <1>7, <1>8

LEMMA ThreadTypes ==
  ASSUME PeerInv
  PROVE  /\ pc \in [Threads -> Steps] /\ cur \in [Threads -> Peers \cup {NoPeer}]
         /\ got \in [Threads -> Peers \cup {NoPeer}] /\ mac \in [Threads -> Macs \cup {NoMac}]
         /\ MC \in Threads /\ Tasklet \in Threads /\ Users \subseteq Threads
         /\ peer_count \in 0..num_peers /\ num_peers \in Nat
         /\ vdev \in {"up", "pending", "freed"} /\ wait_on_peer_id \in Lids \cup {INVALID}
         /\ wait_delete_comp \in BOOLEAN
         /\ cmds \in Seq([type: {"create", "delete"}, mac: Macs])
BY ThreadsFinite, PeerAssumption DEF PeerInv, StateOK

LEMMA AppendCmd ==
  ASSUME PeerInv, mac[MC] \in Macs, NEW k \in {"create", "delete"}
  PROVE  Append(cmds, [type |-> k, mac |-> mac[MC]]) \in Seq([type: {"create", "delete"}, mac: Macs])
<1> DEFINE C == [type: {"create", "delete"}, mac: Macs]
           c == [type |-> k, mac |-> mac[MC]]
<1>1. c \in C /\ cmds \in Seq(C)
  BY DEF PeerInv, StateOK
<1> HIDE DEF c, C
<1> QED
  BY <1>1 DEF C, c

(* The places outside the attach and the detach proper. *)
LEMMA Places ==
  /\ \A w \in {"idle", "dup_check", "wait", "alloc", "create_send", "find", "find_dec",
               "remove_send", "detach"} : w \notin Moving /\ w \in Steps
  /\ \A w \in {"dup_check", "wait", "alloc", "create_send", "insert", "init", "hash_add",
               "update", "update_dec", "write", "local_id"} : w \in Creating
<1> DEFINE W == {"idle", "dup_check", "wait", "alloc", "create_send", "find", "find_dec",
                 "remove_send", "detach"}
<1>1. \A w \in W : w \in Steps
  BY DEF Steps
<1>2. \A w \in W : w \notin Early /\ w \notin Naming /\ w \notin Leaving
  BY DEF Early, Naming, Leaving
<1>3. \A w \in {"dup_check", "wait", "alloc", "create_send", "insert", "init", "hash_add",
               "update", "update_dec", "write", "local_id"} : w \in Creating
  BY DEF Early, Naming, Creating
<1> QED
  BY <1>1, <1>2, <1>3 DEF Moving

LEMMA StartKeeps ==
  ASSUME PeerInv, NEW m \in Macs, WmaCreatePeer(m) \/ StartFind(MC, m)
  PROVE  PeerInv'
<1> DEFINE w == IF pc'[MC] = "dup_check" THEN "dup_check" ELSE "find"
<1>1. /\ pc[MC] = "idle" /\ pc' = [pc EXCEPT ![MC] = w] /\ mac' = [mac EXCEPT ![MC] = m]
      /\ UNCHANGED <<cur, got, peer, peer_list, hash, map, peer_id_to_obj_map, freelist,
                     vdev, wait_on_peer_id, wait_delete_comp, cmds, targetIds, msgs>>
      /\ w = "dup_check" => /\ vdev = "up" /\ peer_count < num_peers
                            /\ peer_count' = peer_count + 1
      /\ w = "find" => peer_count' = peer_count
  BY ThreadTypes DEF WmaCreatePeer, StartFind, Goto, tables, locals, target
<1>2. w \in {"dup_check", "find"}
  OBVIOUS
<1> HIDE DEF w
<1>3. peer_count' \in 0..num_peers /\ (w = "dup_check" => peer_count' > 0)
  BY <1>1, <1>2, ThreadTypes
<1>4. StateOK' /\ OtherInv' /\ TableInv' /\ Covered'
  BY <1>1, <1>2, <1>3, McQuiet, ThreadTypes, Places DEF Objs
<1>5. McInv'
  <2>1. cur[MC] = NoPeer /\ got[MC] = NoPeer
    BY <1>1 DEF PeerInv, McInv
  <2>2. pc'[MC] = w /\ mac'[MC] = m /\ cur'[MC] = NoPeer /\ got'[MC] = NoPeer
    BY <1>1, <2>1, ThreadTypes
  <2> QED
    BY <1>1, <1>2, <1>3, <2>2 DEF McInv, Creating, HasPeer, Leaving, Early, Naming
<1> QED
  BY <1>4, <1>5 DEF PeerInv

(* The failure of an attach. *)
LEMMA FailKeeps ==
  ASSUME PeerInv, Objs, pc[MC] \in {"dup_check", "wait", "alloc"}, CreateFailed,
         wait_on_peer_id' \in Lids \cup {INVALID}, wait_delete_comp' \in BOOLEAN,
         UNCHANGED <<vdev, cmds, targetIds, msgs>>
  PROVE  PeerInv'
<1>1. /\ peer_count' = peer_count - 1 /\ pc' = [pc EXCEPT ![MC] = "idle"]
      /\ cur' = [cur EXCEPT ![MC] = NoPeer] /\ got' = [got EXCEPT ![MC] = NoPeer]
      /\ mac' = [mac EXCEPT ![MC] = NoMac]
  BY DEF CreateFailed, Leave, Goto
<1>2. peer_count > 0
  BY Places DEF PeerInv, McInv
<1>3. peer_count' \in 0..num_peers
  BY <1>1, <1>2, ThreadTypes
<1>4. StateOK' /\ OtherInv' /\ TableInv' /\ Covered'
  BY <1>1, <1>3, McQuiet, ThreadTypes, Places
<1>5. McInv'
  <2>1. pc'[MC] = "idle" /\ cur'[MC] = NoPeer /\ got'[MC] = NoPeer
    BY <1>1, ThreadTypes
  <2> QED
    BY <2>1 DEF McInv, Creating, HasPeer, Leaving, Early, Naming
<1> QED
  BY <1>4, <1>5 DEF PeerInv

LEMMA DuplicateKeeps ==
  ASSUME PeerInv, CheckDuplicate
  PROVE  PeerInv'
<1> DEFINE dups    == {i \in DOMAIN peer_list : peer[peer_list[i]].mac = mac[MC]}
           kept    == {i \in dups : ~peer[peer_list[i]].delete_in_progress}
           waiting == {i \in dups : \A k \in kept : i < k}
           w == IF waiting = {} THEN "alloc" ELSE "wait"
<1>1. /\ pc[MC] = "dup_check"
      /\ IF waiting = {}
         THEN UNCHANGED <<wait_on_peer_id, wait_delete_comp>>
         ELSE /\ wait_on_peer_id' = peer[peer_list[Max(waiting)]].local_id
              /\ wait_delete_comp' = FALSE
      /\ \/ CreateFailed
         \/ pc' = [pc EXCEPT ![MC] = w] /\ UNCHANGED <<cur, got, mac, peer_count>>
      /\ Objs /\ UNCHANGED <<vdev, cmds, targetIds, msgs>>
  BY DEF CheckDuplicate, Goto, locals, target, Objs
<1>2. peer_list \in Seq(Peers) /\ Len(peer_list) \in Nat /\ peer \in Objects
  BY DEF PeerInv, StateOK, Objects, PeerRec
<1>3. wait_on_peer_id' \in Lids \cup {INVALID} /\ wait_delete_comp' \in BOOLEAN
  <2>1. CASE waiting = {}
    BY <1>1, <2>1, ThreadTypes
  <2>2. CASE waiting # {}
    <3>1. waiting \in SUBSET Nat /\ \A y \in waiting : y <= Len(peer_list)
      BY <1>2
    <3>2. Max(waiting) \in waiting
      BY <1>2, <2>2, <3>1, GreatestNat
    <3>3. peer_list[Max(waiting)] \in Peers
      BY <1>2, <3>2
    <3> HIDE DEF waiting
    <3> QED
      BY <1>1, <1>2, <2>2, <3>3 DEF Objects, PeerRec
  <2> QED
    BY <2>1, <2>2
<1>4. w \in {"alloc", "wait"}
  OBVIOUS
<1> HIDE DEF waiting, w
<1>5. CASE CreateFailed
  BY <1>1, <1>3, <1>5, FailKeeps
<1>6. CASE pc' = [pc EXCEPT ![MC] = w] /\ UNCHANGED <<cur, got, mac, peer_count>>
  <2>1. StateOK' /\ OtherInv' /\ TableInv' /\ Covered'
    <3>1. pc[MC] \notin Moving /\ w \notin Moving /\ w \in Steps
      BY <1>1, <1>4, Places
    <3>2. /\ peer_count' \in 0..num_peers /\ vdev' \in {"up", "pending", "freed"}
          /\ cmds' \in Seq([type: {"create", "delete"}, mac: Macs])
      BY <1>1, <1>6, ThreadTypes
    <3> QED
      BY <1>1, <1>3, <1>6, <3>1, <3>2, McQuiet
  <2>2. McInv'
    <3>1. cur[MC] = NoPeer /\ got[MC] = NoPeer /\ mac[MC] \in Macs /\ vdev = "up"
          /\ peer_count > 0
      BY <1>1, Places DEF PeerInv, McInv
    <3>2. pc'[MC] = w
      BY <1>6, ThreadTypes
    <3> QED
      BY <1>1, <1>4, <1>6, <3>1, <3>2 DEF McInv, Creating, HasPeer, Leaving, Early, Naming
  <2> QED
    BY <2>1, <2>2 DEF PeerInv
<1> QED
  BY <1>1, <1>5, <1>6

LEMMA WaitKeeps ==
  ASSUME PeerInv, Woken \/ WaitTimeout
  PROVE  PeerInv'
<1>1. CASE WaitTimeout
  <2>1. /\ pc[MC] = "wait" /\ wait_on_peer_id' = INVALID /\ CreateFailed /\ Objs
        /\ UNCHANGED <<vdev, wait_delete_comp, cmds, targetIds, msgs>>
    BY <1>1 DEF WaitTimeout, locals, target, Objs
  <2> QED
    BY <2>1, FailKeeps, ThreadTypes
<1>2. CASE Woken
  <2>1. /\ pc[MC] = "wait" /\ pc' = [pc EXCEPT ![MC] = "alloc"] /\ Objs
        /\ UNCHANGED <<cur, got, mac, peer_count, vdev, wait_on_peer_id, wait_delete_comp,
                       cmds, targetIds, msgs>>
    BY <1>2 DEF Woken, Goto, tables, locals, target, Objs
  <2>2. StateOK' /\ OtherInv' /\ TableInv' /\ Covered'
    BY <2>1, McQuiet, ThreadTypes, Places
  <2>3. McInv'
    <3>1. cur[MC] = NoPeer /\ got[MC] = NoPeer /\ mac[MC] \in Macs /\ vdev = "up"
          /\ peer_count > 0
      BY <2>1, Places DEF PeerInv, McInv
    <3>2. pc'[MC] = "alloc"
      BY <2>1, ThreadTypes
    <3> QED
      BY <2>1, <3>1, <3>2 DEF McInv, Creating, HasPeer, Leaving, Early, Naming
  <2> QED
    BY <2>2, <2>3 DEF PeerInv
<1> QED
  BY <1>1, <1>2

LEMMA SendKeeps ==
  ASSUME PeerInv, CreateSend \/ WmaRemovePeer
  PROVE  PeerInv'
<1>1. /\ pc[MC] \in {"create_send", "remove_send"} /\ Objs
      /\ UNCHANGED <<vdev, wait_on_peer_id, wait_delete_comp, targetIds, msgs>>
  BY DEF CreateSend, WmaRemovePeer, tables, locals, Objs
<1>2. /\ mac[MC] \in Macs /\ got[MC] = NoPeer
      /\ cur[MC] # NoPeer => cur[MC] \in Peers /\ peer[cur[MC]].valid
      /\ pc[MC] = "create_send" => peer_count > 0 /\ cur[MC] # NoPeer
  <2>1. NoPeer \notin Peers /\ cur[MC] \in Peers \cup {NoPeer}
    BY ThreadTypes DEF Peers, NoPeer
  <2>2. pc[MC] = "create_send" => pc[MC] \in HasPeer /\ pc[MC] \in Creating
    BY DEF HasPeer, Creating
  <2> QED
    BY <1>1, <2>1, <2>2 DEF PeerInv, McInv, HasPeer, Creating
<1>3. cmds' \in Seq([type: {"create", "delete"}, mac: Macs])
  BY <1>2, AppendCmd, ThreadTypes DEF CreateSend, WmaRemovePeer
<1>4. peer_count' \in 0..num_peers
  BY <1>2, ThreadTypes DEF CreateSend, WmaRemovePeer
<1>5. \/ /\ pc' = [pc EXCEPT ![MC] = "idle"] /\ cur' = [cur EXCEPT ![MC] = NoPeer]
         /\ got' = [got EXCEPT ![MC] = NoPeer] /\ mac' = [mac EXCEPT ![MC] = NoMac]
      \/ /\ pc' = [pc EXCEPT ![MC] = "detach"] /\ UNCHANGED <<cur, got, mac>>
         /\ cur[MC] # NoPeer
  BY <1>2 DEF CreateSend, WmaRemovePeer, Leave, Goto
<1>6. StateOK' /\ OtherInv' /\ TableInv' /\ Covered'
  <2>1. /\ vdev' \in {"up", "pending", "freed"} /\ wait_on_peer_id' \in Lids \cup {INVALID}
        /\ wait_delete_comp' \in BOOLEAN
    BY <1>1, ThreadTypes
  <2> QED
    BY <1>1, <1>3, <1>4, <1>5, <2>1, McQuiet, Places
<1>7. McInv'
  <2>1. CASE /\ pc' = [pc EXCEPT ![MC] = "idle"] /\ cur' = [cur EXCEPT ![MC] = NoPeer]
             /\ got' = [got EXCEPT ![MC] = NoPeer]
    <3>1. pc'[MC] = "idle" /\ cur'[MC] = NoPeer /\ got'[MC] = NoPeer
      BY <2>1, ThreadTypes
    <3> QED
      BY <3>1 DEF McInv, Creating, HasPeer, Leaving, Early, Naming
  <2>2. CASE pc' = [pc EXCEPT ![MC] = "detach"] /\ UNCHANGED <<cur, got, mac>> /\ cur[MC] # NoPeer
    <3>1. /\ pc'[MC] = "detach" /\ cur'[MC] = cur[MC] /\ got'[MC] = got[MC]
          /\ peer' = peer
      BY <1>1, <2>2, ThreadTypes DEF Objs
    <3> QED
      BY <1>2, <2>2, <3>1 DEF McInv, Creating, HasPeer, Leaving, Early, Naming
  <2> QED
    BY <1>5, <2>1, <2>2
<1> QED
  BY <1>6, <1>7 DEF PeerInv

LEMMA VdevDetachKeeps ==
  ASSUME PeerInv, ol_txrx_vdev_detach
  PROVE  PeerInv'
<1>1. /\ pc[MC] = "idle" /\ vdev' \in {"freed", "pending"} /\ Objs
      /\ UNCHANGED <<pc, cur, got, mac, peer_count, wait_on_peer_id, wait_delete_comp,
                     cmds, targetIds, msgs>>
  BY DEF ol_txrx_vdev_detach, threads, locals, target, Objs
<1>2. StateOK'
  BY <1>1 DEF PeerInv, StateOK, Objs
<1>3. McInv'
  BY <1>1 DEF PeerInv, McInv, Objs, Creating, Early, Naming
<1>4. OtherInv'
  BY <1>1 DEF PeerInv, OtherInv
<1>5. TableInv' /\ Covered'
  BY <1>1, QuietTables DEF Objs
<1> QED
  BY <1>2, <1>3, <1>4, <1>5 DEF PeerInv

-----------------------------------------------------------------------------
(* The main controller thread attaches a peer, and begins to detach one    *)

LEMMA NoHolders ==
  ASSUME NEW D, NEW f, NEW p, \A d \in D : f[d] # p
  PROVE  Cardinality(Holders(f, D, p)) = 0
<1>1. Holders(f, D, p) = {}
  BY DEF Holders
<1> QED
  BY <1>1, FS_EmptySet

(* What a step has to show that keeps every count and takes no reference. *)
LEMMA SameCounts ==
  ASSUME PeerInv, peer' \in Objects, peer_id_to_obj_map' = peer_id_to_obj_map,
         \A t \in Threads : got'[t] = got[t],
         \A t \in Threads \ {MC} : cur'[t] = cur[t],
         \A p \in Peers : Live(p)' /\ ~Raw(p)' =>
            /\ Live(p) /\ ~Raw(p) /\ (Attached(p)' => Attached(p))
            /\ peer'[p].ref_cnt = peer[p].ref_cnt /\ peer'[p].peer_ids = peer[p].peer_ids
  PROVE  Covered'
<1> SUFFICES ASSUME NEW p \in Peers, Live(p)', ~Raw(p)'
      PROVE  /\ Live(p) /\ ~Raw(p) /\ peer'[p].ref_cnt \in Nat /\ peer[p].ref_cnt \in Nat
             /\ RefA(p)' + RefI(p)' + RefG(p)' + RefC(p)' + peer[p].ref_cnt
                  <= RefA(p) + RefI(p) + RefG(p) + RefC(p) + peer'[p].ref_cnt
  BY CoveredBy DEF PeerInv
<1>1. /\ Live(p) /\ ~Raw(p) /\ (Attached(p)' => Attached(p))
      /\ peer'[p].ref_cnt = peer[p].ref_cnt /\ peer'[p].peer_ids = peer[p].peer_ids
  OBVIOUS
<1>2. peer[p].ref_cnt \in Nat
  BY DEF PeerInv, StateOK
<1>3. RefA(p)' <= RefA(p)
  BY <1>1 DEF RefA
<1>4. RefI(p)' = RefI(p)
  BY <1>1 DEF RefI, Holders
<1>5. RefG(p)' = RefG(p)
  <2>1. Holders(got, Threads, p)' = Holders(got, Threads, p)
    BY DEF Holders
  <2> QED
    BY <2>1 DEF RefG
<1>6. RefC(p)' = RefC(p)
  <2>1. Holders(cur, Threads \ {MC}, p)' = Holders(cur, Threads \ {MC}, p)
    BY DEF Holders
  <2> QED
    BY <2>1 DEF RefC
<1>7. /\ RefA(p) \in Nat /\ RefI(p) \in Nat /\ RefG(p) \in Nat /\ RefC(p) \in Nat
      /\ RefA(p)' \in Nat
  BY RefParts, RefPartsNext
<1> DEFINE r == peer[p].ref_cnt
<1>8. r \in Nat /\ peer'[p].ref_cnt = r
  BY <1>1, <1>2
<1> HIDE DEF r
<1>9. RefA(p)' + RefI(p)' + RefG(p)' + RefC(p)' + r <= RefA(p) + RefI(p) + RefG(p) + RefC(p) + r
  BY <1>3, <1>4, <1>5, <1>6, <1>7, <1>8
<1> QED
  BY <1>1, <1>2, <1>8, <1>9 DEF r

(* The types after a step of this thread. *)
LEMMA McTypes ==
  ASSUME PeerInv, NEW w \in Steps, pc' = [pc EXCEPT ![MC] = w],
         cur' = cur \/ \E c \in Peers : cur' = [cur EXCEPT ![MC] = c],
         UNCHANGED <<got, mac, peer_id_to_obj_map, peer_count, vdev, wait_on_peer_id,
                     wait_delete_comp, cmds, targetIds, msgs>>,
         peer' \in Objects, peer_list' \in Seq(Peers), hash' \in Seq(Peers),
         freelist' \in Seq(Lids), map' \in [Lids -> Peers \cup {NoPeer}]
  PROVE  /\ StateOK' /\ OtherInv'
         /\ pc'[MC] = w /\ got'[MC] = got[MC] /\ mac'[MC] = mac[MC]
         /\ \A t \in Threads \ {MC} : cur'[t] = cur[t]
<1>1. /\ pc' \in [Threads -> Steps] /\ pc'[MC] = w
      /\ \A t \in Threads \ {MC} : pc'[t] = pc[t]
  BY ThreadTypes
<1>2. /\ cur' \in [Threads -> Peers \cup {NoPeer}]
      /\ \A t \in Threads \ {MC} : cur'[t] = cur[t]
  BY ThreadTypes
<1>3. StateOK'
  BY <1>1, <1>2 DEF PeerInv, StateOK, Objects, PeerRec
<1>4. OtherInv'
  BY <1>1, <1>2, OthersSame DEF PeerInv
<1> QED
  BY <1>1, <1>2, <1>3, <1>4

LEMMA ObjectTypes ==
  ASSUME PeerInv
  PROVE  /\ peer \in Objects /\ peer_list \in Seq(Peers) /\ hash \in Seq(Peers)
         /\ freelist \in Seq(Lids) /\ map \in [Lids -> Peers \cup {NoPeer}]
         /\ peer_id_to_obj_map \in [Ids -> Peers \cup {NoPeer}]
         /\ NoPeer \notin Peers /\ INVALID \notin Lids
         /\ ToSet(hash) \subseteq Peers /\ ToSet(peer_list) \subseteq Peers
<1>1. NoPeer \notin Peers /\ INVALID \notin Lids
  BY PeerAssumption DEF NoPeer, Peers, INVALID, Lids
<1>2. /\ peer \in Objects /\ peer_list \in Seq(Peers) /\ hash \in Seq(Peers)
      /\ freelist \in Seq(Lids) /\ map \in [Lids -> Peers \cup {NoPeer}]
      /\ peer_id_to_obj_map \in [Ids -> Peers \cup {NoPeer}]
  BY DEF PeerInv, StateOK, Objects, PeerRec
<1>3. ToSet(hash) \subseteq Peers /\ ToSet(peer_list) \subseteq Peers
  BY <1>2 DEF ToSet
<1> QED
  BY <1>1, <1>2, <1>3

LEMMA AllocKeeps ==
  ASSUME PeerInv, AllocPeer
  PROVE  PeerInv'
<1>1. CASE CreateFailed /\ UNCHANGED peer
  <2>1. /\ pc[MC] = "alloc" /\ Objs
        /\ UNCHANGED <<vdev, wait_on_peer_id, wait_delete_comp, cmds, targetIds, msgs>>
    BY <1>1 DEF AllocPeer, tables, locals, target, Objs
  <2> QED
    BY <1>1, <2>1, FailKeeps, ThreadTypes
<1>2. ASSUME NEW p \in Peers, peer[p].mem = "none",
             peer' = [peer EXCEPT ![p].mem = "live", ![p].mac = mac[MC]],
             cur' = [cur EXCEPT ![MC] = p], pc' = [pc EXCEPT ![MC] = "insert"],
             UNCHANGED <<got, mac, peer_count>>
      PROVE  PeerInv'
  <2>1. /\ pc[MC] = "alloc"
        /\ UNCHANGED <<peer_list, hash, vdev, wait_on_peer_id, wait_delete_comp, freelist, map,
                       peer_id_to_obj_map, cmds, targetIds, msgs>>
    BY DEF AllocPeer, tables, locals, target
  <2>2. /\ mac[MC] \in Macs /\ vdev = "up" /\ peer_count > 0 /\ got[MC] = NoPeer
        /\ cur[MC] = NoPeer
    BY <2>1, Places DEF PeerInv, McInv
  <2>3. /\ peer' \in Objects /\ peer'[p].mem = "live"
        /\ \A q \in Peers :
              /\ q # p => peer'[q] = peer[q]
              /\ peer'[q].ref_cnt = peer[q].ref_cnt /\ peer'[q].valid = peer[q].valid
              /\ peer'[q].delete_in_progress = peer[q].delete_in_progress
              /\ peer'[q].local_id = peer[q].local_id /\ peer'[q].peer_ids = peer[q].peer_ids
    <3>1. peer \in Objects /\ mac[MC] \in Macs
      BY <2>2, ObjectTypes
    <3>2. peer' = PutMemory(peer, p, mac[MC])
      BY <1>2 DEF PutMemory
    <3> QED
      BY <3>1, <3>2, SetMemory
  <2>4. /\ StateOK' /\ OtherInv'
        /\ pc'[MC] = "insert" /\ cur'[MC] = p /\ got'[MC] = got[MC] /\ mac'[MC] = mac[MC]
        /\ \A t \in Threads \ {MC} : cur'[t] = cur[t]
    <3>1. "insert" \in Steps
      BY DEF Steps
    <3>2. peer_list' \in Seq(Peers) /\ hash' \in Seq(Peers) /\ freelist' \in Seq(Lids)
          /\ map' \in [Lids -> Peers \cup {NoPeer}]
      BY <2>1, ObjectTypes
    <3> QED
      BY <1>2, <2>1, <2>3, <3>1, <3>2, McTypes, ThreadTypes
  <2>5. /\ ~Live(p) /\ ~peer[p].valid /\ p \notin ToSet(hash) /\ p \notin ToSet(peer_list)
        /\ \A i \in Lids : map[i] # p
        /\ \A i \in Ids : peer_id_to_obj_map[i] # p
        /\ \A t \in Threads : cur[t] # p /\ got[t] # p
    <3>1. ~Live(p) /\ p # NoPeer
      BY <1>2, ObjectTypes DEF Live
    <3> QED
      BY <3>1 DEF PeerInv, TableInv, MapInv, NoDangling
  <2>6. McInv'
    BY <2>1, <2>2, <2>4, <1>2 DEF McInv, Creating, HasPeer, Leaving, Early, Naming
  <2>7. FreshInv'
    BY <1>2, <2>1, <2>4, <2>5 DEF FreshInv
  <2>8. \A q \in Peers : Live(q)' <=> Live(q) \/ q = p
    BY <2>3 DEF Live
  <2>9. ListInv'
    BY <2>1, <2>4, <2>5, <2>8 DEF PeerInv, TableInv, ListInv
  <2>10. MapInv'
    <3>1. \A i \in Lids : map[i] # NoPeer => map[i] \in Peers
      BY ObjectTypes
    <3>2. \A i \in Ids : peer_id_to_obj_map[i] # NoPeer => peer_id_to_obj_map[i] \in Peers
      BY ObjectTypes
    <3> QED
      BY <2>1, <2>3, <2>8, <3>1, <3>2 DEF PeerInv, TableInv, MapInv
  <2>11. NoDangling'
    <3>1. \A q \in Peers : Live(q) => Live(q)'
      BY <2>8
    <3>2. Live(p)'
      BY <2>8
    <3> QED
      BY <1>2, <2>1, <2>4, <3>1, <3>2, ObjectTypes, ThreadTypes DEF PeerInv, TableInv, NoDangling
  <2>12. Covered'
    <3>1. \A q \in Peers : Live(q)' /\ ~Raw(q)' => q # p /\ Live(q) /\ ~Raw(q)
      BY <2>1, <2>4, <2>8 DEF Raw
    <3>2. \A q \in Peers : Attached(q)' => Attached(q)
      BY <2>3, <2>4 DEF Attached
    <3> QED
      BY <1>2, <2>1, <2>3, <2>4, <3>1, <3>2, SameCounts
  <2> QED
    BY <2>4, <2>6, <2>7, <2>9, <2>10, <2>11, <2>12 DEF PeerInv, TableInv
<1> QED
  BY <1>1, <1>2 DEF AllocPeer, Goto


LEMMA InsertKeeps ==
  ASSUME PeerInv, InsertPeer
  PROVE  PeerInv'
<1> DEFINE p == cur[MC]
<1>1. /\ pc[MC] = "insert" /\ pc' = [pc EXCEPT ![MC] = "init"]
      /\ peer_list' = Append(peer_list, p)
      /\ UNCHANGED <<cur, got, mac, peer, hash, wait_on_peer_id, wait_delete_comp, vdev,
                     freelist, map, peer_id_to_obj_map, peer_count, cmds, targetIds, msgs>>
  BY DEF InsertPeer, Goto, locals, target
<1>2. p \in Peers /\ p \notin ToSet(peer_list) /\ Once(peer_list)
  BY <1>1 DEF PeerInv, McInv, TableInv, ListInv
<1>3. /\ peer_list' \in Seq(Peers) /\ ToSet(peer_list') = ToSet(peer_list) \cup {p}
      /\ Once(peer_list')
  BY <1>1, <1>2, AppendFacts, ObjectTypes
<1>4. /\ StateOK' /\ OtherInv' /\ pc'[MC] = "init"
  <2>1. "init" \in Steps
    BY DEF Steps
  <2>2. peer' \in Objects /\ hash' \in Seq(Peers) /\ freelist' \in Seq(Lids)
        /\ map' \in [Lids -> Peers \cup {NoPeer}]
    BY <1>1, ObjectTypes
  <2> QED
    BY <1>1, <1>3, <2>1, <2>2, McTypes
<1> HIDE DEF p
<1>5. McInv'
  BY <1>1, <1>2, <1>4 DEF PeerInv, McInv, Creating, HasPeer, Leaving, Early, Naming, p
<1>6. FreshInv'
  BY <1>1, <1>4 DEF PeerInv, TableInv, FreshInv, Early
<1>7. ListInv' /\ NoDangling'
  <2>1. Live(p)
    BY <1>1, <1>2 DEF PeerInv, TableInv, ListInv, p
  <2>2. \A q \in Peers : Live(q)' <=> Live(q)
    BY <1>1 DEF Live
  <2>3. ListInv'
    BY <1>1, <1>2, <1>3, <1>4, <2>2 DEF PeerInv, TableInv, ListInv, p
  <2>4. NoDangling'
    BY <1>1, <1>3, <2>1 DEF PeerInv, TableInv, NoDangling, Live
  <2> QED
    BY <2>3, <2>4
<1>8. MapInv'
  BY <1>1, <1>4 DEF PeerInv, TableInv, MapInv, Live
<1>9. Covered'
  <2>1. \A q \in Peers : Live(q)' /\ ~Raw(q)' => Live(q) /\ ~Raw(q)
    BY <1>1, <1>4 DEF Raw, Live
  <2>2. \A q \in Peers : Attached(q)' => Attached(q)
    BY <1>1, <1>4 DEF Attached
  <2> QED
    BY <1>1, <2>1, <2>2, SameCounts, ObjectTypes
<1> QED
  BY <1>4, <1>5, <1>6, <1>7, <1>8, <1>9 DEF PeerInv, TableInv

(* Two references, for a peer nobody knows. *)
LEMMA InitKeeps ==
  ASSUME PeerInv, InitPeer
  PROVE  PeerInv'
<1> DEFINE p == cur[MC]
<1>1. /\ pc[MC] = "init" /\ pc' = [pc EXCEPT ![MC] = "hash_add"]
      /\ peer' = PutInitial(peer, p)
      /\ UNCHANGED <<cur, got, mac, peer_list, hash, wait_on_peer_id, wait_delete_comp, vdev,
                     freelist, map, peer_id_to_obj_map, peer_count, cmds, targetIds, msgs>>
  BY DEF InitPeer, Goto, tables, locals, target, PutInitial
<1>2. /\ p \in Peers /\ p \notin ToSet(hash) /\ Live(p)
      /\ \A i \in Ids : peer_id_to_obj_map[i] # p
      /\ \A t \in Threads : got[t] # p
      /\ \A t \in Threads \ {MC} : cur[t] # p
      /\ \A i \in Lids : map[i] # p
  <2>1. p \in Peers /\ pc[MC] \in Early
    BY <1>1 DEF PeerInv, McInv, Early
  <2>2. p \in ToSet(peer_list)
    <3>1. /\ p \notin ToSet(hash)
          /\ \A i \in Ids : peer_id_to_obj_map[i] # p
          /\ \A t \in Threads : got[t] # p
          /\ \A t \in Threads \ {MC} : cur[t] # p
          /\ \A i \in Lids : map[i] # p
      BY <2>1 DEF PeerInv, TableInv, FreshInv
    <3>2. Live(p)
      BY <2>1, ObjectTypes, ThreadTypes DEF PeerInv, TableInv, NoDangling
    <3> QED
      BY <1>1, <2>1, <3>2 DEF PeerInv, TableInv, ListInv
  <2> QED
    BY <2>1, <2>2 DEF PeerInv, TableInv, FreshInv, NoDangling
<1>3. /\ peer' \in Objects
      /\ peer'[p].ref_cnt = 2 /\ peer'[p].valid = TRUE /\ peer'[p].peer_ids = <<>>
      /\ \A q \in Peers : /\ q # p => peer'[q] = peer[q]
                          /\ peer'[q].mem = peer[q].mem
                          /\ peer'[q].local_id = peer[q].local_id
  <2>1. peer \in Objects /\ p \in Peers
    BY <1>2, ObjectTypes
  <2> HIDE DEF p
  <2> QED
    BY <1>1, <2>1, SetInitial
<1>4. StateOK' /\ OtherInv' /\ pc'[MC] = "hash_add"
  <2>1. "hash_add" \in Steps
    BY DEF Steps
  <2>2. peer_list' \in Seq(Peers) /\ hash' \in Seq(Peers) /\ freelist' \in Seq(Lids)
        /\ map' \in [Lids -> Peers \cup {NoPeer}]
    BY <1>1, ObjectTypes
  <2> QED
    BY <1>1, <1>3, <2>1, <2>2, McTypes
<1>5. McInv'
  BY <1>1, <1>2, <1>3, <1>4 DEF PeerInv, McInv, Creating, HasPeer, Leaving, Early, Naming
<1>6. FreshInv'
  BY <1>1, <1>4 DEF PeerInv, TableInv, FreshInv, Early
<1> HIDE DEF p
<1>7. \A q \in Peers : Live(q)' <=> Live(q)
  BY <1>3 DEF Live
<1>8. ListInv' /\ NoDangling'
  <2>1. ListInv'
    BY <1>1, <1>4, <1>7 DEF PeerInv, TableInv, ListInv
  <2>2. NoDangling'
    BY <1>1, <1>7, ObjectTypes, ThreadTypes DEF PeerInv, TableInv, NoDangling
  <2> QED
    BY <2>1, <2>2
<1>9. MapInv'
  <2>1. \A i \in Lids : map[i] # NoPeer => map[i] \in Peers \ {p}
    BY <1>2, ObjectTypes
  <2>2. \A i \in Ids : peer_id_to_obj_map[i] # NoPeer => peer_id_to_obj_map[i] \in Peers \ {p}
    BY <1>2, ObjectTypes
  <2>3. \A q \in Peers : peer'[q].valid => peer[q].valid \/ q = p
    BY <1>3
  <2> QED
    BY <1>1, <1>2, <1>3, <1>4, <1>7, <2>1, <2>2, <2>3 DEF PeerInv, TableInv, MapInv
<1>10. Covered'
  <2> SUFFICES ASSUME NEW q \in Peers, Live(q)', ~Raw(q)'
               PROVE  peer'[q].ref_cnt >= References(q)'
    BY DEF Covered
  <2>1. CASE q # p
    <3>1. Live(q) /\ ~Raw(q) /\ (Attached(q)' <=> Attached(q))
      BY <1>1, <1>3, <1>4, <1>7, <2>1 DEF Raw, Attached, p
    <3>2. References(q)' = References(q)
      BY <1>1, <1>3, <2>1, <3>1 DEF References
    <3> QED
      BY <1>3, <2>1, <3>1, <3>2 DEF PeerInv, Covered
  <2>2. CASE q = p
    <3>1. RefI(q)' = 1 /\ RefA(q)' <= 1
      BY <1>3, <2>2 DEF RefI, RefA
    <3>2. RefG(q)' = 0
      BY <1>1, <1>2, <2>2, NoHolders DEF RefG
    <3>3. RefC(q)' = 0
      BY <1>1, <1>2, <2>2, NoHolders DEF RefC
    <3>4. RefA(q)' \in Nat /\ References(q)' = RefA(q)' + RefI(q)' + RefG(q)' + RefC(q)'
      BY RefPartsNext
    <3>5. References(q)' <= 2
      BY <3>1, <3>2, <3>3, <3>4
    <3> QED
      BY <1>3, <2>2, <3>5
  <2> QED
    BY <2>1, <2>2
<1> QED
  BY <1>4, <1>5, <1>6, <1>8, <1>9, <1>10 DEF PeerInv, TableInv

LEMMA HashAddKeeps ==
  ASSUME PeerInv, ol_txrx_peer_find_hash_add
  PROVE  PeerInv'
<1> DEFINE p == cur[MC]
<1>1. /\ pc[MC] = "hash_add" /\ pc' = [pc EXCEPT ![MC] = "update"]
      /\ hash' = Append(hash, p)
      /\ UNCHANGED <<cur, got, mac, peer, peer_list, wait_on_peer_id, wait_delete_comp, vdev,
                     freelist, map, peer_id_to_obj_map, peer_count, cmds, targetIds, msgs>>
  BY DEF ol_txrx_peer_find_hash_add, Goto, locals, target
<1>2. p \in Peers /\ p \notin ToSet(hash) /\ Once(hash) /\ Live(p)
  <2>1. p \in Peers /\ peer[p].valid /\ pc[MC] \in Early
    BY <1>1 DEF PeerInv, McInv, Early, HasPeer
  <2> QED
    BY <2>1 DEF PeerInv, TableInv, ListInv, FreshInv, MapInv
<1>3. /\ hash' \in Seq(Peers) /\ ToSet(hash') = ToSet(hash) \cup {p} /\ Once(hash')
  BY <1>1, <1>2, AppendFacts, ObjectTypes
<1>4. StateOK' /\ OtherInv' /\ pc'[MC] = "update"
  <2>1. "update" \in Steps
    BY DEF Steps
  <2>2. peer' \in Objects /\ peer_list' \in Seq(Peers) /\ freelist' \in Seq(Lids)
        /\ map' \in [Lids -> Peers \cup {NoPeer}]
    BY <1>1, ObjectTypes
  <2> QED
    BY <1>1, <1>3, <2>1, <2>2, McTypes
<1>5. McInv'
  BY <1>1, <1>2, <1>4 DEF PeerInv, McInv, Creating, HasPeer, Leaving, Early, Naming
<1> HIDE DEF p
<1>6. FreshInv'
  BY <1>1, <1>4 DEF PeerInv, TableInv, FreshInv, Early, Naming
<1>7. ListInv' /\ NoDangling' /\ MapInv'
  <2>1. \A q \in Peers : Live(q)' <=> Live(q)
    BY <1>1 DEF Live
  <2>2. ListInv'
    BY <1>1, <1>3, <1>4, <2>1 DEF PeerInv, TableInv, ListInv
  <2>3. NoDangling'
    BY <1>1, <1>2, <1>3 DEF PeerInv, TableInv, NoDangling, Live
  <2>4. MapInv'
    BY <1>1, <1>4 DEF PeerInv, TableInv, MapInv, Live
  <2> QED
    BY <2>2, <2>3, <2>4
<1>8. Covered'
  <2>1. \A q \in Peers : Live(q)' /\ ~Raw(q)' => Live(q) /\ ~Raw(q)
    BY <1>1, <1>4 DEF Raw, Live
  <2>2. \A q \in Peers : Attached(q)' => Attached(q)
    BY <1>1, <1>4 DEF Attached
  <2> QED
    BY <1>1, <2>1, <2>2, SameCounts, ObjectTypes
<1> QED
  BY <1>4, <1>5, <1>6, <1>7, <1>8 DEF PeerInv, TableInv


LEMMA LocalIdKeeps ==
  ASSUME PeerInv, OL_TXRX_LOCAL_PEER_ID_ALLOC
  PROVE  PeerInv'
<1> DEFINE p == cur[MC]
           h == Head(freelist)
<1>1. /\ pc[MC] = "local_id" /\ pc' = [pc EXCEPT ![MC] = "create_send"]
      /\ \/ peer' = PutLocalId(peer, p, INVALID) /\ freelist' = freelist /\ map' = map
         \/ /\ peer' = PutLocalId(peer, p, h) /\ map' = [map EXCEPT ![h] = p]
            /\ freelist # <<>> /\ freelist' = Tail(freelist)
      /\ UNCHANGED <<cur, got, mac, peer_list, hash, wait_on_peer_id, wait_delete_comp, vdev,
                     peer_id_to_obj_map, peer_count, cmds, targetIds, msgs>>
  BY DEF OL_TXRX_LOCAL_PEER_ID_ALLOC, Goto, tables, locals, target, PutLocalId
<1>2. p \in Peers /\ peer[p].valid /\ \A i \in Lids : map[i] # p
  BY <1>1 DEF PeerInv, McInv, HasPeer, Naming, TableInv, FreshInv
<1>3. freelist # <<>> => h \in Lids /\ Tail(freelist) \in Seq(Lids)
  BY ObjectTypes
<1>4. /\ peer' \in Objects
      /\ \A q \in Peers : /\ q # p => peer'[q] = peer[q]
                          /\ peer'[q].mem = peer[q].mem /\ peer'[q].valid = peer[q].valid
                          /\ peer'[q].ref_cnt = peer[q].ref_cnt
                          /\ peer'[q].peer_ids = peer[q].peer_ids
  <2>1. CASE peer' = PutLocalId(peer, p, INVALID)
    <3>1. INVALID \in Lids \cup {INVALID} /\ peer \in Objects /\ p \in Peers
      BY <1>2, ObjectTypes
    <3> HIDE DEF p
    <3> QED
      BY <2>1, <3>1, SetLocalId
  <2>2. CASE peer' = PutLocalId(peer, p, h) /\ freelist # <<>>
    <3>1. h \in Lids \cup {INVALID} /\ peer \in Objects /\ p \in Peers
      BY <1>2, <1>3, <2>2, ObjectTypes
    <3> HIDE DEF p, h
    <3> QED
      BY <2>2, <3>1, SetLocalId
  <2> QED
    BY <1>1, <2>1, <2>2
<1>5. freelist' \in Seq(Lids) /\ map' \in [Lids -> Peers \cup {NoPeer}]
  BY <1>1, <1>2, <1>3, ObjectTypes
<1>6. \A i \in Lids : \/ map'[i] = map[i]
                      \/ map'[i] = p /\ peer'[p].local_id = i
  <2>1. CASE freelist # <<>> /\ peer' = PutLocalId(peer, p, h) /\ map' = [map EXCEPT ![h] = p]
    <3>1. h \in Lids \cup {INVALID}
      BY <1>3, <2>1
    <3>2. peer'[p].local_id = h
      BY <1>2, <2>1, <3>1, SetLocalId, ObjectTypes
    <3> QED
      BY <1>3, <2>1, <3>2, ObjectTypes
  <2> QED
    BY <1>1, <2>1
<1>7. StateOK' /\ OtherInv' /\ pc'[MC] = "create_send"
  <2>1. "create_send" \in Steps
    BY DEF Steps
  <2>2. peer_list' \in Seq(Peers) /\ hash' \in Seq(Peers)
    BY <1>1, ObjectTypes
  <2> QED
    BY <1>1, <1>4, <1>5, <2>1, <2>2, McTypes
<1>8. McInv'
  BY <1>1, <1>2, <1>4, <1>7 DEF PeerInv, McInv, Creating, HasPeer, Leaving, Early, Naming
<1> HIDE DEF p, h
<1>9. FreshInv'
  BY <1>7 DEF FreshInv, Early, Naming
<1>10. \A q \in Peers : Live(q)' <=> Live(q)
  BY <1>4 DEF Live
<1>11. ListInv'
  BY <1>1, <1>7, <1>10 DEF PeerInv, TableInv, ListInv
<1>12. Live(p)
  BY <1>2 DEF PeerInv, TableInv, MapInv
<1>13. NoDangling'
  <2>1. \A i \in Lids : map'[i] # NoPeer => map'[i] \in Peers /\ Live(map'[i])
    BY <1>2, <1>6, <1>12, ObjectTypes DEF PeerInv, TableInv, NoDangling
  <2> QED
    BY <1>1, <1>10, <2>1, ObjectTypes, ThreadTypes DEF PeerInv, TableInv, NoDangling
<1>14. MapInv'
  <2>1. ASSUME NEW i \in Lids, map'[i] # NoPeer
        PROVE  peer'[map'[i]].local_id = i /\ peer'[map'[i]].valid
    <3>1. CASE map'[i] = p /\ peer'[p].local_id = i
      BY <1>2, <1>4, <3>1
    <3>2. CASE map'[i] = map[i]
      <4>1. map[i] \in Peers \ {p} /\ peer[map[i]].local_id = i /\ peer[map[i]].valid
        BY <1>1, <1>2, <2>1, <3>2, ObjectTypes DEF PeerInv, TableInv, MapInv
      <4> QED
        BY <1>4, <3>2, <4>1
    <3> QED
      BY <1>6, <3>1, <3>2
  <2>2. \A i \in Ids : peer_id_to_obj_map[i] # NoPeer => peer_id_to_obj_map[i] \in Peers
    BY ObjectTypes
  <2> QED
    BY <1>1, <1>4, <1>10, <2>1, <2>2 DEF PeerInv, TableInv, MapInv
<1>15. Covered'
  <2>1. \A q \in Peers : Live(q)' /\ ~Raw(q)' => Live(q) /\ ~Raw(q)
    BY <1>1, <1>7, <1>10 DEF Raw
  <2>2. \A q \in Peers : Attached(q)' => Attached(q)
    BY <1>1, <1>4, <1>7 DEF Attached
  <2> QED
    BY <1>1, <1>4, <2>1, <2>2, SameCounts
<1> QED
  BY <1>7, <1>8, <1>9, <1>11, <1>13, <1>14, <1>15 DEF PeerInv, TableInv

(* ol_txrx_peer_detach, up to its release of the reference. *)
LEMMA InvalidateKeeps ==
  ASSUME PeerInv, InvalidatePeer
  PROVE  PeerInv'
<1> DEFINE p == cur[MC]
<1>1. /\ pc[MC] = "detach" /\ pc' = [pc EXCEPT ![MC] = "free_id"]
      /\ peer' = PutInvalid(peer, p)
      /\ UNCHANGED <<cur, got, mac, peer_list, hash, wait_on_peer_id, wait_delete_comp, vdev,
                     freelist, map, peer_id_to_obj_map, peer_count, cmds, targetIds, msgs>>
  BY DEF InvalidatePeer, Goto, tables, locals, target, PutInvalid
<1>2. p \in Peers /\ peer[p].valid
  BY <1>1 DEF PeerInv, McInv, HasPeer
<1>3. /\ peer' \in Objects /\ peer'[p].valid = FALSE
      /\ \A q \in Peers : /\ q # p => peer'[q] = peer[q]
                          /\ peer'[q].mem = peer[q].mem
                          /\ peer'[q].ref_cnt = peer[q].ref_cnt
                          /\ peer'[q].local_id = peer[q].local_id
                          /\ peer'[q].peer_ids = peer[q].peer_ids
  <2>1. peer \in Objects /\ p \in Peers
    BY <1>2, ObjectTypes
  <2> HIDE DEF p
  <2> QED
    BY <1>1, <2>1, SetInvalid
<1>4. StateOK' /\ OtherInv' /\ pc'[MC] = "free_id"
  <2>1. "free_id" \in Steps
    BY DEF Steps
  <2>2. peer_list' \in Seq(Peers) /\ hash' \in Seq(Peers) /\ freelist' \in Seq(Lids)
        /\ map' \in [Lids -> Peers \cup {NoPeer}]
    BY <1>1, ObjectTypes
  <2> QED
    BY <1>1, <1>3, <2>1, <2>2, McTypes
<1>5. McInv'
  BY <1>1, <1>2, <1>3, <1>4 DEF PeerInv, McInv, Creating, HasPeer, Leaving, Early, Naming
<1>6. FreshInv'
  BY <1>4 DEF FreshInv, Early, Naming
<1>7. \A q \in Peers : Live(q)' <=> Live(q)
  BY <1>3 DEF Live
<1>8. ListInv' /\ NoDangling'
  <2>1. ListInv'
    BY <1>1, <1>4, <1>7 DEF PeerInv, TableInv, ListInv
  <2>2. NoDangling'
    BY <1>1, <1>7, ObjectTypes, ThreadTypes DEF PeerInv, TableInv, NoDangling
  <2> QED
    BY <2>1, <2>2
<1>9. MapInv'
  <2>1. ASSUME NEW i \in Lids, map[i] # NoPeer
        PROVE  /\ peer'[map[i]].local_id = i
               /\ peer'[map[i]].valid \/ map[i] = p
    <3>1. map[i] \in Peers /\ peer[map[i]].local_id = i /\ peer[map[i]].valid
      BY <1>1, <2>1, ObjectTypes DEF PeerInv, TableInv, MapInv
    <3> QED
      BY <1>3, <3>1
  <2>2. \A i \in Ids : peer_id_to_obj_map[i] # NoPeer => peer_id_to_obj_map[i] \in Peers
    BY ObjectTypes
  <2>3. \A q \in Peers : peer'[q].valid => peer[q].valid
    BY <1>2, <1>3
  <2> QED
    BY <1>1, <1>3, <1>4, <1>7, <2>1, <2>2, <2>3 DEF PeerInv, TableInv, MapInv
<1>10. Covered'
  <2>1. \A q \in Peers : Live(q)' /\ ~Raw(q)' => Live(q) /\ ~Raw(q)
    BY <1>1, <1>7 DEF Raw
  <2>2. \A q \in Peers : Attached(q)' => Attached(q)
    BY <1>1, <1>2, <1>3, <1>4 DEF Attached
  <2> QED
    BY <1>1, <1>3, <2>1, <2>2, SameCounts
<1> QED
  BY <1>4, <1>5, <1>6, <1>8, <1>9, <1>10 DEF PeerInv, TableInv

LEMMA FreeIdKeeps ==
  ASSUME PeerInv, OL_TXRX_LOCAL_PEER_ID_FREE
  PROVE  PeerInv'
<1> DEFINE p == cur[MC]
           k == peer[p].local_id
<1>1. /\ pc[MC] = "free_id" /\ pc' = [pc EXCEPT ![MC] = "mark"]
      /\ IF k = INVALID THEN freelist' = freelist /\ map' = map
         ELSE freelist' = <<k>> \o freelist /\ map' = [map EXCEPT ![k] = NoPeer]
      /\ UNCHANGED <<cur, got, mac, peer, peer_list, hash, wait_on_peer_id, wait_delete_comp, vdev,
                     peer_id_to_obj_map, peer_count, cmds, targetIds, msgs>>
  BY DEF OL_TXRX_LOCAL_PEER_ID_FREE, Goto, tables, locals, target
<1>2. p \in Peers /\ ~peer[p].valid
  BY <1>1 DEF PeerInv, McInv, Leaving
<1>3. k \in Lids \cup {INVALID}
  BY <1>2, ObjectTypes DEF Objects, PeerRec
<1>4. /\ freelist' \in Seq(Lids) /\ map' \in [Lids -> Peers \cup {NoPeer}]
      /\ \A i \in Lids : map'[i] # NoPeer => map'[i] = map[i] /\ i # k
  <2> HIDE DEF k
  <2>1. CASE k = INVALID
    BY <1>1, <2>1, ObjectTypes
  <2>2. CASE k \in Lids
    <3>1. k # INVALID
      BY <2>2, ObjectTypes
    <3>2. <<k>> \in Seq(Lids)
      BY <2>2
    <3>3. <<k>> \o freelist \in Seq(Lids)
      BY <3>2, ObjectTypes
    <3> QED
      BY <1>1, <2>2, <3>1, <3>3, ObjectTypes
  <2> QED
    BY <1>3, <2>1, <2>2
<1>5. \A i \in Lids : map'[i] # NoPeer =>
         map'[i] = map[i] /\ map[i] \in Peers /\ peer[map[i]].local_id = i /\ peer[map[i]].valid
  <2> SUFFICES ASSUME NEW i \in Lids, map'[i] # NoPeer
               PROVE  map'[i] = map[i] /\ map[i] \in Peers /\ peer[map[i]].local_id = i
                      /\ peer[map[i]].valid
    OBVIOUS
  <2>1. map'[i] = map[i] /\ i # k /\ map[i] \in Peers
    BY <1>4, ObjectTypes
  <2>2. peer[map[i]].local_id = i /\ (peer[map[i]].valid \/ p = map[i])
    BY <2>1 DEF PeerInv, TableInv, MapInv
  <2> QED
    BY <2>1, <2>2
<1>6. StateOK' /\ OtherInv' /\ pc'[MC] = "mark"
  <2>1. "mark" \in Steps
    BY DEF Steps
  <2>2. peer' \in Objects /\ peer_list' \in Seq(Peers) /\ hash' \in Seq(Peers)
    BY <1>1, ObjectTypes
  <2> QED
    BY <1>1, <1>4, <2>1, <2>2, McTypes
<1>7. McInv'
  BY <1>1, <1>2, <1>6 DEF PeerInv, McInv, Creating, HasPeer, Leaving, Early, Naming
<1> HIDE DEF p, k
<1>8. FreshInv'
  BY <1>6 DEF FreshInv, Early, Naming
<1>9. \A q \in Peers : Live(q)' <=> Live(q)
  BY <1>1 DEF Live
<1>10. ListInv'
  BY <1>1, <1>6, <1>9 DEF PeerInv, TableInv, ListInv
<1>11. NoDangling'
  BY <1>1, <1>5 DEF PeerInv, TableInv, NoDangling, Live
<1>12. MapInv'
  BY <1>1, <1>5, <1>9 DEF PeerInv, TableInv, MapInv
<1>13. Covered'
  <2>1. \A q \in Peers : Live(q)' /\ ~Raw(q)' => Live(q) /\ ~Raw(q)
    BY <1>1, <1>9 DEF Raw
  <2>2. \A q \in Peers : Attached(q)' => Attached(q)
    BY <1>1, <1>6 DEF Attached
  <2> QED
    BY <1>1, <2>1, <2>2, SameCounts, ObjectTypes
<1> QED
  BY <1>6, <1>7, <1>8, <1>10, <1>11, <1>12, <1>13 DEF PeerInv, TableInv

LEMMA MarkKeeps ==
  ASSUME PeerInv, MarkDeleted
  PROVE  PeerInv'
<1> DEFINE p == cur[MC]
<1>1. /\ pc[MC] = "mark" /\ pc' = [pc EXCEPT ![MC] = "detach_unref"]
      /\ peer' = PutMark(peer, p)
      /\ UNCHANGED <<cur, got, mac, peer_list, hash, wait_on_peer_id, wait_delete_comp, vdev,
                     freelist, map, peer_id_to_obj_map, peer_count, cmds, targetIds, msgs>>
  BY DEF MarkDeleted, Goto, tables, locals, target, PutMark
<1>2. p \in Peers /\ ~peer[p].valid
  BY <1>1 DEF PeerInv, McInv, Leaving
<1>3. /\ peer' \in Objects
      /\ \A q \in Peers : /\ q # p => peer'[q] = peer[q]
                          /\ peer'[q].mem = peer[q].mem
                          /\ peer'[q].ref_cnt = peer[q].ref_cnt /\ peer'[q].valid = peer[q].valid
                          /\ peer'[q].local_id = peer[q].local_id
                          /\ peer'[q].peer_ids = peer[q].peer_ids
  <2>1. peer \in Objects /\ p \in Peers
    BY <1>2, ObjectTypes
  <2> HIDE DEF p
  <2>2. /\ peer' \in Objects
        /\ \A q \in Peers : /\ q # p => peer'[q] = peer[q]
                            /\ peer'[q].mem = peer[q].mem
                            /\ peer'[q].ref_cnt = peer[q].ref_cnt
                            /\ peer'[q].local_id = peer[q].local_id
                            /\ peer'[q].peer_ids = peer[q].peer_ids
    BY <1>1, <2>1, SetMark, ZenonT(60)
  <2>3. \A q \in Peers : peer'[q].valid = peer[q].valid
    BY <1>1, <2>1, SetMark
  <2> QED
    BY <2>2, <2>3
<1>4. StateOK' /\ OtherInv' /\ pc'[MC] = "detach_unref"
  <2>1. "detach_unref" \in Steps
    BY DEF Steps
  <2>2. peer_list' \in Seq(Peers) /\ hash' \in Seq(Peers) /\ freelist' \in Seq(Lids)
        /\ map' \in [Lids -> Peers \cup {NoPeer}]
    BY <1>1, ObjectTypes
  <2> QED
    BY <1>1, <1>3, <2>1, <2>2, McTypes
<1>5. McInv'
  BY <1>1, <1>2, <1>3, <1>4 DEF PeerInv, McInv, Creating, HasPeer, Leaving, Early, Naming
<1>6. FreshInv'
  BY <1>4 DEF FreshInv, Early, Naming
<1>7. \A q \in Peers : Live(q)' <=> Live(q)
  BY <1>3 DEF Live
<1>8. ListInv' /\ NoDangling'
  <2>1. ListInv'
    BY <1>1, <1>4, <1>7 DEF PeerInv, TableInv, ListInv
  <2>2. NoDangling'
    BY <1>1, <1>7, ObjectTypes, ThreadTypes DEF PeerInv, TableInv, NoDangling
  <2> QED
    BY <2>1, <2>2
<1>9. MapInv'
  <2>1. ASSUME NEW i \in Lids, map[i] # NoPeer
        PROVE  peer'[map[i]].local_id = i /\ peer'[map[i]].valid
    <3>1. map[i] \in Peers /\ peer[map[i]].local_id = i /\ peer[map[i]].valid
      BY <1>1, <2>1, ObjectTypes DEF PeerInv, TableInv, MapInv
    <3> QED
      BY <1>3, <3>1
  <2>2. \A i \in Ids : peer_id_to_obj_map[i] # NoPeer => peer_id_to_obj_map[i] \in Peers
    BY ObjectTypes
  <2> QED
    BY <1>1, <1>3, <1>4, <1>7, <2>1, <2>2 DEF PeerInv, TableInv, MapInv
<1>10. Covered'
  <2>1. \A q \in Peers : Live(q)' /\ ~Raw(q)' => Live(q) /\ ~Raw(q)
    BY <1>1, <1>7 DEF Raw
  <2>2. \A q \in Peers : Attached(q)' => Attached(q)
    BY <1>1, <1>3, <1>4 DEF Attached
  <2> QED
    BY <1>1, <1>3, <2>1, <2>2, SameCounts
<1> QED
  BY <1>4, <1>5, <1>6, <1>8, <1>9, <1>10 DEF PeerInv, TableInv

-----------------------------------------------------------------------------
(* References taken and dropped by pointer, with nothing deleted           *)

(* The main controller thread keeps to its part of the attach or detach. *)
McStays ==
    \/ pc'[MC] = pc[MC] /\ cur'[MC] = cur[MC]
    \/ pc[MC] \in Naming /\ pc'[MC] \in Naming /\ cur'[MC] = cur[MC]
    \/ pc[MC] \notin Moving /\ pc'[MC] \notin Moving

SameButCount ==
    /\ peer' \in Objects
    /\ \A q \in Peers : /\ peer'[q].mem = peer[q].mem
                        /\ peer'[q].mac = peer[q].mac
                        /\ peer'[q].local_id = peer[q].local_id
                        /\ peer'[q].peer_ids = peer[q].peer_ids
    /\ \A q \in Peers : peer'[q].valid = peer[q].valid
    /\ \A q \in Peers : peer'[q].delete_in_progress = peer[q].delete_in_progress

LEMMA CountOnly ==
  ASSUME peer \in Objects, NEW p \in Peers, NEW x \in Nat, peer' = PutRef(peer, p, x)
  PROVE  /\ SameButCount /\ peer'[p].ref_cnt = x
         /\ \A q \in Peers : q # p => peer'[q].ref_cnt = peer[q].ref_cnt
<1>1. /\ peer' \in Objects /\ peer'[p].ref_cnt = x
      /\ \A q \in Peers : q # p => peer'[q] = peer[q]
  BY SetRef
<1>2. \A q \in Peers : /\ peer'[q].mem = peer[q].mem
                       /\ peer'[q].mac = peer[q].mac
                       /\ peer'[q].local_id = peer[q].local_id
                       /\ peer'[q].peer_ids = peer[q].peer_ids
  BY SetRef
<1>3. \A q \in Peers : peer'[q].valid = peer[q].valid
  BY SetRef
<1>4. \A q \in Peers : peer'[q].delete_in_progress = peer[q].delete_in_progress
  BY SetRef
<1> QED
  BY <1>1, <1>2, <1>3, <1>4 DEF SameButCount

LEMMA PointersKeep ==
  ASSUME PeerInv, SameButCount, McStays,
         UNCHANGED <<peer_list, hash, map, peer_id_to_obj_map>>,
         \A t \in Threads : \/ cur'[t] \in {cur[t], got[t], NoPeer} \cup ToSet(hash)
                            \/ \E i \in Lids : cur'[t] = map[i],
         \A t \in Threads : got'[t] \in {got[t], NoPeer} \cup ToSet(hash),
         \A q \in Peers : RefG(q)' + RefC(q)' + peer[q].ref_cnt
                             <= RefG(q) + RefC(q) + peer'[q].ref_cnt
  PROVE  TableInv' /\ Covered'
<1>1. /\ \A q \in Peers : peer'[q].mem = peer[q].mem
      /\ \A q \in Peers : peer'[q].local_id = peer[q].local_id
      /\ \A q \in Peers : peer'[q].peer_ids = peer[q].peer_ids
      /\ \A q \in Peers : peer'[q].valid = peer[q].valid
  BY DEF SameButCount
<1>2. \A q \in Peers : Live(q)' <=> Live(q)
  BY <1>1 DEF Live
<1>3. MC \in Threads /\ \A i \in Lids : map[i] # NoPeer => map[i] \in Peers
  BY ObjectTypes, ThreadTypes
<1>4. \A i \in Ids : peer_id_to_obj_map[i] # NoPeer => peer_id_to_obj_map[i] \in Peers
  BY ObjectTypes
<1>5. FreshInv'
  <2>1. CASE pc'[MC] \notin Moving
    BY <2>1 DEF FreshInv, Moving
  <2>2. CASE pc[MC] \in Naming /\ pc'[MC] \in Naming /\ cur'[MC] = cur[MC]
    <3>1. pc'[MC] \notin Early
      BY <2>2 DEF Early, Naming
    <3> QED
      BY <2>2, <3>1 DEF PeerInv, TableInv, FreshInv
  <2>3. CASE pc'[MC] = pc[MC] /\ cur'[MC] = cur[MC]
    <3>1. pc[MC] \in Early => cur[MC] \in Peers /\ cur[MC] # NoPeer
      BY ObjectTypes DEF PeerInv, McInv, Early, HasPeer
    <3> SUFFICES ASSUME pc[MC] \in Early \cup Naming
                 PROVE  FreshInv'
      BY <2>3 DEF FreshInv
    <3>2. \A i \in Lids : map[i] # cur[MC]
      BY DEF PeerInv, TableInv, FreshInv
    <3>3. CASE pc[MC] \notin Early
      BY <2>3, <3>2, <3>3 DEF FreshInv
    <3>4. CASE pc[MC] \in Early
      <4>1. /\ cur[MC] \notin ToSet(hash)
            /\ \A i \in Ids : peer_id_to_obj_map[i] # cur[MC]
            /\ \A t \in Threads : got[t] # cur[MC]
            /\ \A t \in Threads \ {MC} : cur[t] # cur[MC]
        BY <3>4 DEF PeerInv, TableInv, FreshInv
      <4>2. \A t \in Threads : got'[t] # cur[MC]
        BY <3>1, <3>4, <4>1
      <4>3. \A t \in Threads \ {MC} : cur'[t] # cur[MC]
        BY <3>1, <3>2, <3>4, <4>1
      <4> QED
        BY <2>3, <3>2, <4>1, <4>2, <4>3 DEF FreshInv
    <3> QED
      BY <3>3, <3>4
  <2> QED
    BY <2>1, <2>2, <2>3 DEF McStays
<1>6. ListInv'
  BY <1>2 DEF PeerInv, TableInv, ListInv, McStays, Moving, Early, Naming
<1>7. MapInv'
  <2>1. \A q \in Peers : peer'[q].valid => Live(q)'
    BY <1>1, <1>2 DEF PeerInv, TableInv, MapInv
  <2>2. ASSUME NEW i \in Lids, map[i] # NoPeer
        PROVE  /\ peer'[map[i]].local_id = i
               /\ \/ peer'[map[i]].valid
                  \/ pc'[MC] = "free_id" /\ cur'[MC] = map[i]
    <3>1. /\ map[i] \in Peers /\ peer[map[i]].local_id = i
          /\ \/ peer[map[i]].valid
             \/ pc[MC] = "free_id" /\ cur[MC] = map[i]
      BY <1>3, <2>2 DEF PeerInv, TableInv, MapInv
    <3>2. pc[MC] = "free_id" => pc'[MC] = pc[MC] /\ cur'[MC] = cur[MC]
      BY DEF McStays, Moving, Leaving, Naming
    <3> QED
      BY <1>1, <3>1, <3>2
  <2>3. \A i \in Ids : peer_id_to_obj_map[i] # NoPeer =>
                         peer'[peer_id_to_obj_map[i]].peer_ids # <<>>
    BY <1>1, <1>4 DEF PeerInv, TableInv, MapInv
  <2> QED
    BY <2>1, <2>2, <2>3 DEF MapInv
<1>8. NoDangling'
  <2>1. /\ \A q \in ToSet(hash) \cup ToSet(peer_list) : q \in Peers /\ Live(q)
        /\ \A i \in Lids : map[i] # NoPeer => Live(map[i])
        /\ \A i \in Ids : peer_id_to_obj_map[i] # NoPeer => Live(peer_id_to_obj_map[i])
        /\ \A t \in Threads : /\ cur[t] # NoPeer => cur[t] \in Peers /\ Live(cur[t])
                              /\ got[t] # NoPeer => got[t] \in Peers /\ Live(got[t])
    BY ObjectTypes, ThreadTypes DEF PeerInv, TableInv, NoDangling
  <2>2. \A t \in Threads : cur'[t] # NoPeer => cur'[t] \in Peers /\ Live(cur'[t])
    BY <1>3, <2>1
  <2>3. \A t \in Threads : got'[t] # NoPeer => got'[t] \in Peers /\ Live(got'[t])
    BY <2>1
  <2> QED
    BY <1>2, <1>3, <1>4, <2>1, <2>2, <2>3 DEF NoDangling
<1>9. Covered'
  <2> SUFFICES ASSUME NEW q \in Peers, Live(q)', ~Raw(q)'
        PROVE  /\ Live(q) /\ ~Raw(q) /\ peer'[q].ref_cnt \in Nat /\ peer[q].ref_cnt \in Nat
               /\ RefA(q)' + RefI(q)' + RefG(q)' + RefC(q)' + peer[q].ref_cnt
                    <= RefA(q) + RefI(q) + RefG(q) + RefC(q) + peer'[q].ref_cnt
    BY CoveredBy DEF PeerInv
  <2>1. Live(q) /\ ~Raw(q)
    BY <1>2 DEF Raw, McStays, Moving, Early, Naming
  <2>2. RefA(q)' <= RefA(q)
    <3>1. Attached(q)' => Attached(q)
      BY <1>1 DEF Attached, McStays, Moving, Leaving, Naming
    <3> QED
      BY <3>1 DEF RefA
  <2>3. RefI(q)' = RefI(q)
    BY <1>1 DEF RefI, Holders
  <2>4. /\ RefA(q) \in Nat /\ RefI(q) \in Nat /\ RefG(q) \in Nat /\ RefC(q) \in Nat
        /\ RefA(q)' \in Nat /\ RefG(q)' \in Nat /\ RefC(q)' \in Nat
    BY RefParts, RefPartsNext
  <2>5. peer[q].ref_cnt \in Nat /\ peer'[q].ref_cnt \in Nat
    BY ObjectTypes DEF SameButCount, Objects, PeerRec
  <2> DEFINE r == peer[q].ref_cnt
             s == peer'[q].ref_cnt
  <2>6. r \in Nat /\ s \in Nat /\ RefG(q)' + RefC(q)' + r <= RefG(q) + RefC(q) + s
    BY <2>5
  <2> HIDE DEF r, s
  <2>7. RefA(q)' + RefI(q)' + RefG(q)' + RefC(q)' + r <= RefA(q) + RefI(q) + RefG(q) + RefC(q) + s
    BY <2>2, <2>3, <2>4, <2>6
  <2> QED
    BY <2>1, <2>5, <2>7 DEF r, s
<1> QED
  BY <1>5, <1>6, <1>7, <1>8, <1>9 DEF TableInv

(* How the counts of pointers move with one pointer. *)
LEMMA GotStep ==
  ASSUME NEW t \in Threads, \A x \in Threads \ {t} : got'[x] = got[x], NEW q
  PROVE  Cardinality(Holders(got', Threads, q)) = Cardinality(Holders(got, Threads, q))
             + Change(got, got', t, q)
BY ThreadsFinite, HolderStep, SMT

LEMMA CurStep ==
  ASSUME NEW D, IsFiniteSet(D), NEW t \in D, \A x \in D \ {t} : cur'[x] = cur[x], NEW q
  PROVE  Cardinality(Holders(cur', D, q)) = Cardinality(Holders(cur, D, q))
             + Change(cur, cur', t, q)
BY HolderStep, SMT

LEMMA GotMoves ==
  ASSUME PeerInv, NEW t \in Threads, NEW v, got' = [got EXCEPT ![t] = v]
  PROVE  \A q : RefG(q)' = RefG(q) - (IF got[t] = q THEN 1 ELSE 0) + (IF v = q THEN 1 ELSE 0)
<1> SUFFICES ASSUME NEW q
     PROVE RefG(q)' = RefG(q) - (IF got[t] = q THEN 1 ELSE 0) + (IF v = q THEN 1 ELSE 0)
  OBVIOUS
<1>1. IsFiniteSet(Threads) /\ got'[t] = v /\ \A x \in Threads \ {t} : got'[x] = got[x]
  BY ThreadTypes, ThreadsFinite
<1>2. Cardinality(Holders(got', Threads, q)) = Cardinality(Holders(got, Threads, q)) + Change(got, got', t, q)
  BY <1>1, GotStep, Zenon
<1>3. Cardinality(Holders(got, Threads, q)) \in Nat
  BY <1>1, HolderNat
<1> QED
  BY <1>1, <1>2, <1>3 DEF RefG, Change

LEMMA CurMoves ==
  ASSUME PeerInv, NEW t \in Threads \ {MC}, NEW v, cur' = [cur EXCEPT ![t] = v]
  PROVE  \A q : RefC(q)' = RefC(q) - (IF cur[t] = q THEN 1 ELSE 0) + (IF v = q THEN 1 ELSE 0)
<1> SUFFICES ASSUME NEW q
     PROVE RefC(q)' = RefC(q) - (IF cur[t] = q THEN 1 ELSE 0) + (IF v = q THEN 1 ELSE 0)
  OBVIOUS
<1> DEFINE D == Threads \ {MC}
<1>1. IsFiniteSet(D) /\ t \in D /\ cur'[t] = v /\ \A x \in D \ {t} : cur'[x] = cur[x]
  BY ThreadTypes, ThreadsFinite
<1> HIDE DEF D
<1>2. Cardinality(Holders(cur', D, q)) = Cardinality(Holders(cur, D, q)) + Change(cur, cur', t, q)
  BY <1>1, CurStep, Zenon
<1>3. Cardinality(Holders(cur, D, q)) \in Nat
  BY <1>1, HolderNat
<1> QED
  BY <1>1, <1>2, <1>3 DEF RefC, D, Change

LEMMA CurStays ==
  ASSUME \A t \in Threads \ {MC} : cur'[t] = cur[t]
  PROVE  \A q : RefC(q)' = RefC(q)
<1>1. \A q : Holders(cur, Threads \ {MC}, q)' = Holders(cur, Threads \ {MC}, q)
  BY DEF Holders
<1> QED
  BY <1>1 DEF RefC


(* The types after a step of one thread that moves no table. *)
LEMMA StepTypes ==
  ASSUME PeerInv, NEW t \in Threads, NEW w \in Steps, pc' = [pc EXCEPT ![t] = w],
         cur' = cur \/ \E v \in Peers \cup {NoPeer} : cur' = [cur EXCEPT ![t] = v],
         got' = got \/ \E v \in Peers \cup {NoPeer} : got' = [got EXCEPT ![t] = v],
         mac' = mac \/ \E m \in Macs \cup {NoMac} : mac' = [mac EXCEPT ![t] = m],
         UNCHANGED <<peer_list, hash, freelist, map, peer_id_to_obj_map, peer_count, vdev,
                     wait_on_peer_id, wait_delete_comp, cmds, targetIds, msgs>>,
         peer' \in Objects
  PROVE  /\ StateOK' /\ pc'[t] = w
         /\ \A s \in Threads \ {t} : /\ pc'[s] = pc[s] /\ cur'[s] = cur[s]
                                     /\ got'[s] = got[s] /\ mac'[s] = mac[s]
<1>1. /\ pc' \in [Threads -> Steps] /\ pc'[t] = w
      /\ \A s \in Threads \ {t} : pc'[s] = pc[s]
  BY ThreadTypes
<1>2. /\ cur' \in [Threads -> Peers \cup {NoPeer}]
      /\ \A s \in Threads \ {t} : cur'[s] = cur[s]
  BY ThreadTypes
<1>3. /\ got' \in [Threads -> Peers \cup {NoPeer}]
      /\ \A s \in Threads \ {t} : got'[s] = got[s]
  BY ThreadTypes
<1>4. /\ mac' \in [Threads -> Macs \cup {NoMac}]
      /\ \A s \in Threads \ {t} : mac'[s] = mac[s]
  BY ThreadTypes
<1>5. StateOK'
  BY <1>1, <1>2, <1>3, <1>4 DEF PeerInv, StateOK, Objects, PeerRec
<1> QED
  BY <1>1, <1>2, <1>3, <1>4, <1>5

LEMMA UserInv ==
  ASSUME OtherInv, NEW u \in Users, msgs' = msgs,
         \A t \in Threads \ {u} : pc'[t] = pc[t] /\ cur'[t] = cur[t] /\ got'[t] = got[t],
         pc'[u] \in UserPlaces,
         got'[u] # NoPeer <=> pc'[u] \in {"find_dec", "update_dec"},
         cur'[u] # NoPeer <=> pc'[u] \in Holding
  PROVE  OtherInv'
<1>1. Tasklet \in Threads \ {u} /\ Users \subseteq Threads
  BY ThreadsFinite
<1>2. /\ pc'[Tasklet] \in {"idle", "map"} /\ got'[Tasklet] = NoPeer
      /\ cur'[Tasklet] # NoPeer <=> pc'[Tasklet] = "map"
      /\ pc'[Tasklet] = "map" => msgs' # <<>>
  BY <1>1 DEF OtherInv
<1>3. ASSUME NEW s \in Users
      PROVE  /\ pc'[s] \in UserPlaces
             /\ got'[s] # NoPeer <=> pc'[s] \in {"find_dec", "update_dec"}
             /\ cur'[s] # NoPeer <=> pc'[s] \in Holding
  BY <1>1 DEF OtherInv
<1> QED
  BY <1>2, <1>3 DEF OtherInv

(* One more reference to p, taken with the pointer to it. *)
LEMMA OneMore ==
  ASSUME PeerInv, NEW p \in Peers, peer' = [peer EXCEPT ![p].ref_cnt = @ + 1],
         \A q : RefG(q)' + RefC(q)' <= RefG(q) + RefC(q) + (IF p = q THEN 1 ELSE 0)
  PROVE  /\ SameButCount
         /\ \A q \in Peers : RefG(q)' + RefC(q)' + peer[q].ref_cnt
                               <= RefG(q) + RefC(q) + peer'[q].ref_cnt
<1> DEFINE x == peer[p].ref_cnt + 1
<1>1. peer \in Objects /\ \A q \in Peers : peer[q].ref_cnt \in Nat
  BY ObjectTypes DEF Objects, PeerRec
<1>2. peer' = PutRef(peer, p, x) /\ x \in Nat
  BY <1>1 DEF PutRef
<1> HIDE DEF x
<1>3. /\ SameButCount /\ peer'[p].ref_cnt = x
      /\ \A q \in Peers : q # p => peer'[q].ref_cnt = peer[q].ref_cnt
  BY <1>1, <1>2, CountOnly
<1>4. ASSUME NEW q \in Peers
      PROVE  RefG(q)' + RefC(q)' + peer[q].ref_cnt <= RefG(q) + RefC(q) + peer'[q].ref_cnt
  <2>1. RefG(q) \in Nat /\ RefC(q) \in Nat /\ RefG(q)' \in Nat /\ RefC(q)' \in Nat
    BY RefParts, RefPartsNext
  <2>2. RefG(q)' + RefC(q)' <= RefG(q) + RefC(q) + (IF p = q THEN 1 ELSE 0)
    OBVIOUS
  <2>3. peer'[q].ref_cnt = peer[q].ref_cnt + (IF p = q THEN 1 ELSE 0)
    BY <1>1, <1>3 DEF x
  <2> DEFINE r == peer[q].ref_cnt
             s == peer'[q].ref_cnt
  <2>4. r \in Nat /\ s = r + (IF p = q THEN 1 ELSE 0)
    BY <1>1, <2>3
  <2> HIDE DEF r, s
  <2>5. RefG(q)' + RefC(q)' + r <= RefG(q) + RefC(q) + s
    BY <2>1, <2>2, <2>4
  <2> QED
    BY <2>5 DEF r, s
<1> QED
  BY <1>3, <1>4

(* What a lookup by address leaves, whoever looks. *)
LEMMA FindTables ==
  ASSUME PeerInv, NEW t \in {MC} \cup Users, ol_txrx_find_peer_by_addr(t)
  PROVE  LET p == ol_txrx_peer_find_hash_find(mac[t], TRUE)
             w == IF p = NoPeer THEN AfterFind(t)
                  ELSE IF pc[t] = "find" THEN "find_dec" ELSE "update_dec"
         IN /\ pc[t] \in {"find", "update"} /\ w \in Steps
            /\ \/ p = NoPeer
               \/ p \in Peers /\ peer[p].valid
            /\ pc' = [pc EXCEPT ![t] = w] /\ cur' = cur /\ got' = [got EXCEPT ![t] = p]
            /\ \/ mac' = mac \/ mac' = [mac EXCEPT ![t] = mac[t]]
               \/ mac' = [mac EXCEPT ![t] = NoMac] /\ w = "idle"
            /\ UNCHANGED <<peer_list, hash, freelist, map, peer_id_to_obj_map, peer_count, vdev,
                           wait_on_peer_id, wait_delete_comp, cmds, targetIds, msgs>>
            /\ SameButCount
            /\ \A s \in Threads : got'[s] \in {got[s], NoPeer} \cup ToSet(hash)
            /\ \A q \in Peers : RefG(q)' + RefC(q)' + peer[q].ref_cnt
                                  <= RefG(q) + RefC(q) + peer'[q].ref_cnt
<1> DEFINE p == ol_txrx_peer_find_hash_find(mac[t], TRUE)
           w == IF p = NoPeer THEN AfterFind(t)
                ELSE IF pc[t] = "find" THEN "find_dec" ELSE "update_dec"
<1>1. /\ pc[t] \in {"find", "update"} /\ got' = [got EXCEPT ![t] = p]
      /\ pc' = [pc EXCEPT ![t] = w] /\ cur' = cur
      /\ UNCHANGED <<peer_list, hash, freelist, map, peer_id_to_obj_map, peer_count, vdev,
                     wait_on_peer_id, wait_delete_comp, cmds, targetIds, msgs>>
  BY DEF ol_txrx_find_peer_by_addr, GotoNext, Goto, tables, locals, target
<1>2. \/ mac' = mac \/ mac' = [mac EXCEPT ![t] = mac[t]]
      \/ mac' = [mac EXCEPT ![t] = NoMac] /\ w = "idle"
  BY DEF ol_txrx_find_peer_by_addr, GotoNext
<1>3. IF p = NoPeer THEN peer' = peer ELSE peer' = [peer EXCEPT ![p].ref_cnt = @ + 1]
  BY DEF ol_txrx_find_peer_by_addr
<1>4. AfterFind(t) \in Steps
  BY DEF AfterFind, Steps
<1>5. w \in Steps
  <2>1. "find_dec" \in Steps /\ "update_dec" \in Steps
    BY DEF Steps
  <2> QED
    BY <1>4, <2>1
<1>6. \/ p = NoPeer
      \/ p \in Peers /\ p \in ToSet(hash) /\ peer[p].valid
  <2>1. TRUE \in BOOLEAN /\ peer \in Objects /\ hash \in Seq(Peers)
    BY ObjectTypes
  <2> QED
    BY <2>1, FindFacts
<1>7. t \in Threads /\ got \in [Threads -> Peers \cup {NoPeer}]
  BY ThreadTypes
<1> HIDE DEF p, w
<1>8. \A s \in Threads : got'[s] \in {got[s], NoPeer} \cup ToSet(hash)
  BY <1>1, <1>6, <1>7
<1>9. got[t] = NoPeer
  <2>1. CASE t = MC
    BY <1>1, <2>1 DEF PeerInv, McInv
  <2>2. CASE t \in Users
    BY <1>1, <2>2 DEF PeerInv, OtherInv
  <2> QED
    BY <2>1, <2>2
<1>10. \A q : RefG(q)' + RefC(q)' <= RefG(q) + RefC(q) + (IF p = q THEN 1 ELSE 0)
  <2> SUFFICES ASSUME NEW q
        PROVE RefG(q)' + RefC(q)' <= RefG(q) + RefC(q) + (IF p = q THEN 1 ELSE 0)
    OBVIOUS
  <2>1. RefG(q)' = RefG(q) - (IF got[t] = q THEN 1 ELSE 0) + (IF p = q THEN 1 ELSE 0)
    BY <1>1, <1>7, GotMoves
  <2>2. RefC(q)' = RefC(q)
    BY <1>1, CurStays
  <2>3. RefG(q) \in Nat /\ RefC(q) \in Nat /\ RefG(q)' \in Nat /\ RefC(q)' \in Nat
    BY RefParts, RefPartsNext
  <2> QED
    BY <2>1, <2>2, <2>3
<1>11. /\ SameButCount
       /\ \A q \in Peers : RefG(q)' + RefC(q)' + peer[q].ref_cnt
                             <= RefG(q) + RefC(q) + peer'[q].ref_cnt
  <2>1. CASE p = NoPeer
    <3>1. SameButCount
      BY <1>3, <2>1, ObjectTypes DEF SameButCount
    <3>2. ASSUME NEW q \in Peers
          PROVE  RefG(q)' + RefC(q)' + peer[q].ref_cnt <= RefG(q) + RefC(q) + peer'[q].ref_cnt
      <4>1. RefG(q)' + RefC(q)' <= RefG(q) + RefC(q)
        <5>1. p # q
          BY <2>1, ObjectTypes
        <5>2. RefG(q) \in Nat /\ RefC(q) \in Nat
          BY RefParts
        <5> QED
          BY <1>10, <5>1, <5>2
      <4>2. RefG(q) \in Nat /\ RefC(q) \in Nat /\ RefG(q)' \in Nat /\ RefC(q)' \in Nat
        BY RefParts, RefPartsNext
      <4> DEFINE r == peer[q].ref_cnt
      <4>3. r \in Nat /\ peer'[q].ref_cnt = r
        BY <1>3, <2>1, ObjectTypes DEF Objects, PeerRec
      <4> HIDE DEF r
      <4>4. RefG(q)' + RefC(q)' + r <= RefG(q) + RefC(q) + r
        BY <4>1, <4>2, <4>3
      <4> QED
        BY <4>3, <4>4 DEF r
    <3> QED
      BY <3>1, <3>2
  <2>2. CASE p # NoPeer
    BY <1>3, <1>6, <1>10, <2>2, OneMore
  <2> QED
    BY <2>1, <2>2
<1> QED
  BY <1>1, <1>2, <1>5, <1>6, <1>8, <1>11 DEF p, w


LEMMA FindKeeps ==
  ASSUME PeerInv, NEW t \in {MC} \cup Users, ol_txrx_find_peer_by_addr(t)
  PROVE  PeerInv'
<1> DEFINE p == ol_txrx_peer_find_hash_find(mac[t], TRUE)
           w == IF p = NoPeer THEN AfterFind(t)
                ELSE IF pc[t] = "find" THEN "find_dec" ELSE "update_dec"
<1>1. /\ pc[t] \in {"find", "update"} /\ w \in Steps
      /\ \/ p = NoPeer
         \/ p \in Peers /\ peer[p].valid
      /\ pc' = [pc EXCEPT ![t] = w] /\ cur' = cur /\ got' = [got EXCEPT ![t] = p]
      /\ \/ mac' = mac \/ mac' = [mac EXCEPT ![t] = mac[t]]
         \/ mac' = [mac EXCEPT ![t] = NoMac] /\ w = "idle"
      /\ UNCHANGED <<peer_list, hash, freelist, map, peer_id_to_obj_map, peer_count, vdev,
                     wait_on_peer_id, wait_delete_comp, cmds, targetIds, msgs>>
      /\ SameButCount
      /\ \A s \in Threads : got'[s] \in {got[s], NoPeer} \cup ToSet(hash)
      /\ \A q \in Peers : RefG(q)' + RefC(q)' + peer[q].ref_cnt
                            <= RefG(q) + RefC(q) + peer'[q].ref_cnt
  BY FindTables
<1>2. w = IF p = NoPeer
          THEN IF pc[t] = "update" THEN IF t = MC THEN "local_id" ELSE "release"
                                   ELSE IF t = MC THEN "remove_send" ELSE "idle"
          ELSE IF pc[t] = "find" THEN "find_dec" ELSE "update_dec"
  BY <1>1 DEF AfterFind
<1>3. t \in Threads /\ mac[t] \in Macs \cup {NoMac} /\ p \in Peers \cup {NoPeer}
      /\ NoPeer \notin Peers
  BY <1>1, ThreadTypes, ObjectTypes
<1> HIDE DEF p, w
<1>4. /\ StateOK' /\ pc'[t] = w
      /\ \A s \in Threads \ {t} : /\ pc'[s] = pc[s] /\ cur'[s] = cur[s]
                                  /\ got'[s] = got[s] /\ mac'[s] = mac[s]
  <2>1. peer' \in Objects
    BY <1>1 DEF SameButCount
  <2>2. mac' = mac \/ \E m \in Macs \cup {NoMac} : mac' = [mac EXCEPT ![t] = m]
    BY <1>1, <1>3
  <2> QED
    BY <1>1, <1>3, <2>1, <2>2, StepTypes
<1>5. cur'[t] = cur[t] /\ got'[t] = p /\ (mac'[t] = mac[t] \/ w = "idle")
  BY <1>1, <1>3, ThreadTypes
<1>6. \A q \in Peers : peer'[q].valid = peer[q].valid
  BY <1>1 DEF SameButCount
<1>7. McInv' /\ McStays
  <2>1. CASE t = MC
    <3>1. /\ cur[MC] = NoPeer \/ cur[MC] \in Peers
          /\ pc[MC] = "update" => cur[MC] \in Peers /\ peer[cur[MC]].valid /\ vdev = "up" /\ peer_count > 0
          /\ pc[MC] = "find" => cur[MC] = NoPeer
          /\ mac[MC] \in Macs
      <4>1. cur[MC] = NoPeer \/ cur[MC] \in Peers
        BY ThreadTypes
      <4> QED
        BY <1>1, <2>1, <4>1 DEF PeerInv, McInv, HasPeer, Naming, Creating
    <3>2. /\ w \in {"local_id", "remove_send", "find_dec", "update_dec"}
          /\ w \in {"local_id", "update_dec"} <=> pc[MC] = "update"
          /\ w \in {"find_dec", "update_dec"} <=> p # NoPeer
      BY <1>1, <1>2, <2>1
    <3>3. McInv'
      BY <1>1, <1>3, <1>4, <1>5, <1>6, <2>1, <3>1, <3>2
         DEF McInv, Creating, HasPeer, Leaving, Early, Naming
    <3>4. McStays
      BY <1>1, <1>4, <1>5, <2>1, <3>2 DEF McStays, Moving, Early, Naming, Leaving
    <3> QED
      BY <3>3, <3>4
  <2>2. CASE t # MC
    <3>1. pc'[MC] = pc[MC] /\ cur'[MC] = cur[MC] /\ got'[MC] = got[MC] /\ mac'[MC] = mac[MC]
      BY <1>4, <2>2, ThreadTypes
    <3> QED
      BY <1>1, <1>6, <3>1, McSame DEF McStays
  <2> QED
    BY <2>1, <2>2
<1>8. OtherInv'
  <2>1. CASE t = MC
    BY <1>1, <1>4, <2>1, OthersSame DEF PeerInv
  <2>2. CASE t \in Users
    <3>1. t # MC
      BY <2>2, ThreadsFinite
    <3>2. /\ w \in {"release", "idle", "find_dec", "update_dec"}
          /\ w \in {"find_dec", "update_dec"} <=> p # NoPeer
          /\ w \in {"release", "update_dec"} <=> pc[t] = "update"
      BY <1>1, <1>2, <3>1
    <3>3. cur[t] # NoPeer <=> pc[t] = "update"
      BY <1>1, <2>2 DEF PeerInv, OtherInv
    <3>4. /\ pc'[t] \in UserPlaces
          /\ got'[t] # NoPeer <=> pc'[t] \in {"find_dec", "update_dec"}
          /\ cur'[t] # NoPeer <=> pc'[t] \in Holding
      BY <1>4, <1>5, <3>2, <3>3
    <3> QED
      BY <1>1, <1>4, <2>2, <3>4, UserInv DEF PeerInv
  <2> QED
    BY <2>1, <2>2
<1>9. TableInv' /\ Covered'
  <2>1. \A s \in Threads : cur'[s] \in {cur[s], got[s], NoPeer} \cup ToSet(hash)
    BY <1>1
  <2> QED
    BY <1>1, <1>7, <2>1, PointersKeep
<1> QED
  BY <1>4, <1>7, <1>8, <1>9 DEF PeerInv

(* A reference somebody has is one the count has. *)
LEMMA HeldCount ==
  ASSUME PeerInv, NEW p \in Peers, Live(p), ~Raw(p),
         \/ \E t \in Threads : got[t] = p
         \/ \E t \in Threads \ {MC} : cur[t] = p
         \/ \E i \in Ids : peer_id_to_obj_map[i] = p
         \/ Attached(p)
  PROVE  peer[p].ref_cnt \in Nat /\ peer[p].ref_cnt >= 1
<1>1. peer[p].ref_cnt \in Nat
  BY ObjectTypes DEF Objects, PeerRec
<1>2. peer[p].ref_cnt >= References(p)
  BY DEF PeerInv, Covered
<1>3. /\ References(p) = RefA(p) + RefI(p) + RefG(p) + RefC(p)
      /\ RefA(p) \in Nat /\ RefI(p) \in Nat /\ RefG(p) \in Nat /\ RefC(p) \in Nat
  BY RefParts
<1>4. RefA(p) >= 1 \/ RefI(p) >= 1 \/ RefG(p) >= 1 \/ RefC(p) >= 1
  BY <1>3, RefHeld
<1>5. References(p) >= 1
  BY <1>3, <1>4
<1> DEFINE r == peer[p].ref_cnt
<1>6. r \in Nat /\ r >= References(p) /\ References(p) \in Nat
  BY <1>1, <1>2, <1>3
<1> HIDE DEF r
<1>7. r >= 1
  BY <1>5, <1>6
<1> QED
  BY <1>1, <1>7 DEF r

LEMMA DecMoves ==
  ASSUME PeerInv, NEW t \in {MC} \cup Users, PlainDec(t)
  PROVE  /\ pc[t] \in Between /\ t \in Threads /\ got[t] \in Peers
         /\ peer' = [peer EXCEPT ![got[t]].ref_cnt = @ - 1]
         /\ got' = [got EXCEPT ![t] = NoPeer] /\ mac' = mac
         /\ UNCHANGED <<peer_list, hash, freelist, map, peer_id_to_obj_map, peer_count, vdev,
                        wait_on_peer_id, wait_delete_comp, cmds, targetIds, msgs>>
         /\ \/ /\ pc[t] = "find_dec" /\ t = MC /\ pc' = [pc EXCEPT ![t] = "remove_send"]
               /\ cur' = [cur EXCEPT ![t] = got[t]] /\ bare' = bare
            \/ /\ pc[t] = "find_dec" /\ t # MC /\ pc' = [pc EXCEPT ![t] = "peeked"]
               /\ cur' = cur /\ bare' = [bare EXCEPT ![t] = got[t]]
            \/ /\ pc[t] = "update_dec" /\ pc' = [pc EXCEPT ![t] = "write"]
               /\ cur' = cur /\ bare' = [bare EXCEPT ![t] = got[t]]
            \/ /\ pc[t] = "update_dec" /\ cur' = cur /\ bare' = bare
               /\ pc' = [pc EXCEPT ![t] = IF t = MC THEN "local_id" ELSE "release"]
<1>1. t \in Threads /\ mac \in [Threads -> Macs \cup {NoMac}]
  BY ThreadTypes
<1>2. /\ pc[t] \in Between
      /\ peer' = [peer EXCEPT ![got[t]].ref_cnt = @ - 1]
      /\ got' = [got EXCEPT ![t] = NoPeer]
      /\ UNCHANGED <<peer_list, hash, freelist, map, peer_id_to_obj_map, peer_count, vdev,
                     wait_on_peer_id, wait_delete_comp, cmds, targetIds, msgs>>
  BY DEF PlainDec, tables, locals, target
<1>3. got[t] \in Peers
  <2>1. NoPeer \notin Peers /\ got[t] \in Peers \cup {NoPeer}
    BY ObjectTypes, ThreadTypes
  <2>2. CASE t = MC
    BY <1>2, <2>1, <2>2 DEF PeerInv, McInv
  <2>3. CASE t \in Users
    BY <1>2, <2>1, <2>3 DEF PeerInv, OtherInv
  <2> QED
    BY <2>2, <2>3
<1>4. [mac EXCEPT ![t] = mac[t]] = mac
  BY <1>1
<1>5. GotoNext(t) /\ AfterFind(t) # "idle" => pc' = [pc EXCEPT ![t] = AfterFind(t)] /\ mac' = mac
  BY <1>4 DEF GotoNext, Goto
<1>6. CASE pc[t] = "find_dec" /\ t = MC
  <2>1. AfterFind(t) = "remove_send"
    BY <1>6 DEF AfterFind
  <2> QED
    BY <1>1, <1>2, <1>3, <1>5, <1>6, <2>1 DEF PlainDec
<1>7. CASE pc[t] = "find_dec" /\ t # MC
  BY <1>1, <1>2, <1>3, <1>7 DEF PlainDec, Goto
<1>8. CASE pc[t] = "update_dec"
  <2>1. AfterFind(t) = IF t = MC THEN "local_id" ELSE "release"
    BY <1>8 DEF AfterFind
  <2>2. \/ GotoNext(t) /\ UNCHANGED <<cur, bare>>
        \/ Goto(t, "write") /\ bare' = [bare EXCEPT ![t] = got[t]] /\ UNCHANGED <<cur, mac>>
    BY <1>8 DEF PlainDec
  <2> QED
    BY <1>1, <1>2, <1>3, <1>5, <1>8, <2>1, <2>2 DEF Goto
<1> QED
  BY <1>2, <1>6, <1>7, <1>8

LEMMA DecKeeps ==
  ASSUME PeerInv, NEW t \in {MC} \cup Users, PlainDec(t)
  PROVE  PeerInv'
<1> DEFINE p == got[t]
           x == peer[p].ref_cnt - 1
<1>1. /\ pc[t] \in Between
      /\ peer' = [peer EXCEPT ![p].ref_cnt = @ - 1]
      /\ got' = [got EXCEPT ![t] = NoPeer] /\ mac' = mac
      /\ UNCHANGED <<peer_list, hash, freelist, map, peer_id_to_obj_map, peer_count, vdev,
                     wait_on_peer_id, wait_delete_comp, cmds, targetIds, msgs>>
  BY DecMoves
<1>2. PICK w \in Steps, c \in Peers \cup {NoPeer} :
         /\ pc' = [pc EXCEPT ![t] = w] /\ cur' = [cur EXCEPT ![t] = c]
         /\ \/ pc[t] = "find_dec" /\ t = MC /\ w = "remove_send" /\ c = p
            \/ pc[t] = "find_dec" /\ t # MC /\ w = "peeked" /\ c = cur[t]
            \/ pc[t] = "update_dec" /\ w = "write" /\ c = cur[t]
            \/ pc[t] = "update_dec" /\ w = (IF t = MC THEN "local_id" ELSE "release") /\ c = cur[t]
  <2>1. /\ t \in Threads /\ p \in Peers /\ cur \in [Threads -> Peers \cup {NoPeer}]
        /\ cur[t] \in Peers \cup {NoPeer} /\ [cur EXCEPT ![t] = cur[t]] = cur
    BY DecMoves, ThreadTypes
  <2>2. {"remove_send", "peeked", "write", "local_id", "release"} \subseteq Steps
    BY DEF Steps
  <2> HIDE DEF p
  <2>3. \/ pc[t] = "find_dec" /\ t = MC /\ pc' = [pc EXCEPT ![t] = "remove_send"] /\ cur' = [cur EXCEPT ![t] = p]
        \/ pc[t] = "find_dec" /\ t # MC /\ pc' = [pc EXCEPT ![t] = "peeked"] /\ cur' = cur
        \/ pc[t] = "update_dec" /\ pc' = [pc EXCEPT ![t] = "write"] /\ cur' = cur
        \/ pc[t] = "update_dec" /\ pc' = [pc EXCEPT ![t] = IF t = MC THEN "local_id" ELSE "release"] /\ cur' = cur
    BY DecMoves DEF p
  <2> QED
    BY <2>1, <2>2, <2>3
<1>3. t \in Threads
  BY DecMoves
<1>4. p \in Peers /\ p # NoPeer
  BY DecMoves, ObjectTypes
<1>5. Live(p) /\ ~Raw(p)
  <2>1. Live(p)
    BY <1>3, <1>4 DEF PeerInv, TableInv, NoDangling
  <2>2. pc[MC] \in {"insert", "init"} => cur[MC] # p
    BY <1>3 DEF PeerInv, TableInv, FreshInv, Early
  <2> QED
    BY <2>1, <2>2 DEF Raw
<1>6. x \in Nat /\ peer[p].ref_cnt = x + 1
  <2>1. peer[p].ref_cnt \in Nat /\ peer[p].ref_cnt >= 1
    BY <1>3, <1>4, <1>5, HeldCount
  <2> QED
    BY <2>1
<1>7. /\ SameButCount /\ peer'[p].ref_cnt = x
      /\ \A q \in Peers : q # p => peer'[q].ref_cnt = peer[q].ref_cnt
  <2>1. peer' = PutRef(peer, p, x) /\ peer \in Objects
    BY <1>1, ObjectTypes DEF PutRef
  <2> HIDE DEF x, p
  <2> QED
    BY <1>4, <1>6, <2>1, CountOnly
<1> HIDE DEF x
<1>9. /\ StateOK' /\ pc'[t] = w
      /\ \A s \in Threads \ {t} : /\ pc'[s] = pc[s] /\ cur'[s] = cur[s]
                                  /\ got'[s] = got[s] /\ mac'[s] = mac[s]
  <2>1. peer' \in Objects
    BY <1>7 DEF SameButCount
  <2>3. \E v \in Peers \cup {NoPeer} : got' = [got EXCEPT ![t] = v]
    BY <1>1
  <2>4. \E v \in Peers \cup {NoPeer} : cur' = [cur EXCEPT ![t] = v]
    BY <1>2
  <2> QED
    BY <1>1, <1>2, <1>3, <2>1, <2>3, <2>4, StepTypes
<1>10. cur'[t] = c /\ got'[t] = NoPeer /\ mac'[t] = mac[t]
  BY <1>1, <1>2, <1>3, ThreadTypes
<1>11. \A q \in Peers : peer'[q].valid = peer[q].valid
  BY <1>7 DEF SameButCount
<1>12. McInv' /\ McStays
  <2>1. CASE t = MC
    <3>1. /\ pc[MC] = "update_dec" => /\ cur[MC] \in Peers /\ peer[cur[MC]].valid
                                      /\ vdev = "up" /\ peer_count > 0
          /\ pc[MC] = "find_dec" => peer[p].valid
          /\ mac[MC] \in Macs
      BY <1>1, <2>1 DEF PeerInv, McInv, HasPeer, Naming, Creating
    <3>2. \/ w \in {"local_id", "write"} /\ pc[MC] = "update_dec" /\ c = cur[MC]
          \/ w = "remove_send" /\ pc[MC] = "find_dec" /\ c = p
      BY <1>2, <2>1
    <3> HIDE DEF p
    <3>3. McInv'
      BY <1>1, <1>4, <1>9, <1>10, <1>11, <2>1, <3>1, <3>2
         DEF McInv, Creating, HasPeer, Leaving, Early, Naming
    <3>4. McStays
      BY <1>9, <1>10, <2>1, <3>2 DEF McStays, Moving, Early, Naming, Leaving
    <3> QED
      BY <3>3, <3>4
  <2>2. CASE t # MC
    <3>1. pc'[MC] = pc[MC] /\ cur'[MC] = cur[MC] /\ got'[MC] = got[MC] /\ mac'[MC] = mac[MC]
      BY <1>9, <2>2, ThreadTypes
    <3> QED
      BY <1>1, <1>11, <3>1, McSame DEF McStays
  <2> QED
    BY <2>1, <2>2
<1>13. OtherInv'
  <2>1. CASE t = MC
    BY <1>1, <1>9, <2>1, OthersSame DEF PeerInv
  <2>2. CASE t \in Users
    <3>1. t # MC
      BY <2>2, ThreadsFinite
    <3>2. \/ w \in {"release", "write"} /\ pc[t] = "update_dec" /\ c = cur[t]
          \/ w = "peeked" /\ pc[t] = "find_dec" /\ c = cur[t]
      BY <1>2, <3>1
    <3>3. cur[t] # NoPeer <=> pc[t] = "update_dec"
      BY <1>1, <2>2 DEF PeerInv, OtherInv
    <3>4. /\ pc'[t] \in UserPlaces
          /\ got'[t] # NoPeer <=> pc'[t] \in {"find_dec", "update_dec"}
          /\ cur'[t] # NoPeer <=> pc'[t] \in Holding
      BY <1>9, <1>10, <3>2, <3>3
    <3> QED
      BY <1>1, <1>9, <2>2, <3>4, UserInv DEF PeerInv
  <2> QED
    BY <2>1, <2>2
<1>14. TableInv' /\ Covered'
  <2>1. \A s \in Threads : cur'[s] \in {cur[s], got[s], NoPeer} \cup ToSet(hash)
    BY <1>2, <1>9, <1>10
  <2>2. \A s \in Threads : got'[s] \in {got[s], NoPeer} \cup ToSet(hash)
    BY <1>9, <1>10
  <2>3. ASSUME NEW q \in Peers
        PROVE  RefG(q)' + RefC(q)' + peer[q].ref_cnt <= RefG(q) + RefC(q) + peer'[q].ref_cnt
    <3>1. RefG(q)' = RefG(q) - (IF p = q THEN 1 ELSE 0) + (IF NoPeer = q THEN 1 ELSE 0)
      BY <1>1, <1>3, GotMoves
    <3>2. RefC(q)' = RefC(q)
      <4>1. \A s \in Threads \ {MC} : cur'[s] = cur[s]
        BY <1>2, <1>9, <1>10
      <4> QED
        BY <4>1, CurStays
    <3>3. RefG(q) \in Nat /\ RefC(q) \in Nat /\ NoPeer # q
      BY RefParts, ObjectTypes
    <3> DEFINE r == peer[q].ref_cnt
               s == peer'[q].ref_cnt
    <3>4. r \in Nat /\ r = s + (IF p = q THEN 1 ELSE 0) /\ s \in Nat
      <4>1. r \in Nat
        BY ObjectTypes DEF Objects, PeerRec
      <4>2. CASE q = p
        BY <1>6, <1>7, <4>2
      <4>3. CASE q # p
        BY <1>7, <4>1, <4>3
      <4> QED
        BY <4>1, <4>2, <4>3
    <3> HIDE DEF r, s, p
    <3>5. RefG(q)' + RefC(q)' + r <= RefG(q) + RefC(q) + s
      BY <3>1, <3>2, <3>3, <3>4
    <3> QED
      BY <3>5 DEF r, s
  <2> QED
    BY <1>1, <1>7, <1>12, <2>1, <2>2, <2>3, PointersKeep
<1> QED
  BY <1>9, <1>12, <1>13, <1>14 DEF PeerInv

(* The tasklet finds the peer of a PEER_MAP message. *)
LEMMA MapFindKeeps ==
  ASSUME PeerInv, MapFind
  PROVE  PeerInv'
<1> DEFINE p == ol_txrx_peer_find_hash_find(Head(msgs).mac, FALSE)
<1>1. /\ pc[Tasklet] = "idle" /\ msgs # <<>>
      /\ UNCHANGED <<got, mac, peer_list, hash, freelist, map, peer_id_to_obj_map, peer_count,
                     vdev, wait_on_peer_id, wait_delete_comp, cmds, targetIds>>
      /\ IF p = NoPeer
           THEN msgs' = Tail(msgs) /\ UNCHANGED <<pc, cur, peer>>
           ELSE /\ peer' = [peer EXCEPT ![p].ref_cnt = @ + 1]
                /\ cur' = [cur EXCEPT ![Tasklet] = p] /\ pc' = [pc EXCEPT ![Tasklet] = "map"]
                /\ msgs' = msgs
  BY DEF MapFind, Goto, tables, locals, target
<1>2. p = NoPeer \/ (p \in Peers /\ p \in ToSet(hash))
  <2>1. FALSE \in BOOLEAN /\ peer \in Objects /\ hash \in Seq(Peers)
    BY ObjectTypes
  <2> QED
    BY <2>1, FindFacts
<1> HIDE DEF p
<1>3. CASE p = NoPeer
  <2>1. msgs' \in Seq([type: {"map", "unmap"}, id: Ids, mac: Macs])
    <3> DEFINE M == [type: {"map", "unmap"}, id: Ids, mac: Macs]
    <3>1. msgs \in Seq(M) /\ msgs' = Tail(msgs) /\ msgs # <<>>
      BY <1>1, <1>3 DEF PeerInv, StateOK
    <3> HIDE DEF M
    <3>2. msgs' \in Seq(M)
      BY <3>1
    <3> QED
      BY <3>2 DEF M
  <2>2. StateOK'
    BY <1>1, <1>3, <2>1 DEF PeerInv, StateOK
  <2>3. McInv'
    BY <1>1, <1>3, McSame
  <2>4. OtherInv'
    BY <1>1, <1>3 DEF PeerInv, OtherInv
  <2>5. TableInv' /\ Covered'
    BY <1>1, <1>3, QuietTables
  <2> QED
    BY <2>2, <2>3, <2>4, <2>5 DEF PeerInv
<1>4. CASE p # NoPeer
  <2>1. /\ peer' = [peer EXCEPT ![p].ref_cnt = @ + 1] /\ msgs' = msgs
        /\ cur' = [cur EXCEPT ![Tasklet] = p] /\ pc' = [pc EXCEPT ![Tasklet] = "map"]
        /\ p \in Peers /\ p \in ToSet(hash) /\ got' = got
    BY <1>1, <1>2, <1>4
  <2>2. Tasklet \in Threads \ {MC} /\ "map" \in Steps /\ cur[Tasklet] = NoPeer
    BY <1>1, ThreadsFinite DEF Steps, PeerInv, OtherInv
  <2>3. \A q : RefG(q)' + RefC(q)' <= RefG(q) + RefC(q) + (IF p = q THEN 1 ELSE 0)
    <3> SUFFICES ASSUME NEW q
          PROVE RefG(q)' + RefC(q)' <= RefG(q) + RefC(q) + (IF p = q THEN 1 ELSE 0)
      OBVIOUS
    <3>1. RefC(q)' = RefC(q) - (IF cur[Tasklet] = q THEN 1 ELSE 0) + (IF p = q THEN 1 ELSE 0)
      BY <2>1, <2>2, CurMoves
    <3>2. RefG(q)' = RefG(q)
      BY <2>1 DEF RefG
    <3>3. RefG(q) \in Nat /\ RefC(q) \in Nat
      BY RefParts
    <3> QED
      BY <3>1, <3>2, <3>3
  <2>4. /\ SameButCount
        /\ \A q \in Peers : RefG(q)' + RefC(q)' + peer[q].ref_cnt
                              <= RefG(q) + RefC(q) + peer'[q].ref_cnt
    BY <2>1, <2>3, OneMore
  <2>5. /\ StateOK' /\ pc'[Tasklet] = "map"
        /\ \A s \in Threads \ {Tasklet} : /\ pc'[s] = pc[s] /\ cur'[s] = cur[s]
                                          /\ got'[s] = got[s] /\ mac'[s] = mac[s]
    <3>1. peer' \in Objects /\ \E v \in Peers \cup {NoPeer} : cur' = [cur EXCEPT ![Tasklet] = v]
      BY <2>1, <2>4 DEF SameButCount
    <3> QED
      BY <1>1, <2>1, <2>2, <3>1, StepTypes
  <2>6. cur'[Tasklet] = p /\ p # NoPeer
    BY <2>1, <2>2, <1>4, ThreadTypes
  <2>7. MC \in Threads \ {Tasklet}
    BY ThreadsFinite
  <2>8. McInv' /\ McStays
    <3>1. \A q \in Peers : peer'[q].valid = peer[q].valid
      BY <2>4 DEF SameButCount
    <3> QED
      BY <1>1, <2>5, <2>7, <3>1, McSame DEF McStays
  <2>9. OtherInv'
    <3>1. \A u \in Users : u \in Threads \ {Tasklet}
      BY ThreadsFinite
    <3> QED
      BY <1>1, <2>1, <2>5, <2>6, <3>1 DEF PeerInv, OtherInv
  <2>10. TableInv' /\ Covered'
    <3>1. \A s \in Threads : cur'[s] \in {cur[s], got[s], NoPeer} \cup ToSet(hash)
      BY <2>1, <2>5, <2>6
    <3>2. \A s \in Threads : got'[s] \in {got[s], NoPeer} \cup ToSet(hash)
      BY <2>1
    <3> QED
      BY <1>1, <2>4, <2>8, <3>1, <3>2, PointersKeep
  <2> QED
    BY <2>5, <2>8, <2>9, <2>10 DEF PeerInv
<1> QED
  BY <1>3, <1>4

LEMMA LocalFindKeeps ==
  ASSUME PeerInv, NEW u \in Users, NEW i \in Lids, ol_txrx_peer_find_with_ref_by_local_id(u, i)
  PROVE  PeerInv'
<1> DEFINE p == map[i]
<1>1. /\ pc[u] = "idle" /\ p # NoPeer /\ peer' = [peer EXCEPT ![p].ref_cnt = @ + 1]
      /\ cur' = [cur EXCEPT ![u] = p] /\ pc' = [pc EXCEPT ![u] = "held"]
      /\ UNCHANGED <<got, mac, peer_list, hash, freelist, map, peer_id_to_obj_map, peer_count,
                     vdev, wait_on_peer_id, wait_delete_comp, cmds, targetIds, msgs>>
  BY DEF ol_txrx_peer_find_with_ref_by_local_id, Goto, tables, locals, target
<1>2. p \in Peers
  BY <1>1, ObjectTypes
<1>3. u \in Threads \ {MC} /\ "held" \in Steps /\ cur[u] = NoPeer /\ got[u] = NoPeer
  BY <1>1, ThreadsFinite DEF Steps, PeerInv, OtherInv
<1>4. \A q : RefG(q)' + RefC(q)' <= RefG(q) + RefC(q) + (IF p = q THEN 1 ELSE 0)
  <2> SUFFICES ASSUME NEW q
        PROVE RefG(q)' + RefC(q)' <= RefG(q) + RefC(q) + (IF p = q THEN 1 ELSE 0)
    OBVIOUS
  <2>0. u \in Threads \ {MC} /\ cur' = [cur EXCEPT ![u] = p]
    BY <1>1, <1>3
  <2>1. RefC(q)' = RefC(q) - (IF cur[u] = q THEN 1 ELSE 0) + (IF p = q THEN 1 ELSE 0)
    BY <2>0, CurMoves, Zenon
  <2>2. RefG(q)' = RefG(q)
    BY <1>1 DEF RefG
  <2>3. RefG(q) \in Nat /\ RefC(q) \in Nat
    BY RefParts
  <2> QED
    BY <2>1, <2>2, <2>3
<1>5. /\ SameButCount
      /\ \A q \in Peers : RefG(q)' + RefC(q)' + peer[q].ref_cnt
                            <= RefG(q) + RefC(q) + peer'[q].ref_cnt
  <2> HIDE DEF p
  <2> QED
    BY <1>1, <1>2, <1>4, OneMore
<1>6. /\ StateOK' /\ pc'[u] = "held"
      /\ \A s \in Threads \ {u} : /\ pc'[s] = pc[s] /\ cur'[s] = cur[s]
                                  /\ got'[s] = got[s] /\ mac'[s] = mac[s]
  <2>1. peer' \in Objects /\ \E v \in Peers \cup {NoPeer} : cur' = [cur EXCEPT ![u] = v]
    BY <1>1, <1>2, <1>5 DEF SameButCount
  <2> QED
    BY <1>1, <1>3, <2>1, StepTypes
<1>7. cur'[u] = p /\ got'[u] = NoPeer /\ MC \in Threads \ {u}
  BY <1>1, <1>3, ThreadTypes
<1>8. McInv' /\ McStays
  <2>1. \A q \in Peers : peer'[q].valid = peer[q].valid
    BY <1>5 DEF SameButCount
  <2> QED
    BY <1>1, <1>6, <1>7, <2>1, McSame DEF McStays
<1>9. OtherInv'
  BY <1>1, <1>6, <1>7, UserInv DEF PeerInv
<1>10. TableInv' /\ Covered'
  <2>1. \A s \in Threads : \/ cur'[s] \in {cur[s], got[s], NoPeer} \cup ToSet(hash)
                           \/ \E k \in Lids : cur'[s] = map[k]
    BY <1>6, <1>7
  <2>2. \A s \in Threads : got'[s] \in {got[s], NoPeer} \cup ToSet(hash)
    BY <1>1
  <2> QED
    BY <1>1, <1>5, <1>8, <2>1, <2>2, PointersKeep
<1> QED
  BY <1>6, <1>8, <1>9, <1>10 DEF PeerInv

(* Another thread goes on, with the pointers it has. *)
LEMMA UserQuiet ==
  ASSUME PeerInv, NEW u \in Users, NEW w \in UserPlaces \ Between,
         pc[u] \notin Between, pc[u] \in Holding <=> w \in Holding,
         pc' = [pc EXCEPT ![u] = w], \E m \in Macs \cup {NoMac} : mac' = [mac EXCEPT ![u] = m],
         UNCHANGED <<cur, got, peer, peer_list, hash, freelist, map, peer_id_to_obj_map,
                     peer_count, vdev, wait_on_peer_id, wait_delete_comp, cmds, targetIds, msgs>>
  PROVE  PeerInv'
<1>1. u \in Threads \ {MC} /\ w \in Steps /\ peer' \in Objects
  BY ThreadsFinite, ObjectTypes DEF Steps
<1>2. /\ StateOK' /\ pc'[u] = w
      /\ \A s \in Threads \ {u} : /\ pc'[s] = pc[s] /\ cur'[s] = cur[s]
                                  /\ got'[s] = got[s] /\ mac'[s] = mac[s]
  BY <1>1, StepTypes
<1>3. MC \in Threads \ {u}
  BY <1>1, ThreadsFinite
<1>4. McInv'
  BY <1>2, <1>3, McSame
<1>5. OtherInv'
  <2>1. /\ got[u] = NoPeer
        /\ cur[u] # NoPeer <=> w \in Holding
    BY DEF PeerInv, OtherInv
  <2>2. /\ w \in UserPlaces
        /\ got'[u] # NoPeer <=> w \in Between
        /\ cur'[u] # NoPeer <=> w \in Holding
    BY <2>1
  <2> QED
    BY <1>2, <2>2, UserInv DEF PeerInv
<1>6. TableInv' /\ Covered'
  <2>1. pc'[MC] = pc[MC]
    BY <1>2, <1>3
  <2> QED
    BY <2>1, QuietTables
<1> QED
  BY <1>2, <1>4, <1>5, <1>6 DEF PeerInv

(* A pointer without a reference is no part of the invariant. *)
LEMMA FollowKeeps ==
  ASSUME PeerInv, NEW t \in {MC} \cup Users, FollowBare(t)
  PROVE  PeerInv'
<1>1. /\ pc[t] \in {"peeked", "write"} /\ t \in Threads
      /\ UNCHANGED <<cur, got, peer, peer_list, hash, freelist, map, peer_id_to_obj_map,
                     peer_count, vdev, wait_on_peer_id, wait_delete_comp, cmds, targetIds, msgs>>
  BY ThreadTypes DEF FollowBare, tables, locals, target
<1>2. PICK w, z : /\ w = AfterFind(t) /\ z = (IF w = "idle" THEN NoMac ELSE mac[t])
                  /\ pc' = [pc EXCEPT ![t] = w] /\ mac' = [mac EXCEPT ![t] = z]
  BY DEF FollowBare, GotoNext, Goto
<1>3. z \in Macs \cup {NoMac}
  BY <1>1, <1>2, ThreadTypes
<1>4. CASE t = MC
  <2>1. pc[MC] = "write"
    BY <1>1, <1>4 DEF PeerInv, McInv, Creating, Early, Naming, Leaving
  <2>2. w = "local_id" /\ z = mac[MC] /\ w \in Steps
    BY <1>2, <1>4, <2>1 DEF AfterFind, Steps
  <2>3. peer' \in Objects /\ SameButCount
    BY <1>1, ObjectTypes DEF SameButCount
  <2>4. /\ StateOK' /\ pc'[MC] = w
        /\ \A s \in Threads \ {MC} : /\ pc'[s] = pc[s] /\ cur'[s] = cur[s]
                                     /\ got'[s] = got[s] /\ mac'[s] = mac[s]
    BY <1>1, <1>2, <1>3, <1>4, <2>2, <2>3, StepTypes
  <2>5. mac'[MC] = mac[MC]
    BY <1>2, <1>4, <2>2, ThreadTypes
  <2>6. McInv' /\ McStays
    <3>1. McInv'
      BY <1>1, <2>1, <2>2, <2>4, <2>5 DEF PeerInv, McInv, Creating, HasPeer, Leaving, Early, Naming
    <3>2. McStays
      BY <1>1, <2>1, <2>2, <2>4 DEF McStays, Moving, Early, Naming, Leaving
    <3> QED
      BY <3>1, <3>2
  <2>7. OtherInv'
    BY <1>1, <2>4, OthersSame DEF PeerInv
  <2>8. TableInv' /\ Covered'
    <3>1. \A q \in Peers : RefG(q)' + RefC(q)' + peer[q].ref_cnt <= RefG(q) + RefC(q) + peer'[q].ref_cnt
      <4> SUFFICES ASSUME NEW q \in Peers
                   PROVE  RefG(q)' + RefC(q)' + peer[q].ref_cnt <= RefG(q) + RefC(q) + peer'[q].ref_cnt
        OBVIOUS
      <4>1. RefG(q)' = RefG(q) /\ RefC(q)' = RefC(q)
        BY <1>1 DEF RefG, RefC, Holders
      <4>2. RefG(q) \in Nat /\ RefC(q) \in Nat /\ peer[q].ref_cnt \in Nat
        BY RefParts, ObjectTypes DEF Objects, PeerRec
      <4> DEFINE r == peer[q].ref_cnt
      <4>3. r \in Nat /\ peer'[q].ref_cnt = r
        BY <1>1, <4>2
      <4> HIDE DEF r
      <4>4. RefG(q)' + RefC(q)' + r <= RefG(q) + RefC(q) + r
        BY <4>1, <4>2, <4>3
      <4> QED
        BY <4>3, <4>4 DEF r
    <3> QED
      BY <1>1, <2>3, <2>6, <3>1, PointersKeep
  <2> QED
    BY <2>4, <2>6, <2>7, <2>8 DEF PeerInv
<1>5. CASE t # MC
  <2>1. t \in Users
    BY <1>5
  <2>2. \/ pc[t] = "write" /\ w = "release"
        \/ pc[t] = "peeked" /\ w = "idle"
    BY <1>1, <1>2, <1>5 DEF AfterFind
  <2>3. w \in UserPlaces \ Between /\ pc[t] \notin Between /\ (pc[t] \in Holding <=> w \in Holding)
    BY <2>2
  <2>4. \E m \in Macs \cup {NoMac} : mac' = [mac EXCEPT ![t] = m]
    BY <1>2, <1>3
  <2> QED
    BY <1>1, <1>2, <2>1, <2>3, <2>4, UserQuiet
<1> QED
  BY <1>4, <1>5

-----------------------------------------------------------------------------
(* ol_txrx_peer_unref_delete                                               *)

(* Pointers are dropped, none is taken. *)
PointersDropped(p) ==
    /\ \/ pc'[MC] = pc[MC] /\ cur'[MC] = cur[MC]
       \/ pc[MC] = "detach_unref" /\ cur[MC] = p /\ pc'[MC] = "idle" /\ cur'[MC] = NoPeer
    /\ \A t \in Threads : cur'[t] \in {cur[t], NoPeer} /\ got'[t] \in {got[t], NoPeer}
    /\ \A i \in Ids : peer_id_to_obj_map'[i] \in {peer_id_to_obj_map[i], NoPeer}
    /\ map' = map

(* ... and one of them was a reference to p, if the release leaves it its  *)
(* validity and its IDs.                                                   *)
Unheld(p) ==
    /\ peer'[p].valid = peer[p].valid
    /\ peer'[p].peer_ids = peer[p].peer_ids
    => \/ RefA(p)' < RefA(p)
       \/ RefI(p)' < RefI(p)
       \/ RefC(p)' < RefC(p)

LEMMA FewerRefs ==
  ASSUME PeerInv, NEW p \in Peers, PointersDropped(p), NEW q \in Peers,
         peer'[q].valid = peer[q].valid, peer'[q].peer_ids = peer[q].peer_ids
  PROVE  RefA(q)' <= RefA(q) /\ RefI(q)' <= RefI(q) /\ RefG(q)' <= RefG(q) /\ RefC(q)' <= RefC(q)
<1>1. NoPeer # q
  BY ObjectTypes
<1>2. RefA(q)' <= RefA(q)
  <2>1. Attached(q)' => Attached(q)
    BY DEF Attached, PointersDropped
  <2> QED
    BY <2>1 DEF RefA
<1>3. RefG(q)' <= RefG(q)
  BY <1>1, ThreadsFinite, FewerHolders DEF RefG, PointersDropped
<1>4. RefC(q)' <= RefC(q)
  BY <1>1, ThreadsFinite, FewerHolders DEF RefC, PointersDropped
<1>5. RefI(q)' <= RefI(q)
  <2>1. Cardinality(Holders(peer_id_to_obj_map', Ids, q)) <= Cardinality(Holders(peer_id_to_obj_map, Ids, q))
    BY <1>1, ThreadsFinite, FewerHolders DEF PointersDropped
  <2> QED
    BY <2>1 DEF RefI
<1> QED
  BY <1>2, <1>3, <1>4, <1>5

(* The last reference: nothing points to the peer any more. *)
LEMMA LastReference ==
  ASSUME PeerInv, NEW p \in Peers, Live(p), ~Raw(p), PointersDropped(p),
         peer'[p].valid = peer[p].valid, peer'[p].peer_ids = peer[p].peer_ids,
         RefA(p)' + RefI(p)' + RefG(p)' + RefC(p)' + 1 <= RefA(p) + RefI(p) + RefG(p) + RefC(p),
         peer[p].ref_cnt = 1
  PROVE  /\ ~peer[p].valid
         /\ \A i \in Lids : map[i] # p
         /\ \A i \in Ids : peer_id_to_obj_map'[i] # p
         /\ \A t \in Threads : cur'[t] # p /\ got'[t] # p
<1>1. /\ References(p) = RefA(p) + RefI(p) + RefG(p) + RefC(p)
      /\ RefA(p) \in Nat /\ RefI(p) \in Nat /\ RefG(p) \in Nat /\ RefC(p) \in Nat
      /\ RefA(p)' \in Nat /\ RefI(p)' \in Nat /\ RefG(p)' \in Nat /\ RefC(p)' \in Nat
  BY RefParts, RefPartsNext
<1>2. 1 >= References(p)
  BY DEF PeerInv, Covered
<1>3. RefA(p)' = 0 /\ RefI(p)' = 0 /\ RefG(p)' = 0 /\ RefC(p)' = 0
  <2> DEFINE n == References(p)
             a == RefA(p)'
             i == RefI(p)'
             g == RefG(p)'
             c == RefC(p)'
  <2>1. n <= 1 /\ n \in Nat /\ a \in Nat /\ i \in Nat /\ g \in Nat /\ c \in Nat
        /\ a + i + g + c + 1 <= n
    BY <1>1, <1>2
  <2> HIDE DEF n, a, i, g, c
  <2>2. a = 0 /\ i = 0 /\ g = 0 /\ c = 0
    BY <2>1
  <2> QED
    BY <2>2 DEF a, i, g, c
<1>4. ~Attached(p)'
  BY <1>3 DEF RefA
<1>5. /\ \A t \in Threads : got'[t] # p
      /\ \A t \in Threads \ {MC} : cur'[t] # p
      /\ \A i \in Ids : peer_id_to_obj_map'[i] # p
  BY <1>3, RefHeldNext
<1>6. ~peer[p].valid
  BY <1>4 DEF Attached
<1>7. NoPeer # p
  BY ObjectTypes
<1>8. cur'[MC] # p
  <2>1. CASE pc'[MC] = pc[MC] /\ cur'[MC] = cur[MC]
    <3> SUFFICES ASSUME cur[MC] = p PROVE FALSE
      BY <2>1
    <3>1. pc[MC] \notin Leaving
      BY <1>4, <2>1 DEF Attached, Leaving
    <3>2. pc[MC] \notin {"insert", "init"}
      BY DEF Raw
    <3>3. pc[MC] \notin HasPeer /\ pc[MC] # "remove_send"
      BY <1>6, <1>7 DEF PeerInv, McInv
    <3>4. pc[MC] \notin {"idle", "dup_check", "wait", "alloc", "find", "find_dec"}
      BY <1>7 DEF PeerInv, McInv
    <3> QED
      BY <3>1, <3>2, <3>3, <3>4 DEF PeerInv, McInv, Creating, HasPeer, Early, Naming
  <2>2. CASE cur'[MC] = NoPeer
    BY <1>7, <2>2
  <2> QED
    BY <2>1, <2>2 DEF PointersDropped
<1>9. \A i \in Lids : map[i] # p
  <2> SUFFICES ASSUME NEW i \in Lids, map[i] = p PROVE FALSE
    OBVIOUS
  <2>1. pc[MC] = "free_id" /\ cur[MC] = p
    BY <1>6, <1>7 DEF PeerInv, TableInv, MapInv
  <2> QED
    BY <1>8, <2>1 DEF PointersDropped
<1> QED
  BY <1>5, <1>6, <1>8, <1>9

(* What the tables are afterwards, deletion or not. *)
LEMMA UnrefKeeps ==
  ASSUME PeerInv, NEW p \in Peers, Live(p), ~Raw(p), PointersDropped(p),
         Unheld(p), peer[p].ref_cnt >= 1,
         ol_txrx_peer_unref_delete(p, peer)
  PROVE  /\ TableInv' /\ Covered' /\ peer' \in Objects
         /\ peer_list' \in Seq(Peers) /\ hash' \in Seq(Peers)
         /\ wait_on_peer_id' \in Lids \cup {INVALID} /\ wait_delete_comp' \in BOOLEAN
         /\ vdev' \in {"up", "pending", "freed"} /\ (vdev = "up" => vdev' = "up")
         /\ \A q \in Peers : peer'[q].valid = peer[q].valid
<1> DEFINE x == peer[p].ref_cnt - 1
<1>0. ASSUME peer'[p].valid = peer[p].valid, peer'[p].peer_ids = peer[p].peer_ids
      PROVE  RefA(p)' + RefI(p)' + RefG(p)' + RefC(p)' + 1 <= RefA(p) + RefI(p) + RefG(p) + RefC(p)
  <2>1. /\ RefA(p)' <= RefA(p) /\ RefI(p)' <= RefI(p) /\ RefG(p)' <= RefG(p) /\ RefC(p)' <= RefC(p)
        /\ RefA(p)' < RefA(p) \/ RefI(p)' < RefI(p) \/ RefC(p)' < RefC(p)
    BY <1>0, FewerRefs DEF Unheld
  <2>2. /\ RefA(p) \in Nat /\ RefI(p) \in Nat /\ RefG(p) \in Nat /\ RefC(p) \in Nat
        /\ RefA(p)' \in Nat /\ RefI(p)' \in Nat /\ RefG(p)' \in Nat /\ RefC(p)' \in Nat
    BY RefParts, RefPartsNext
  <2> QED
    BY <2>1, <2>2
<1>1. peer \in Objects /\ \A q \in Peers : peer[q].ref_cnt \in Nat
  BY ObjectTypes DEF Objects, PeerRec
<1>2. x \in Nat
  BY <1>1
<1>3. \/ /\ peer[p].ref_cnt = 1 /\ DeletePeer(p, peer)
      \/ /\ peer[p].ref_cnt # 1 /\ peer' = PutRef(peer, p, x)
         /\ UNCHANGED <<peer_list, hash, wait_on_peer_id, wait_delete_comp, vdev>>
  BY <1>1 DEF ol_txrx_peer_unref_delete, tables, PutRef
<1> HIDE DEF x
<1>4. CASE /\ peer[p].ref_cnt # 1 /\ peer' = PutRef(peer, p, x)
           /\ UNCHANGED <<peer_list, hash, wait_on_peer_id, wait_delete_comp, vdev>>
  <2>1. /\ SameButCount /\ peer'[p].ref_cnt = x
        /\ \A q \in Peers : q # p => peer'[q].ref_cnt = peer[q].ref_cnt
    BY <1>1, <1>2, <1>4, CountOnly
  <2>2. /\ \A q \in Peers : peer'[q].mem = peer[q].mem
        /\ \A q \in Peers : peer'[q].local_id = peer[q].local_id
        /\ \A q \in Peers : peer'[q].peer_ids = peer[q].peer_ids
        /\ \A q \in Peers : peer'[q].valid = peer[q].valid
    BY <2>1 DEF SameButCount
  <2>3. \A q \in Peers : Live(q)' <=> Live(q)
    BY <2>2 DEF Live
  <2>4. /\ \A i \in Lids : map[i] # NoPeer => map[i] \in Peers
        /\ \A i \in Ids : peer_id_to_obj_map[i] # NoPeer => peer_id_to_obj_map[i] \in Peers
        /\ NoPeer \notin Peers
    BY ObjectTypes
  <2>5. FreshInv'
    <3>1. CASE pc'[MC] = "idle"
      BY <3>1 DEF FreshInv, Early, Naming
    <3>2. CASE pc'[MC] = pc[MC] /\ cur'[MC] = cur[MC]
      <4>1. pc[MC] \in Early => cur[MC] \in Peers
        BY DEF PeerInv, McInv, Early, HasPeer
      <4> QED
        BY <1>4, <2>4, <3>2, <4>1 DEF PeerInv, TableInv, FreshInv, PointersDropped
    <3> QED
      BY <3>1, <3>2 DEF PointersDropped
  <2>6. ListInv'
    BY <1>4, <2>3 DEF PeerInv, TableInv, ListInv, PointersDropped
  <2>7. MapInv'
    <3>1. \A q \in Peers : peer'[q].valid => Live(q)'
      BY <2>2, <2>3 DEF PeerInv, TableInv, MapInv
    <3>2. ASSUME NEW i \in Lids, map[i] # NoPeer
          PROVE  /\ peer'[map[i]].local_id = i
                 /\ \/ peer'[map[i]].valid
                    \/ pc'[MC] = "free_id" /\ cur'[MC] = map[i]
      BY <2>2, <2>4, <3>2 DEF PeerInv, TableInv, MapInv, PointersDropped
    <3>3. \A i \in Ids : peer_id_to_obj_map'[i] # NoPeer =>
                           peer'[peer_id_to_obj_map'[i]].peer_ids # <<>>
      BY <2>2, <2>4 DEF PeerInv, TableInv, MapInv, PointersDropped
    <3>4. map' = map
      BY DEF PointersDropped
    <3> QED
      BY <3>1, <3>2, <3>3, <3>4 DEF MapInv
  <2>8. NoDangling'
    <3>1. \A q \in ToSet(hash) \cup ToSet(peer_list) : q \in Peers
      BY ObjectTypes
    <3>2. \A t \in Threads : cur[t] \in Peers \cup {NoPeer} /\ got[t] \in Peers \cup {NoPeer}
      BY ThreadTypes
    <3> QED
      BY <1>4, <2>3, <2>4, <3>1, <3>2 DEF PeerInv, TableInv, NoDangling, PointersDropped
  <2>9. Covered'
    <3> SUFFICES ASSUME NEW q \in Peers, Live(q)', ~Raw(q)'
          PROVE  /\ Live(q) /\ ~Raw(q) /\ peer'[q].ref_cnt \in Nat /\ peer[q].ref_cnt \in Nat
                 /\ RefA(q)' + RefI(q)' + RefG(q)' + RefC(q)' + peer[q].ref_cnt
                      <= RefA(q) + RefI(q) + RefG(q) + RefC(q) + peer'[q].ref_cnt
      BY CoveredBy DEF PeerInv
    <3>1. Live(q) /\ ~Raw(q)
      BY <2>3 DEF Raw, PointersDropped
    <3>2. RefA(q)' <= RefA(q) /\ RefI(q)' <= RefI(q) /\ RefG(q)' <= RefG(q) /\ RefC(q)' <= RefC(q)
      BY <2>2, FewerRefs
    <3>3. q = p => RefA(q)' + RefI(q)' + RefG(q)' + RefC(q)' + 1
                     <= RefA(q) + RefI(q) + RefG(q) + RefC(q)
      BY <1>0, <2>2
    <3>4. /\ RefA(q) \in Nat /\ RefI(q) \in Nat /\ RefG(q) \in Nat /\ RefC(q) \in Nat
          /\ RefA(q)' \in Nat /\ RefI(q)' \in Nat /\ RefG(q)' \in Nat /\ RefC(q)' \in Nat
      BY RefParts, RefPartsNext
    <3> DEFINE r == peer[q].ref_cnt
               s == peer'[q].ref_cnt
    <3>5. r \in Nat /\ s \in Nat /\ r = s + (IF q = p THEN 1 ELSE 0)
      <4>1. CASE q = p
        BY <1>1, <1>2, <2>1, <4>1 DEF x
      <4>2. CASE q # p
        BY <1>1, <2>1, <4>2
      <4> QED
        BY <4>1, <4>2
    <3>6. r \in Nat /\ s \in Nat
      BY <3>5
    <3> HIDE DEF r, s
    <3>7. RefA(q)' + RefI(q)' + RefG(q)' + RefC(q)' + r <= RefA(q) + RefI(q) + RefG(q) + RefC(q) + s
      BY <3>2, <3>3, <3>4, <3>5
    <3> QED
      BY <3>1, <3>6, <3>7 DEF r, s
  <2> QED
    BY <1>4, <2>1, <2>2, <2>5, <2>6, <2>7, <2>8, <2>9, ObjectTypes, ThreadTypes
       DEF TableInv, SameButCount
<1>5. CASE peer[p].ref_cnt = 1 /\ DeletePeer(p, peer)
  <2>1. /\ hash' = Without(hash, p) /\ peer_list' = Without(peer_list, p)
        /\ peer' = PutFreed(peer, p)
        /\ \/ wait_delete_comp' = TRUE /\ wait_on_peer_id' = INVALID
           \/ UNCHANGED <<wait_delete_comp, wait_on_peer_id>>
        /\ vdev' = IF peer_list' = <<>> /\ vdev = "pending" THEN "freed" ELSE vdev
    BY <1>5 DEF DeletePeer, PutFreed
  <2>2. /\ peer' \in Objects /\ peer'[p].mem = "freed"
        /\ \A q \in Peers : q # p => peer'[q] = peer[q]
    BY <1>1, <2>1, SetFreed
  <2>3. /\ \A q \in Peers : peer'[q].local_id = peer[q].local_id
        /\ \A q \in Peers : peer'[q].peer_ids = peer[q].peer_ids
    BY <1>1, <2>1, SetFreed
  <2>4. \A q \in Peers : peer'[q].valid = peer[q].valid
    BY <1>1, <2>1, SetFreed
  <2>5. /\ ~peer[p].valid
        /\ \A i \in Lids : map[i] # p
        /\ \A i \in Ids : peer_id_to_obj_map'[i] # p
        /\ \A t \in Threads : cur'[t] # p /\ got'[t] # p
    BY <1>0, <1>5, <2>3, <2>4, LastReference
  <2>6. \A q \in Peers : Live(q)' <=> Live(q) /\ q # p
    BY <2>2 DEF Live
  <2>7. /\ peer_list' \in Seq(Peers) /\ Once(peer_list') /\ ToSet(peer_list') = ToSet(peer_list) \ {p}
        /\ hash' \in Seq(Peers) /\ Once(hash') /\ ToSet(hash') = ToSet(hash) \ {p}
    <3>1. Once(hash) /\ Once(peer_list) /\ hash \in Seq(Peers) /\ peer_list \in Seq(Peers)
      BY ObjectTypes DEF PeerInv, TableInv, ListInv
    <3> QED
      BY <2>1, <3>1, WithoutFacts
  <2>8. /\ \A i \in Lids : map[i] # NoPeer => map[i] \in Peers
        /\ \A i \in Ids : peer_id_to_obj_map[i] # NoPeer => peer_id_to_obj_map[i] \in Peers
        /\ NoPeer \notin Peers
    BY ObjectTypes
  <2>9. FreshInv'
    <3>1. CASE pc'[MC] = "idle"
      BY <3>1 DEF FreshInv, Early, Naming
    <3>2. CASE pc'[MC] = pc[MC] /\ cur'[MC] = cur[MC]
      <4>1. pc[MC] \in Early => cur[MC] \in Peers
        BY DEF PeerInv, McInv, Early, HasPeer
      <4> QED
        BY <2>7, <2>8, <3>2, <4>1 DEF PeerInv, TableInv, FreshInv, PointersDropped
    <3> QED
      BY <3>1, <3>2 DEF PointersDropped
  <2>10. ListInv'
    <3>1. MC \in Threads
      BY ThreadTypes
    <3> QED
      BY <2>5, <2>6, <2>7, <3>1 DEF PeerInv, TableInv, ListInv, PointersDropped
  <2>11. MapInv'
    <3>1. \A q \in Peers : peer'[q].valid => Live(q)'
      BY <2>4, <2>5, <2>6 DEF PeerInv, TableInv, MapInv
    <3>2. ASSUME NEW i \in Lids, map[i] # NoPeer
          PROVE  /\ peer'[map[i]].local_id = i
                 /\ \/ peer'[map[i]].valid
                    \/ pc'[MC] = "free_id" /\ cur'[MC] = map[i]
      BY <2>3, <2>4, <2>8, <3>2 DEF PeerInv, TableInv, MapInv, PointersDropped
    <3>3. \A i \in Ids : peer_id_to_obj_map'[i] # NoPeer =>
                           peer'[peer_id_to_obj_map'[i]].peer_ids # <<>>
      BY <2>3, <2>8 DEF PeerInv, TableInv, MapInv, PointersDropped
    <3>4. map' = map
      BY DEF PointersDropped
    <3> QED
      BY <3>1, <3>2, <3>3, <3>4 DEF MapInv
  <2>12. NoDangling'
    <3>1. \A q \in ToSet(hash) \cup ToSet(peer_list) : q \in Peers
      BY ObjectTypes
    <3>2. \A t \in Threads : cur[t] \in Peers \cup {NoPeer} /\ got[t] \in Peers \cup {NoPeer}
      BY ThreadTypes
    <3>0. \A q \in Peers : Live(q) /\ q # p => peer'[q].mem = "live"
      BY <2>6 DEF Live
    <3>3. map' = map
      BY DEF PointersDropped
    <3>4. \A t \in Threads : /\ cur'[t] # NoPeer => peer'[cur'[t]].mem = "live"
                             /\ got'[t] # NoPeer => peer'[got'[t]].mem = "live"
      BY <2>5, <3>0, <3>2 DEF PeerInv, TableInv, NoDangling, PointersDropped
    <3>5. \A i \in Ids : peer_id_to_obj_map'[i] # NoPeer => peer'[peer_id_to_obj_map'[i]].mem = "live"
      BY <2>5, <3>0, <2>8 DEF PeerInv, TableInv, NoDangling, PointersDropped
    <3>6. \A i \in Lids : map[i] # NoPeer => peer'[map[i]].mem = "live"
      BY <2>5, <3>0, <2>8 DEF PeerInv, TableInv, NoDangling
    <3>7. \A q \in ToSet(hash') \cup ToSet(peer_list') : peer'[q].mem = "live"
      BY <2>7, <3>0, <3>1 DEF PeerInv, TableInv, NoDangling
    <3> QED
      BY <3>3, <3>4, <3>5, <3>6, <3>7 DEF NoDangling, Live
  <2>13. Covered'
    <3> SUFFICES ASSUME NEW q \in Peers, Live(q)', ~Raw(q)'
          PROVE  /\ Live(q) /\ ~Raw(q) /\ peer'[q].ref_cnt \in Nat /\ peer[q].ref_cnt \in Nat
                 /\ RefA(q)' + RefI(q)' + RefG(q)' + RefC(q)' + peer[q].ref_cnt
                      <= RefA(q) + RefI(q) + RefG(q) + RefC(q) + peer'[q].ref_cnt
      BY CoveredBy DEF PeerInv
    <3>1. Live(q) /\ ~Raw(q) /\ q # p
      BY <2>6 DEF Raw, PointersDropped
    <3>2. RefA(q)' <= RefA(q) /\ RefI(q)' <= RefI(q) /\ RefG(q)' <= RefG(q) /\ RefC(q)' <= RefC(q)
      BY <2>3, <2>4, FewerRefs
    <3>4. /\ RefA(q) \in Nat /\ RefI(q) \in Nat /\ RefG(q) \in Nat /\ RefC(q) \in Nat
          /\ RefA(q)' \in Nat /\ RefI(q)' \in Nat /\ RefG(q)' \in Nat /\ RefC(q)' \in Nat
      BY RefParts, RefPartsNext
    <3> DEFINE r == peer[q].ref_cnt
    <3>5. r \in Nat /\ peer'[q].ref_cnt = r
      BY <1>1, <2>2, <3>1
    <3> HIDE DEF r
    <3>7. RefA(q)' + RefI(q)' + RefG(q)' + RefC(q)' + r <= RefA(q) + RefI(q) + RefG(q) + RefC(q) + r
      BY <3>2, <3>4, <3>5
    <3> QED
      BY <3>1, <3>5, <3>7 DEF r
  <2>14. /\ wait_on_peer_id' \in Lids \cup {INVALID} /\ wait_delete_comp' \in BOOLEAN
         /\ vdev' \in {"up", "pending", "freed"} /\ (vdev = "up" => vdev' = "up")
    BY <2>1, ThreadTypes
  <2> QED
    BY <2>2, <2>4, <2>7, <2>9, <2>10, <2>11, <2>12, <2>13, <2>14 DEF TableInv
<1> QED
  BY <1>3, <1>4, <1>5


(* The types after a release, whoever releases. *)
LEMMA ReleaseTypes ==
  ASSUME PeerInv, NEW t \in Threads, Leave(t),
         peer' \in Objects, peer_list' \in Seq(Peers), hash' \in Seq(Peers),
         wait_on_peer_id' \in Lids \cup {INVALID}, wait_delete_comp' \in BOOLEAN,
         vdev' \in {"up", "pending", "freed"},
         peer_id_to_obj_map' \in [Ids -> Peers \cup {NoPeer}],
         msgs' \in Seq([type: {"map", "unmap"}, id: Ids, mac: Macs]),
         UNCHANGED <<freelist, map, peer_count, cmds, targetIds>>
  PROVE  /\ StateOK' /\ pc'[t] = "idle" /\ cur'[t] = NoPeer /\ got'[t] = NoPeer
         /\ \A s \in Threads \ {t} : /\ pc'[s] = pc[s] /\ cur'[s] = cur[s]
                                     /\ got'[s] = got[s] /\ mac'[s] = mac[s]
<1>1. /\ pc' = [pc EXCEPT ![t] = "idle"] /\ cur' = [cur EXCEPT ![t] = NoPeer]
      /\ got' = [got EXCEPT ![t] = NoPeer] /\ mac' = [mac EXCEPT ![t] = NoMac]
  BY DEF Leave, Goto
<1>2. /\ pc' \in [Threads -> Steps] /\ pc'[t] = "idle"
      /\ \A s \in Threads \ {t} : pc'[s] = pc[s]
  BY <1>1, ThreadTypes DEF Steps
<1>3. /\ cur' \in [Threads -> Peers \cup {NoPeer}] /\ cur'[t] = NoPeer
      /\ \A s \in Threads \ {t} : cur'[s] = cur[s]
  BY <1>1, ThreadTypes
<1>4. /\ got' \in [Threads -> Peers \cup {NoPeer}] /\ got'[t] = NoPeer
      /\ \A s \in Threads \ {t} : got'[s] = got[s]
  BY <1>1, ThreadTypes
<1>5. /\ mac' \in [Threads -> Macs \cup {NoMac}]
      /\ \A s \in Threads \ {t} : mac'[s] = mac[s]
  BY <1>1, ThreadTypes
<1>6. StateOK'
  BY <1>2, <1>3, <1>4, <1>5 DEF PeerInv, StateOK, Objects, PeerRec
<1> QED
  BY <1>2, <1>3, <1>4, <1>5, <1>6

LEMMA MsgTypes ==
  ASSUME PeerInv
  PROVE  msgs \in Seq([type: {"map", "unmap"}, id: Ids, mac: Macs])
BY DEF PeerInv, StateOK

LEMMA DetachKeeps ==
  ASSUME PeerInv, DetachUnref
  PROVE  PeerInv'
<1>0. /\ pc[MC] = "detach_unref" /\ ol_txrx_peer_unref_delete(cur[MC], peer) /\ Leave(MC)
      /\ UNCHANGED <<freelist, map, peer_id_to_obj_map, peer_count, cmds, targetIds, msgs>>
  BY DEF DetachUnref, locals, target
<1>20. PICK p \in Peers : p = cur[MC]
  BY <1>0 DEF PeerInv, McInv, Leaving
<1>1. /\ pc[MC] = "detach_unref" /\ ol_txrx_peer_unref_delete(p, peer) /\ Leave(MC)
      /\ UNCHANGED <<freelist, map, peer_id_to_obj_map, peer_count, cmds, targetIds, msgs>>
  BY <1>0, <1>20
<1>2. p \in Peers /\ ~peer[p].valid /\ MC \in Threads
  BY <1>1, <1>20, ThreadTypes DEF PeerInv, McInv, Leaving
<1>3. Live(p) /\ ~Raw(p) /\ Attached(p)
  BY <1>1, <1>2, <1>20, ObjectTypes DEF PeerInv, TableInv, NoDangling, Raw, Attached
<1>4. /\ pc'[MC] = "idle" /\ cur'[MC] = NoPeer /\ got'[MC] = NoPeer
      /\ \A s \in Threads \ {MC} : pc'[s] = pc[s] /\ cur'[s] = cur[s] /\ got'[s] = got[s]
  BY <1>1, ThreadTypes DEF Leave, Goto
<1>5. PointersDropped(p)
  BY <1>1, <1>4, <1>20 DEF PointersDropped
<1>6. peer[p].ref_cnt >= 1
  BY <1>2, <1>3, HeldCount
<1>7. Unheld(p)
  <2>0. SUFFICES ASSUME peer'[p].valid = peer[p].valid PROVE RefA(p)' < RefA(p)
    BY DEF Unheld
  <2>1. ~peer'[p].valid
    BY <1>2, <2>0
  <2>2. pc'[MC] \notin {"free_id", "mark", "detach_unref"}
    BY <1>4
  <2>3. ~Attached(p)'
    BY <2>1, <2>2 DEF Attached
  <2> QED
    BY <1>3, <2>3 DEF RefA
<1>8. /\ TableInv' /\ Covered' /\ peer' \in Objects
      /\ peer_list' \in Seq(Peers) /\ hash' \in Seq(Peers)
      /\ wait_on_peer_id' \in Lids \cup {INVALID} /\ wait_delete_comp' \in BOOLEAN
      /\ vdev' \in {"up", "pending", "freed"}
  BY <1>1, <1>2, <1>3, <1>5, <1>6, <1>7, UnrefKeeps
<1>9. StateOK'
  <2>1. /\ msgs' \in Seq([type: {"map", "unmap"}, id: Ids, mac: Macs])
        /\ peer_id_to_obj_map' \in [Ids -> Peers \cup {NoPeer}]
    BY <1>1, MsgTypes, ObjectTypes
  <2> QED
    BY <1>1, <1>2, <1>8, <2>1, ReleaseTypes
<1>10. McInv'
  BY <1>4 DEF McInv, Creating, HasPeer, Leaving, Early, Naming
<1>11. OtherInv'
  BY <1>1, <1>4, OthersSame DEF PeerInv
<1> QED
  BY <1>8, <1>9, <1>10, <1>11 DEF PeerInv

LEMMA ReleaseKeeps ==
  ASSUME PeerInv, NEW u \in Users, ReleasePeer(u)
  PROVE  PeerInv'
<1>0. /\ pc[u] = "release" /\ ol_txrx_peer_unref_delete(cur[u], peer) /\ Leave(u)
      /\ UNCHANGED <<freelist, map, peer_id_to_obj_map, peer_count, cmds, targetIds, msgs>>
  BY DEF ReleasePeer, locals, target
<1>20. PICK p \in Peers : p = cur[u]
  <2>1. cur[u] \in Peers \cup {NoPeer}
    BY ThreadsFinite, ThreadTypes
  <2> QED
    BY <1>0, <2>1 DEF PeerInv, OtherInv
<1>1. /\ pc[u] = "release" /\ ol_txrx_peer_unref_delete(p, peer) /\ Leave(u)
      /\ UNCHANGED <<freelist, map, peer_id_to_obj_map, peer_count, cmds, targetIds, msgs>>
  BY <1>0, <1>20
<1>2. u \in Threads /\ u \in Threads \ {MC} /\ MC \in Threads \ {u} /\ got[u] = NoPeer
  BY <1>1, ThreadsFinite DEF PeerInv, OtherInv
<1>3. p \in Peers /\ p = cur[u]
  BY <1>20
<1>4. Live(p) /\ ~Raw(p)
  BY <1>2, <1>3, ObjectTypes DEF PeerInv, TableInv, NoDangling, FreshInv, Raw, Early
<1>5. /\ pc'[u] = "idle" /\ cur'[u] = NoPeer /\ got'[u] = NoPeer
      /\ cur' = [cur EXCEPT ![u] = NoPeer]
      /\ \A s \in Threads \ {u} : /\ pc'[s] = pc[s] /\ cur'[s] = cur[s] /\ got'[s] = got[s]
                                  /\ mac'[s] = mac[s]
  BY <1>1, <1>2, ThreadTypes DEF Leave, Goto
<1>6. PointersDropped(p)
  BY <1>1, <1>2, <1>3, <1>5 DEF PointersDropped
<1>7. RefC(p)' < RefC(p)
  <2>1. RefC(p)' = RefC(p) - (IF cur[u] = p THEN 1 ELSE 0) + (IF NoPeer = p THEN 1 ELSE 0)
    <3>1. u \in Threads \ {MC} /\ cur' = [cur EXCEPT ![u] = NoPeer]
      BY <1>2, <1>5
    <3> QED
      BY <3>1, CurMoves, Zenon
  <2>2. RefC(p) \in Nat /\ NoPeer # p
    BY <1>3, RefParts, ObjectTypes
  <2> QED
    BY <1>3, <2>1, <2>2
<1>13. Unheld(p)
  BY <1>7 DEF Unheld
<1>8. peer[p].ref_cnt >= 1
  BY <1>2, <1>3, <1>4, HeldCount
<1>9. /\ TableInv' /\ Covered' /\ peer' \in Objects
      /\ peer_list' \in Seq(Peers) /\ hash' \in Seq(Peers)
      /\ wait_on_peer_id' \in Lids \cup {INVALID} /\ wait_delete_comp' \in BOOLEAN
      /\ vdev' \in {"up", "pending", "freed"} /\ (vdev = "up" => vdev' = "up")
      /\ \A q \in Peers : peer'[q].valid = peer[q].valid
  BY <1>1, <1>3, <1>4, <1>6, <1>13, <1>8, UnrefKeeps
<1>10. StateOK'
  <2>1. /\ msgs' \in Seq([type: {"map", "unmap"}, id: Ids, mac: Macs])
        /\ peer_id_to_obj_map' \in [Ids -> Peers \cup {NoPeer}]
    BY <1>1, MsgTypes, ObjectTypes
  <2> QED
    BY <1>1, <1>2, <1>9, <2>1, ReleaseTypes
<1>11. McInv'
  BY <1>1, <1>2, <1>5, <1>9, McSame
<1>12. OtherInv'
  BY <1>1, <1>5, UserInv DEF PeerInv
<1> QED
  BY <1>9, <1>10, <1>11, <1>12 DEF PeerInv

LEMMA HeadMsg ==
  ASSUME PeerInv, msgs # <<>>
  PROVE  /\ Head(msgs).id \in Ids
         /\ Tail(msgs) \in Seq([type: {"map", "unmap"}, id: Ids, mac: Macs])
<1> DEFINE M == [type: {"map", "unmap"}, id: Ids, mac: Macs]
<1>1. msgs \in Seq(M) /\ msgs # <<>>
  BY MsgTypes
<1>2. Head(msgs) \in M /\ Tail(msgs) \in Seq(M)
  <2> HIDE DEF M
  <2> QED
    BY <1>1
<1> QED
  BY <1>2

LEMMA UnmapKeeps ==
  ASSUME PeerInv, ol_rx_peer_unmap_handler
  PROVE  PeerInv'
<1> DEFINE h == Head(msgs).id
<1>0. /\ pc[Tasklet] = "idle" /\ msgs # <<>> /\ msgs' = Tail(msgs)
      /\ peer_id_to_obj_map' = [peer_id_to_obj_map EXCEPT ![h] = NoPeer]
      /\ IF peer_id_to_obj_map[h] = NoPeer
           THEN UNCHANGED <<peer, peer_list, hash, wait_on_peer_id, wait_delete_comp, vdev>>
           ELSE ol_txrx_peer_unref_delete(peer_id_to_obj_map[h], peer)
      /\ UNCHANGED <<pc, cur, got, mac, freelist, map, peer_count, cmds, targetIds>>
  BY DEF ol_rx_peer_unmap_handler, threads, tables, locals
<1>21. PICK id \in Ids : id = h
  BY <1>0, HeadMsg
<1>22. PICK p \in Peers \cup {NoPeer} : p = peer_id_to_obj_map[id]
  BY ObjectTypes
<1>1. /\ pc[Tasklet] = "idle" /\ msgs # <<>> /\ msgs' = Tail(msgs)
      /\ peer_id_to_obj_map' = [peer_id_to_obj_map EXCEPT ![id] = NoPeer]
      /\ IF p = NoPeer
           THEN UNCHANGED <<peer, peer_list, hash, wait_on_peer_id, wait_delete_comp, vdev>>
           ELSE ol_txrx_peer_unref_delete(p, peer)
      /\ UNCHANGED <<pc, cur, got, mac, freelist, map, peer_count, cmds, targetIds>>
  BY <1>0, <1>21, <1>22
<1>2. id \in Ids /\ msgs' \in Seq([type: {"map", "unmap"}, id: Ids, mac: Macs])
  BY <1>1, HeadMsg
<1>3. /\ peer_id_to_obj_map' \in [Ids -> Peers \cup {NoPeer}] /\ peer_id_to_obj_map'[id] = NoPeer
      /\ \A i \in Ids \ {id} : peer_id_to_obj_map'[i] = peer_id_to_obj_map[i]
      /\ p = peer_id_to_obj_map[id]
  BY <1>1, <1>2, <1>22, ObjectTypes
<1>4. OtherInv'
  BY <1>1 DEF PeerInv, OtherInv
<1>5. CASE p = NoPeer
  <2>1. peer_id_to_obj_map' = peer_id_to_obj_map
    BY <1>1, <1>2, <1>3, <1>5, ObjectTypes
  <2>2. StateOK'
    BY <1>1, <1>2, <1>5, <2>1 DEF PeerInv, StateOK
  <2>3. McInv'
    BY <1>1, <1>5, McSame
  <2>4. TableInv' /\ Covered'
    BY <1>1, <1>5, <2>1, QuietTables
  <2> QED
    BY <1>4, <2>2, <2>3, <2>4 DEF PeerInv
<1>6. CASE p # NoPeer
  <2>1. p \in Peers /\ ol_txrx_peer_unref_delete(p, peer)
    BY <1>1, <1>6
  <2>2. Live(p) /\ ~Raw(p) /\ peer[p].peer_ids # <<>>
    BY <1>2, <1>3, <1>6 DEF PeerInv, TableInv, NoDangling, FreshInv, MapInv, Raw, Early
  <2>3. PointersDropped(p)
    BY <1>1, <1>3 DEF PointersDropped
  <2>4. Unheld(p)
    <3>0. SUFFICES ASSUME peer'[p].peer_ids = peer[p].peer_ids
                   PROVE  RefI(p)' < RefI(p)
      BY DEF Unheld
    <3> DEFINE m == peer_id_to_obj_map
               k == Cardinality(Holders(m, Ids, p))
               l == Cardinality(Holders(m', Ids, p))
    <3>1. IsFiniteSet(Ids) /\ \A i \in Ids \ {id} : m'[i] = m[i]
      BY <1>3, ThreadsFinite
    <3>2. l = k + Change(m, m', id, p)
      BY <1>2, <3>1, HolderStep, SMT
    <3>3. k \in Nat
      BY <3>1, HolderNat
    <3>4. m[id] = p /\ m'[id] # p
      BY <1>3, <1>6
    <3>5. RefI(p) = k /\ RefI(p)' = l
      <4>1. peer'[p].peer_ids # <<>>
        BY <2>2, <3>0
      <4>2. RefI(p) = k
        BY <2>2 DEF RefI
      <4>3. RefI(p)' = l
        BY <4>1 DEF RefI
      <4> QED
        BY <4>2, <4>3
    <3> HIDE DEF k, l
    <3> QED
      BY <3>2, <3>3, <3>4, <3>5 DEF Change
  <2>5. peer[p].ref_cnt >= 1
    BY <1>2, <1>3, <2>1, <2>2, HeldCount
  <2>6. /\ TableInv' /\ Covered' /\ peer' \in Objects
        /\ peer_list' \in Seq(Peers) /\ hash' \in Seq(Peers)
        /\ wait_on_peer_id' \in Lids \cup {INVALID} /\ wait_delete_comp' \in BOOLEAN
        /\ vdev' \in {"up", "pending", "freed"} /\ (vdev = "up" => vdev' = "up")
        /\ \A q \in Peers : peer'[q].valid = peer[q].valid
    BY <2>1, <2>2, <2>3, <2>4, <2>5, UnrefKeeps
  <2>7. StateOK'
    BY <1>1, <1>2, <1>3, <2>6 DEF PeerInv, StateOK, Objects, PeerRec
  <2>8. McInv'
    BY <1>1, <2>6, McSame
  <2> QED
    BY <1>4, <2>6, <2>7, <2>8 DEF PeerInv
<1> QED
  BY <1>5, <1>6


(* What MapAddId does to the objects: one ID more for p, and for the first *)
(* of its IDs one reference less, which is never the last.                 *)
Mapped(p, r) ==
    /\ peer' \in Objects
    /\ \A q \in Peers : q # p => peer'[q] = peer[q]
    /\ \A q \in Peers : peer'[q].mem = peer[q].mem /\ peer'[q].mac = peer[q].mac
    /\ \A q \in Peers : peer'[q].valid = peer[q].valid
    /\ \A q \in Peers : peer'[q].local_id = peer[q].local_id
    /\ peer'[p].peer_ids # <<>> /\ peer'[p].ref_cnt = r

LEMMA RefAfter ==
  ASSUME NEW o \in Objects, NEW p \in Peers, NEW r \in Nat, peer' = PutRef(o, p, r)
  PROVE  /\ peer' \in Objects /\ peer'[p].ref_cnt = r
         /\ \A q \in Peers : q # p => peer'[q] = o[q]
         /\ \A q \in Peers : peer'[q].mem = o[q].mem /\ peer'[q].mac = o[q].mac /\ peer'[q].local_id = o[q].local_id
         /\ \A q \in Peers : peer'[q].peer_ids = o[q].peer_ids
         /\ \A q \in Peers : peer'[q].valid = o[q].valid
<1> DEFINE g == PutRef(o, p, r)
<1>1. /\ g \in Objects /\ g[p].ref_cnt = r
      /\ \A q \in Peers : q # p => g[q] = o[q]
      /\ \A q \in Peers : g[q].mem = o[q].mem /\ g[q].mac = o[q].mac /\ g[q].local_id = o[q].local_id
      /\ \A q \in Peers : g[q].peer_ids = o[q].peer_ids
      /\ \A q \in Peers : g[q].valid = o[q].valid
  BY SetRef
<1>2. peer' = g
  OBVIOUS
<1> HIDE DEF g
<1> QED
  BY <1>1, <1>2

LEMMA MapAddObjects ==
  ASSUME PeerInv, MapAddId, NEW p \in Peers, p = cur[Tasklet], NEW id \in Ids, id = Head(msgs).id,
         NEW r, r = IF peer[p].peer_ids = <<>> THEN peer[p].ref_cnt - 1 ELSE peer[p].ref_cnt,
         Live(p), ~Raw(p)
  PROVE  /\ Mapped(p, r) /\ r \in Nat
         /\ UNCHANGED <<peer_list, hash, wait_on_peer_id, wait_delete_comp, vdev>>
<1> DEFINE x == Append(peer[p].peer_ids, id)
           o == PutIds(peer, p, x)
           c == peer[p].ref_cnt
<1>1. /\ peer \in Objects /\ c \in Nat /\ peer[p].peer_ids \in Seq(Ids)
  BY ObjectTypes DEF Objects, PeerRec
<1>2. x \in Seq(Ids) /\ x # <<>>
  <2> DEFINE y == peer[p].peer_ids
  <2>1. y \in Seq(Ids)
    BY <1>1
  <2> HIDE DEF y
  <2>2. Append(y, id) \in Seq(Ids) /\ Append(y, id) # <<>>
    BY <2>1
  <2> QED
    BY <2>2 DEF y
<1>3. [peer EXCEPT ![p].peer_ids = Append(@, id)] = o
  BY <1>1 DEF PutIds, Objects, PeerRec
<1>4. IF peer[p].peer_ids = <<>> THEN ol_txrx_peer_unref_delete(p, o)
                                 ELSE peer' = o /\ UNCHANGED tables
  BY <1>3 DEF MapAddId
<1> HIDE DEF x
<1>5. /\ o \in Objects /\ o[p].peer_ids = x /\ o[p].ref_cnt = c
      /\ \A q \in Peers : q # p => o[q] = peer[q]
      /\ \A q \in Peers : o[q].mem = peer[q].mem /\ o[q].mac = peer[q].mac /\ o[q].local_id = peer[q].local_id
  BY <1>1, <1>2, SetIds
<1>6. \A q \in Peers : o[q].valid = peer[q].valid
  BY <1>1, <1>2, SetIds
<1> HIDE DEF o
<1>7. CASE peer[p].peer_ids # <<>>
  <2>1. peer' = o /\ r = c
    BY <1>4, <1>7
  <2>2. UNCHANGED <<peer_list, hash, wait_on_peer_id, wait_delete_comp, vdev>>
    BY <1>4, <1>7 DEF tables
  <2>3. \A q \in Peers : peer'[q].valid = peer[q].valid
    BY <1>6, <2>1
  <2>4. /\ peer' \in Objects /\ peer'[p].peer_ids # <<>> /\ peer'[p].ref_cnt = r
        /\ \A q \in Peers : q # p => peer'[q] = peer[q]
        /\ \A q \in Peers : peer'[q].mem = peer[q].mem /\ peer'[q].mac = peer[q].mac /\ peer'[q].local_id = peer[q].local_id
    BY SMTT(30), <1>2, <1>5, <2>1
  <2> QED
    BY <1>1, <2>1, <2>2, <2>3, <2>4 DEF Mapped
<1>8. CASE peer[p].peer_ids = <<>>
  <2>1. c >= 2
    <3>1. Tasklet \in Threads \ {MC}
      BY ThreadsFinite
    <3>2. RefI(p) = 1 /\ RefC(p) >= 1
      BY <1>8, <3>1, RefHeld
    <3>3. c >= References(p)
      BY DEF PeerInv, Covered
    <3>4. /\ References(p) = RefA(p) + RefI(p) + RefG(p) + RefC(p)
          /\ RefA(p) \in Nat /\ RefI(p) \in Nat /\ RefG(p) \in Nat /\ RefC(p) \in Nat
      BY RefParts
    <3> HIDE DEF c
    <3> QED
      BY <1>1, <3>2, <3>3, <3>4
  <2>2. r = c - 1 /\ r \in Nat
    BY <1>1, <1>8, <2>1
  <2>3. peer' = PutRef(o, p, r) /\ UNCHANGED tables
    <3>1. ol_txrx_peer_unref_delete(p, o) /\ o[p].ref_cnt # 1 /\ o[p].ref_cnt # 0
      BY <1>4, <1>5, <1>8, <2>1
    <3>2. peer' = [o EXCEPT ![p].ref_cnt = o[p].ref_cnt - 1] /\ UNCHANGED tables
      BY <1>5, <3>1 DEF ol_txrx_peer_unref_delete, Objects, PeerRec
    <3> QED
      BY <1>5, <2>2, <3>2 DEF PutRef
  <2>4. /\ peer' \in Objects /\ peer'[p].ref_cnt = r
        /\ \A q \in Peers : q # p => peer'[q] = o[q]
        /\ \A q \in Peers : peer'[q].mem = o[q].mem /\ peer'[q].mac = o[q].mac /\ peer'[q].local_id = o[q].local_id
        /\ \A q \in Peers : peer'[q].peer_ids = o[q].peer_ids
    <3>1. o \in Objects /\ r \in Nat /\ p \in Peers /\ peer' = PutRef(o, p, r)
      BY SMTT(30), <1>5, <2>2, <2>3
    <3> QED
      BY <3>1, RefAfter
  <2>5. \A q \in Peers : peer'[q].valid = o[q].valid
    <3>1. o \in Objects /\ r \in Nat /\ p \in Peers /\ peer' = PutRef(o, p, r)
      BY <1>5, <2>2, <2>3
    <3> QED
      BY <3>1, RefAfter
  <2>6. \A q \in Peers : peer'[q].valid = peer[q].valid
    BY <1>6, <2>5
  <2>7. /\ peer'[p].peer_ids # <<>>
        /\ \A q \in Peers : q # p => peer'[q] = peer[q]
        /\ \A q \in Peers : peer'[q].mem = peer[q].mem /\ peer'[q].mac = peer[q].mac /\ peer'[q].local_id = peer[q].local_id
    BY <1>2, <1>5, <2>4
  <2> QED
    BY <2>2, <2>3, <2>4, <2>6, <2>7 DEF Mapped, tables
<1> QED
  BY <1>7, <1>8

LEMMA IdStep ==
  ASSUME NEW id \in Ids, NEW q,
         \A i \in Ids \ {id} : peer_id_to_obj_map'[i] = peer_id_to_obj_map[i]
  PROVE  Cardinality(Holders(peer_id_to_obj_map', Ids, q))
           = Cardinality(Holders(peer_id_to_obj_map, Ids, q))
             + Change(peer_id_to_obj_map, peer_id_to_obj_map', id, q)
<1>1. IsFiniteSet(Ids)
  BY ThreadsFinite
<1> QED
  BY <1>1, HolderStep, SMT

LEMMA TaskletDrops ==
  ASSUME PeerInv, cur' = [cur EXCEPT ![Tasklet] = NoPeer]
  PROVE  \A q : RefC(q)' = RefC(q) - (IF cur[Tasklet] = q THEN 1 ELSE 0)
                                   + (IF NoPeer = q THEN 1 ELSE 0)
<1>1. Tasklet \in Threads \ {MC}
  BY ThreadsFinite
<1> QED
  BY <1>1, CurMoves, Zenon

LEMMA MapAddCovered ==
  ASSUME PeerInv, NEW p \in Peers, p = cur[Tasklet], NEW id \in Ids, NEW r \in Nat,
         r = IF peer[p].peer_ids = <<>> THEN peer[p].ref_cnt - 1 ELSE peer[p].ref_cnt,
         Mapped(p, r), Live(p), ~Raw(p), cur' = [cur EXCEPT ![Tasklet] = NoPeer],
         \A t \in Threads : got'[t] = got[t], pc'[MC] = pc[MC],
         peer_id_to_obj_map' = [peer_id_to_obj_map EXCEPT ![id] = p]
  PROVE  Covered'
<1> DEFINE m == peer_id_to_obj_map
<1>1. /\ IsFiniteSet(Ids) /\ m \in [Ids -> Peers \cup {NoPeer}]
      /\ peer \in Objects /\ peer' \in Objects
      /\ \A q \in Peers : peer[q].ref_cnt \in Nat /\ peer'[q].ref_cnt \in Nat
  BY ThreadsFinite, ObjectTypes DEF Mapped, Objects, PeerRec
<1>2. m'[id] = p /\ \A i \in Ids \ {id} : m'[i] = m[i]
  BY <1>1
<1>3. Tasklet \in Threads \ {MC} /\ cur'[MC] = cur[MC]
  BY ThreadsFinite, ThreadTypes
<1>30. \A q : RefC(q)' = RefC(q) - (IF cur[Tasklet] = q THEN 1 ELSE 0)
                                + (IF NoPeer = q THEN 1 ELSE 0)
  BY TaskletDrops
<1> SUFFICES ASSUME NEW q \in Peers, Live(q)', ~Raw(q)'
      PROVE  /\ Live(q) /\ ~Raw(q) /\ peer'[q].ref_cnt \in Nat /\ peer[q].ref_cnt \in Nat
             /\ RefA(q)' + RefI(q)' + RefG(q)' + RefC(q)' + peer[q].ref_cnt
                  <= RefA(q) + RefI(q) + RefG(q) + RefC(q) + peer'[q].ref_cnt
  BY CoveredBy DEF PeerInv
<1>4. Live(q) /\ ~Raw(q)
  BY <1>3 DEF Live, Raw, Mapped
<1>5. RefA(q)' = RefA(q)
  <2>1. peer'[q].valid = peer[q].valid
    BY DEF Mapped
  <2>2. Attached(q)' = Attached(q)
    BY <1>3, <2>1 DEF Attached
  <2> QED
    BY <2>2 DEF RefA
<1>6. RefG(q)' = RefG(q)
  <2>1. Holders(got', Threads, q) = Holders(got, Threads, q)
    BY DEF Holders
  <2> QED
    BY <2>1 DEF RefG
<1>7. RefC(q)' = RefC(q) - (IF p = q THEN 1 ELSE 0)
  <2>1. RefC(q)' = RefC(q) - (IF cur[Tasklet] = q THEN 1 ELSE 0) + (IF NoPeer = q THEN 1 ELSE 0)
    BY <1>30
  <2>2. NoPeer # q /\ RefC(q) \in Nat
    BY ObjectTypes, RefParts
  <2> QED
    BY <2>1, <2>2
<1>8. /\ RefA(q) \in Nat /\ RefI(q) \in Nat /\ RefG(q) \in Nat /\ RefC(q) \in Nat
      /\ RefA(q)' \in Nat /\ RefI(q)' \in Nat /\ RefG(q)' \in Nat /\ RefC(q)' \in Nat
  BY RefParts, RefPartsNext
<1> DEFINE k == Cardinality(Holders(m, Ids, q))
           l == Cardinality(Holders(m', Ids, q))
           c == peer[q].ref_cnt
           d == peer'[q].ref_cnt
<1>9. l = k + Change(m, m', id, q)
  BY <1>2, IdStep
<1>10. k \in Nat /\ l \in Nat /\ c \in Nat /\ d \in Nat
  BY <1>1, HolderNat
<1>11. CASE q # p
  <2>1. peer'[q] = peer[q]
    BY <1>11 DEF Mapped
  <2>2. l <= k
    <3>1. Change(m, m', id, q) <= 0
      BY <1>2, <1>11 DEF Change
    <3>2. Change(m, m', id, q) \in Int
      BY DEF Change
    <3> HIDE DEF k, l
    <3> QED
      BY <1>9, <1>10, <3>1, <3>2
  <2>3. RefI(q)' <= RefI(q)
    <3>1. RefI(q) = IF peer[q].peer_ids = <<>> THEN 1 ELSE k
      BY DEF RefI
    <3>2. RefI(q)' = IF peer[q].peer_ids = <<>> THEN 1 ELSE l
      BY <2>1 DEF RefI
    <3> HIDE DEF k, l
    <3> QED
      BY <1>10, <2>2, <3>1, <3>2
  <2>4. d = c
    BY <2>1
  <2>5. RefC(q)' = RefC(q)
    BY <1>7, <1>8, <1>11
  <2> HIDE DEF c, d, k, l
  <2>6. RefA(q)' + RefI(q)' + RefG(q)' + RefC(q)' + c <= RefA(q) + RefI(q) + RefG(q) + RefC(q) + d
    BY <1>5, <1>6, <1>8, <1>10, <2>3, <2>4, <2>5
  <2> QED
    BY <1>4, <1>10, <2>6 DEF c, d
<1>12. CASE q = p
  <2>1. l <= k + 1
    <3>1. Change(m, m', id, q) <= 1
      BY DEF Change
    <3>2. Change(m, m', id, q) \in Int
      BY DEF Change
    <3> HIDE DEF k, l
    <3> QED
      BY <1>9, <1>10, <3>1, <3>2
  <2>2. d = r /\ peer'[q].peer_ids # <<>>
    BY <1>12 DEF Mapped
  <2>3. RefI(q)' = l
    BY <2>2 DEF RefI
  <2>4. RefC(q)' = RefC(q) - 1
    BY <1>7, <1>12
  <2>5. CASE peer[q].peer_ids = <<>>
    <3>1. k = 0
      <4>1. \A i \in Ids : m[i] # q
        <5>1. NoPeer # q
          BY ObjectTypes
        <5> QED
          BY <2>5, <5>1 DEF PeerInv, TableInv, MapInv
      <4> QED
        BY <4>1, NoHolders
    <3>2. RefI(q) = 1
      BY <2>5 DEF RefI
    <3>3. d = c - 1
      BY <1>12, <2>2, <2>5
    <3> HIDE DEF c, d, k, l
    <3>4. RefA(q)' + RefI(q)' + RefG(q)' + RefC(q)' + c <= RefA(q) + RefI(q) + RefG(q) + RefC(q) + d
      BY <1>5, <1>6, <1>8, <1>10, <2>1, <2>3, <2>4, <3>1, <3>2, <3>3
    <3> QED
      BY <1>4, <1>10, <3>4 DEF c, d
  <2>6. CASE peer[q].peer_ids # <<>>
    <3>1. RefI(q) = k
      BY <2>6 DEF RefI
    <3>2. d = c
      BY <1>12, <2>2, <2>6
    <3> HIDE DEF c, d, k, l
    <3>3. RefA(q)' + RefI(q)' + RefG(q)' + RefC(q)' + c <= RefA(q) + RefI(q) + RefG(q) + RefC(q) + d
      BY <1>5, <1>6, <1>8, <1>10, <2>1, <2>3, <2>4, <3>1, <3>2
    <3> QED
      BY <1>4, <1>10, <3>3 DEF c, d
  <2> QED
    BY <2>5, <2>6
<1> QED
  BY <1>11, <1>12

LEMMA MapAddKeeps ==
  ASSUME PeerInv, MapAddId
  PROVE  PeerInv'
<1>1. /\ pc[Tasklet] = "map" /\ msgs' = Tail(msgs) /\ Leave(Tasklet)
      /\ peer_id_to_obj_map' = [peer_id_to_obj_map EXCEPT ![Head(msgs).id] = cur[Tasklet]]
      /\ UNCHANGED <<freelist, map, peer_count, cmds, targetIds>>
  BY DEF MapAddId, locals
<1>2. Tasklet \in Threads /\ Tasklet \in Threads \ {MC} /\ MC \in Threads \ {Tasklet}
  BY ThreadsFinite
<1>3. PICK p \in Peers : p = cur[Tasklet]
  <2>1. cur[Tasklet] \in Peers \cup {NoPeer}
    BY <1>2, ThreadTypes
  <2> QED
    BY <1>1, <2>1 DEF PeerInv, OtherInv
<1>4. PICK id \in Ids : id = Head(msgs).id
  BY <1>1, HeadMsg DEF PeerInv, OtherInv
<1>5. msgs' \in Seq([type: {"map", "unmap"}, id: Ids, mac: Macs])
  BY <1>1, HeadMsg DEF PeerInv, OtherInv
<1>6. PICK r : r = IF peer[p].peer_ids = <<>> THEN peer[p].ref_cnt - 1 ELSE peer[p].ref_cnt
  OBVIOUS
<1>7. Live(p) /\ ~Raw(p)
  BY <1>2, <1>3, ObjectTypes DEF PeerInv, TableInv, NoDangling, FreshInv, Raw, Early
<1>8. /\ Mapped(p, r) /\ r \in Nat
      /\ UNCHANGED <<peer_list, hash, wait_on_peer_id, wait_delete_comp, vdev>>
  BY <1>3, <1>4, <1>6, <1>7, MapAddObjects
<1>9. /\ peer_id_to_obj_map' = [peer_id_to_obj_map EXCEPT ![id] = p]
      /\ peer_id_to_obj_map' \in [Ids -> Peers \cup {NoPeer}] /\ peer_id_to_obj_map'[id] = p
      /\ \A i \in Ids \ {id} : peer_id_to_obj_map'[i] = peer_id_to_obj_map[i]
  BY <1>1, <1>3, <1>4, ObjectTypes
<1>10. /\ StateOK' /\ pc'[Tasklet] = "idle" /\ cur'[Tasklet] = NoPeer /\ got'[Tasklet] = NoPeer
       /\ \A s \in Threads \ {Tasklet} : /\ pc'[s] = pc[s] /\ cur'[s] = cur[s]
                                         /\ got'[s] = got[s] /\ mac'[s] = mac[s]
  <2>1. /\ peer' \in Objects /\ peer_list' \in Seq(Peers) /\ hash' \in Seq(Peers)
        /\ wait_on_peer_id' \in Lids \cup {INVALID} /\ wait_delete_comp' \in BOOLEAN
        /\ vdev' \in {"up", "pending", "freed"}
    BY <1>8, ObjectTypes, ThreadTypes DEF Mapped
  <2> QED
    BY <1>1, <1>2, <1>5, <1>9, <2>1, ReleaseTypes
<1>11. McInv'
  <2>1. \A q \in Peers : peer'[q].valid = peer[q].valid
    BY <1>8 DEF Mapped
  <2> QED
    BY <1>1, <1>2, <1>8, <1>10, <2>1, McSame
<1>12. OtherInv'
  <2>1. \A u \in Users : u \in Threads \ {Tasklet}
    BY ThreadsFinite
  <2> QED
    BY <1>10, <2>1 DEF PeerInv, OtherInv
<1>13. Covered'
  <2>1. /\ cur' = [cur EXCEPT ![Tasklet] = NoPeer] /\ pc'[MC] = pc[MC]
        /\ \A t \in Threads : got'[t] = got[t]
    BY <1>1, <1>2, <1>10 DEF Leave, PeerInv, OtherInv
  <2> QED
    BY <1>3, <1>6, <1>7, <1>8, <1>9, <2>1, MapAddCovered
<1>14. \A q \in Peers : Live(q)' <=> Live(q)
  BY <1>8 DEF Live, Mapped
<1>15. /\ \A i \in Lids : map[i] # NoPeer => map[i] \in Peers
       /\ \A i \in Ids : peer_id_to_obj_map[i] # NoPeer => peer_id_to_obj_map[i] \in Peers
       /\ NoPeer \notin Peers
  BY ObjectTypes
<1>16. FreshInv'
  <2>1. pc'[MC] = pc[MC] /\ cur'[MC] = cur[MC] /\ hash' = hash /\ map' = map
    BY <1>1, <1>2, <1>8, <1>10
  <2>2. pc[MC] \in Early => cur[MC] \in Peers /\ p # cur[MC]
    BY <1>2, <1>3 DEF PeerInv, McInv, TableInv, FreshInv, Early, HasPeer
  <2> QED
    BY <1>9, <1>10, <1>15, <2>1, <2>2 DEF PeerInv, TableInv, FreshInv
<1>17. ListInv'
  BY <1>2, <1>8, <1>10, <1>14 DEF PeerInv, TableInv, ListInv
<1>18. MapInv'
  <2>0. \A q \in Peers : peer'[q].valid = peer[q].valid
    BY <1>8 DEF Mapped
  <2>1. \A q \in Peers : peer'[q].valid => Live(q)'
    BY <1>14, <2>0 DEF PeerInv, TableInv, MapInv
  <2>2. ASSUME NEW i \in Lids, map[i] # NoPeer
        PROVE  /\ peer'[map[i]].local_id = i
               /\ \/ peer'[map[i]].valid
                  \/ pc'[MC] = "free_id" /\ cur'[MC] = map[i]
    <3>1. map[i] \in Peers
      BY <1>15, <2>2
    <3>2. peer'[map[i]].local_id = i
      BY <1>8, <2>2, <3>1 DEF PeerInv, TableInv, MapInv, Mapped
    <3>3. \/ peer'[map[i]].valid
          \/ pc'[MC] = "free_id" /\ cur'[MC] = map[i]
      BY <1>2, <1>10, <2>0, <2>2, <3>1 DEF PeerInv, TableInv, MapInv
    <3> QED
      BY <3>2, <3>3
  <2>3. \A i \in Ids : peer_id_to_obj_map'[i] # NoPeer =>
                         peer'[peer_id_to_obj_map'[i]].peer_ids # <<>>
    <3>1. \A q \in Peers : peer[q].peer_ids # <<>> => peer'[q].peer_ids # <<>>
      BY <1>8 DEF Mapped
    <3>2. peer'[p].peer_ids # <<>>
      BY <1>8 DEF Mapped
    <3> QED
      BY <1>9, <1>15, <3>1, <3>2 DEF PeerInv, TableInv, MapInv
  <2>4. map' = map
    BY <1>1
  <2> QED
    BY <2>1, <2>2, <2>3, <2>4 DEF MapInv
<1>19. NoDangling'
  <2>0. \A q \in Peers : Live(q) => peer'[q].mem = "live"
    BY <1>14 DEF Live
  <2>1. \A q \in ToSet(hash) \cup ToSet(peer_list) : peer'[q].mem = "live"
    BY <2>0, ObjectTypes DEF PeerInv, TableInv, NoDangling
  <2>2. \A t \in Threads : /\ cur'[t] # NoPeer => peer'[cur'[t]].mem = "live"
                           /\ got'[t] # NoPeer => peer'[got'[t]].mem = "live"
    <3>1. \A t \in Threads : cur[t] \in Peers \cup {NoPeer} /\ got[t] \in Peers \cup {NoPeer}
      BY ThreadTypes
    <3> QED
      BY <1>10, <2>0, <3>1 DEF PeerInv, TableInv, NoDangling
  <2>3. \A i \in Ids : peer_id_to_obj_map'[i] # NoPeer => peer'[peer_id_to_obj_map'[i]].mem = "live"
    BY <1>7, <1>9, <1>15, <2>0 DEF PeerInv, TableInv, NoDangling
  <2>4. \A i \in Lids : map[i] # NoPeer => peer'[map[i]].mem = "live"
    BY <1>15, <2>0 DEF PeerInv, TableInv, NoDangling
  <2> QED
    BY <1>1, <1>8, <2>1, <2>2, <2>3, <2>4 DEF NoDangling, Live
<1> QED
  BY <1>10, <1>11, <1>12, <1>13, <1>16, <1>17, <1>18, <1>19 DEF PeerInv, TableInv

-----------------------------------------------------------------------------
(* The invariant of the specification                                      *)

LEMMA InitPeerInv ==
  ASSUME Init
  PROVE  PeerInv
<1>1. MC \in Threads /\ Tasklet \in Threads /\ Users \subseteq Threads
  BY ThreadsFinite
<1>2. /\ \A t \in Threads : pc[t] = "idle" /\ cur[t] = NoPeer /\ got[t] = NoPeer /\ mac[t] = NoMac
      /\ \A p \in Peers : peer[p] = Zeroed
      /\ peer_list = <<>> /\ hash = <<>> /\ vdev = "up" /\ msgs = <<>> /\ cmds = <<>>
      /\ \A i \in Lids : map[i] = NoPeer
      /\ \A i \in Ids : peer_id_to_obj_map[i] = NoPeer
  BY DEF Init
<1>3. \A p \in Peers : peer[p].mem = "none" /\ ~peer[p].valid /\ peer[p].ref_cnt = 0
  BY <1>2 DEF Zeroed
<1>4. StateOK
  <2>1. /\ pc \in [Threads -> Steps] /\ cur \in [Threads -> Peers \cup {NoPeer}]
        /\ got \in [Threads -> Peers \cup {NoPeer}] /\ mac \in [Threads -> Macs \cup {NoMac}]
    BY DEF Init, Steps
  <2>2. Zeroed \in PeerRec
    BY PeerAssumption DEF Zeroed, PeerRec, Lids, INVALID
  <2>3. peer \in Objects
    BY <2>2 DEF Init, Objects
  <2>4. freelist \in Seq(Lids)
    <3>1. \A i \in 1..LocalIds : i - 1 \in Lids
      BY PeerAssumption DEF Lids
    <3>2. freelist \in [1..LocalIds -> Lids]
      BY <3>1 DEF Init
    <3> QED
      BY <3>2, PeerAssumption DEF Seq
  <2>5. /\ map \in [Lids -> Peers \cup {NoPeer}]
        /\ peer_id_to_obj_map \in [Ids -> Peers \cup {NoPeer}]
    BY DEF Init
  <2>7. /\ peer_count \in 0..num_peers /\ wait_on_peer_id \in Lids \cup {INVALID}
        /\ vdev \in {"up", "pending", "freed"}
    BY PeerAssumption DEF Init
  <2>9. wait_delete_comp \in BOOLEAN
    BY DEF Init
  <2>8. targetIds \in [Macs -> Seq(Ids)]
    <3>1. <<>> \in Seq(Ids)
      OBVIOUS
    <3> QED
      BY <3>1 DEF Init
  <2>6. /\ cmds \in Seq([type: {"create", "delete"}, mac: Macs])
        /\ msgs \in Seq([type: {"map", "unmap"}, id: Ids, mac: Macs])
        /\ peer_list \in Seq(Peers) /\ hash \in Seq(Peers)
    BY <1>2
  <2> QED
    BY <2>1, <2>3, <2>4, <2>5, <2>6, <2>7, <2>8, <2>9 DEF StateOK, Objects, PeerRec
<1>5. McInv
  BY <1>1, <1>2 DEF McInv, Creating, Early, Naming, HasPeer, Leaving
<1>6. OtherInv
  BY <1>1, <1>2 DEF OtherInv
<1>7. TableInv
  <2>1. ToSet(hash) = {} /\ ToSet(peer_list) = {} /\ DOMAIN hash = {} /\ DOMAIN peer_list = {}
    BY <1>2 DEF ToSet
  <2>2. FreshInv
    BY <1>1, <1>2 DEF FreshInv, Early, Naming
  <2>3. ListInv
    BY <1>1, <1>2, <1>3, <2>1 DEF ListInv, Once, Live
  <2>4. MapInv
    BY <1>2, <1>3 DEF MapInv
  <2>5. NoDangling
    BY <1>2, <2>1 DEF NoDangling
  <2> QED
    BY <2>2, <2>3, <2>4, <2>5 DEF TableInv
<1>8. Covered
  BY <1>3 DEF Covered, Live
<1> QED
  BY <1>4, <1>5, <1>6, <1>7, <1>8 DEF PeerInv

LEMMA StutterKeeps ==
  ASSUME PeerInv, UNCHANGED vars
  PROVE  PeerInv'
<1>1. UNCHANGED <<pc, cur, got, mac, peer, peer_list, hash, wait_on_peer_id, wait_delete_comp, vdev,
                  freelist, map, peer_id_to_obj_map, peer_count, cmds, targetIds, msgs>>
  BY DEF vars, threads, tables, locals, target
<1>2. StateOK'
  BY <1>1 DEF PeerInv, StateOK
<1>3. McInv' /\ OtherInv'
  BY <1>1 DEF PeerInv, McInv, OtherInv
<1>4. TableInv' /\ Covered'
  BY <1>1, QuietTables
<1> QED
  BY <1>2, <1>3, <1>4 DEF PeerInv

LEMMA PeekKeeps ==
  ASSUME PeerInv, NEW u \in Users, NEW m \in Macs, StartFind(u, m)
  PROVE  PeerInv'
<1>1. /\ pc[u] = "idle" /\ pc' = [pc EXCEPT ![u] = "find"] /\ mac' = [mac EXCEPT ![u] = m]
      /\ UNCHANGED <<cur, got, peer, peer_list, hash, freelist, map, peer_id_to_obj_map,
                     peer_count, vdev, wait_on_peer_id, wait_delete_comp, cmds, targetIds, msgs>>
  BY DEF StartFind, Goto, tables, locals, target
<1>2. \E z \in Macs \cup {NoMac} : mac' = [mac EXCEPT ![u] = z]
  BY <1>1
<1>3. "find" \in UserPlaces \ Between /\ "find" \notin Holding /\ pc[u] \notin Between \cup Holding
  BY <1>1
<1> QED
  BY <1>1, <1>2, <1>3, UserQuiet

LEMMA ChangeKeeps ==
  ASSUME PeerInv, NEW u \in Users, ChangeState(u)
  PROVE  PeerInv'
<1> DEFINE w == IF peer[cur[u]].delete_in_progress THEN "release" ELSE "update"
<1>1. /\ pc[u] = "held" /\ pc' = [pc EXCEPT ![u] = w] /\ mac' = [mac EXCEPT ![u] = peer[cur[u]].mac]
      /\ UNCHANGED <<cur, got, peer, peer_list, hash, freelist, map, peer_id_to_obj_map,
                     peer_count, vdev, wait_on_peer_id, wait_delete_comp, cmds, targetIds, msgs>>
  BY DEF ChangeState, Goto, tables, locals, target
<1>2. cur[u] \in Peers
  <2>1. cur[u] \in Peers \cup {NoPeer}
    BY ThreadsFinite, ThreadTypes
  <2> QED
    BY <1>1, <2>1 DEF PeerInv, OtherInv
<1>3. \E z \in Macs \cup {NoMac} : mac' = [mac EXCEPT ![u] = z]
  <2>1. peer[cur[u]].mac \in Macs \cup {NoMac}
    BY <1>2, ObjectTypes DEF Objects, PeerRec
  <2> QED
    BY <1>1, <2>1
<1>4. w \in UserPlaces \ Between /\ w \in Holding /\ pc[u] \in Holding \ Between
  BY <1>1
<1> HIDE DEF w
<1> QED
  BY <1>1, <1>3, <1>4, UserQuiet

LEMMA NextKeeps ==
  ASSUME PeerInv, [Next]_vars
  PROVE  PeerInv'
<1>1. ASSUME NEW m \in Macs, WmaCreatePeer(m) PROVE PeerInv'
  BY <1>1, StartKeeps
<1>2. ASSUME NEW t \in {MC} \cup Peekers, NEW m \in Macs, StartFind(t, m) PROVE PeerInv'
  <2>1. t = MC \/ t \in Users
    BY PeerAssumption
  <2> QED
    BY <1>2, <2>1, StartKeeps, PeekKeeps
<1>3. CASE ol_txrx_vdev_detach
  BY <1>3, VdevDetachKeeps
<1>4. CASE McStep
  BY <1>4, DuplicateKeeps, WaitKeeps, AllocKeeps, InsertKeeps, InitKeeps, HashAddKeeps,
     LocalIdKeeps, SendKeeps, InvalidateKeeps, FreeIdKeeps, MarkKeeps, DetachKeeps DEF McStep
<1>5. ASSUME NEW t \in {MC} \cup Users, ThreadStep(t) PROVE PeerInv'
  BY <1>5, FindKeeps, DecKeeps, FollowKeeps DEF ThreadStep
<1>6. CASE TargetStep
  BY <1>6, TargetKeeps
<1>7. CASE TaskletStep
  BY <1>7, MapFindKeeps, MapAddKeeps, UnmapKeeps DEF TaskletStep
<1>8. ASSUME NEW u \in Users, NEW i \in Lids, ol_txrx_peer_find_with_ref_by_local_id(u, i)
      PROVE  PeerInv'
  BY <1>8, LocalFindKeeps
<1>9. ASSUME NEW u \in Users, UserStep(u) PROVE PeerInv'
  BY <1>9, ChangeKeeps, ReleaseKeeps DEF UserStep
<1>10. CASE UNCHANGED vars
  BY <1>10, StutterKeeps
<1> QED
  BY <1>1, <1>2, <1>3, <1>4, <1>5, <1>6, <1>7, <1>8, <1>9, <1>10 DEF Next

(* Every reachable state satisfies the invariant: the tables agree with    *)
(* the objects, the threads with the tables, and no count is lower than    *)
(* the references it stands for.                                           *)
THEOREM Invariance == Spec => []PeerInv
<1>1. Init => PeerInv
  BY InitPeerInv
<1>2. PeerInv /\ [Next]_vars => PeerInv'
  BY NextKeeps
<1> QED
  BY <1>1, <1>2, PTL DEF Spec

LEMMA BareKeeps ==
  ASSUME PeerInv, BareOK, [Next]_vars
  PROVE  BareOK'
<1>1. CASE \E t \in {MC} \cup Users : PlainDec(t)
  <2>1. PICK t \in {MC} \cup Users : PlainDec(t)
    BY <1>1
  <2> QED
    BY <2>1, DecMoves DEF BareOK
<1>2. CASE ~ \E t \in {MC} \cup Users : PlainDec(t)
  <2>1. bare' = bare \/ \E t : bare' = [bare EXCEPT ![t] = NoPeer]
    <3>1. CASE McStep
      BY <3>1 DEF McStep, CheckDuplicate, Woken, WaitTimeout, AllocPeer, InsertPeer, InitPeer,
         ol_txrx_peer_find_hash_add, OL_TXRX_LOCAL_PEER_ID_ALLOC, CreateSend, WmaRemovePeer,
         InvalidatePeer, OL_TXRX_LOCAL_PEER_ID_FREE, MarkDeleted, DetachUnref, CreateFailed, Leave
    <3>2. CASE TargetStep \/ TaskletStep \/ ol_txrx_vdev_detach \/ UNCHANGED vars
      BY <3>2 DEF TargetStep, TaskletStep, TargetCreate, TargetDelete, MapFind, MapAddId,
         ol_rx_peer_unmap_handler, ol_txrx_vdev_detach, Leave, vars, threads
    <3>3. ASSUME NEW t \in {MC} \cup Users, ThreadStep(t) PROVE bare' = bare \/ bare' = [bare EXCEPT ![t] = NoPeer]
      BY <1>2, <3>3 DEF ThreadStep, ol_txrx_find_peer_by_addr, FollowBare
    <3>4. ASSUME NEW t, NEW m \in Macs, StartFind(t, m) \/ WmaCreatePeer(m) PROVE bare' = bare
      BY <3>4 DEF StartFind, WmaCreatePeer
    <3>5. ASSUME NEW u \in Users, UserStep(u) PROVE bare' = bare \/ bare' = [bare EXCEPT ![u] = NoPeer]
      BY <3>5 DEF UserStep, ChangeState, ReleasePeer, Leave
    <3>6. ASSUME NEW u \in Users, NEW i \in Lids, ol_txrx_peer_find_with_ref_by_local_id(u, i)
          PROVE  bare' = bare
      BY <3>6 DEF ol_txrx_peer_find_with_ref_by_local_id
    <3> QED
      BY <3>1, <3>2, <3>3, <3>4, <3>5, <3>6 DEF Next
  <2> QED
    BY <2>1 DEF BareOK
<1> QED
  BY <1>1, <1>2

LEMMA BareTypes == Spec => []BareOK
<1>1. Init => BareOK
  BY DEF Init, BareOK
<1>2. PeerInv /\ BareOK /\ [Next]_vars => BareOK'
  BY BareKeeps
<1> QED
  BY <1>1, <1>2, Invariance, PTL DEF Spec

(* Type correctness of the peer model. *)
THEOREM TypeCorrect == Spec => []TypeOK
<1>1. PeerInv /\ BareOK => TypeOK
  BY DEF PeerInv, TypeOK
<1> QED
  BY <1>1, Invariance, BareTypes, PTL

(* No table points to a freed peer, and no thread does through a reference *)
(* it holds or, in WMA's removal, for being the one that detaches, whatever*)
(* is interleaved and whatever the target does with the IDs.  The pointer  *)
(* that ol_txrx_peer_state_update follows without a reference is the       *)
(* subject of StateWritesSafe; a peeker's may well point to a freed peer.  *)
THEOREM PointersSafe == Spec => []NoDangling
<1>1. PeerInv => NoDangling
  BY DEF PeerInv, TableInv
<1> QED
  BY <1>1, Invariance, PTL

-----------------------------------------------------------------------------
(* The vdev and the wait of an attach                                      *)

(* A step that leaves the list, the wait and the names of the peers alone. *)
SameList ==
    /\ UNCHANGED <<peer_list, vdev, wait_on_peer_id, wait_delete_comp>>
    /\ \A q \in Peers : peer'[q].mac = peer[q].mac /\ peer'[q].local_id = peer[q].local_id

Deletes == \E p \in Peers : DeletePeer(p, peer)

LEMMA UnrefLists ==
  ASSUME PeerInv, NEW p \in Peers, ol_txrx_peer_unref_delete(p, peer)
  PROVE  SameList \/ Deletes
<1>1. CASE peer[p].ref_cnt = 1
  BY <1>1 DEF ol_txrx_peer_unref_delete, Deletes
<1>2. CASE peer[p].ref_cnt # 1
  <2> DEFINE x == IF peer[p].ref_cnt = 0 THEN 0 ELSE peer[p].ref_cnt - 1
  <2>1. peer \in Objects /\ peer[p].ref_cnt \in Nat
    BY ObjectTypes DEF Objects, PeerRec
  <2>2. x \in Nat /\ peer' = PutRef(peer, p, x) /\ UNCHANGED tables
    BY <1>2, <2>1 DEF ol_txrx_peer_unref_delete, PutRef
  <2> HIDE DEF x
  <2>3. SameButCount
    BY <2>1, <2>2, CountOnly
  <2> QED
    BY <2>2, <2>3 DEF SameList, SameButCount, tables
<1> QED
  BY <1>1, <1>2

(* Who is not the main controller thread leaves it where it is. *)
LEMMA OtherSteps ==
  ASSUME PeerInv,
         \/ TargetStep \/ TaskletStep
         \/ \E t \in Users : ThreadStep(t) \/ UserStep(t)
         \/ \E u \in Users, m \in Macs : StartFind(u, m)
         \/ \E u \in Users, i \in Lids : ol_txrx_peer_find_with_ref_by_local_id(u, i)
  PROVE  (SameList \/ Deletes) /\ pc'[MC] = pc[MC] /\ mac'[MC] = mac[MC]
<1>0. /\ MC \in Threads /\ Tasklet \in Threads /\ MC # Tasklet
      /\ \A u \in Users : u # MC /\ u \in Threads
      /\ pc \in [Threads -> Steps] /\ mac \in [Threads -> Macs \cup {NoMac}]
  BY SMTT(30), ThreadsFinite, ThreadTypes
<1>1. CASE TargetStep
  BY <1>1 DEF TargetStep, TargetCreate, TargetDelete, SameList, threads, tables
<1>2. CASE MapFind
  <2> DEFINE p == ol_txrx_peer_find_hash_find(Head(msgs).mac, FALSE)
  <2>1. pc'[MC] = pc[MC] /\ mac'[MC] = mac[MC] /\ UNCHANGED tables
    BY <1>0, <1>2 DEF MapFind, Goto
  <2>2. \/ UNCHANGED peer
        \/ p # NoPeer /\ peer' = [peer EXCEPT ![p].ref_cnt = @ + 1]
    BY <1>2 DEF MapFind
  <2>3. p = NoPeer \/ p \in Peers
    <3>1. FALSE \in BOOLEAN /\ peer \in Objects /\ hash \in Seq(Peers)
      BY ObjectTypes
    <3> QED
      BY <3>1, FindFacts
  <2> HIDE DEF p
  <2>4. \A q \in Peers : peer'[q].mac = peer[q].mac /\ peer'[q].local_id = peer[q].local_id
    <3>1. CASE peer' = peer
      BY <3>1
    <3>2. CASE p # NoPeer /\ peer' = [peer EXCEPT ![p].ref_cnt = @ + 1]
      <4> DEFINE x == peer[p].ref_cnt + 1
      <4>1. p \in Peers /\ peer \in Objects /\ x \in Nat
        BY <2>3, <3>2, ObjectTypes DEF Objects, PeerRec
      <4>2. peer' = PutRef(peer, p, x)
        BY <3>2, <4>1 DEF PutRef
      <4> HIDE DEF x
      <4>3. SameButCount
        BY <4>1, <4>2, CountOnly
      <4> QED
        BY <4>3 DEF SameButCount
    <3> QED
      BY <2>2, <3>1, <3>2
  <2> QED
    BY <2>1, <2>4 DEF SameList, tables
<1>3. CASE MapAddId
  <2>1. pc'[MC] = pc[MC] /\ mac'[MC] = mac[MC] /\ pc[Tasklet] = "map"
    BY <1>0, <1>3 DEF MapAddId, Leave, Goto
  <2>2. PICK p \in Peers : p = cur[Tasklet]
    <3>1. cur[Tasklet] \in Peers \cup {NoPeer}
      BY <1>0, ThreadTypes
    <3> QED
      BY <2>1, <3>1 DEF PeerInv, OtherInv
  <2>3. PICK id \in Ids : id = Head(msgs).id
    BY <2>1, HeadMsg DEF PeerInv, OtherInv
  <2>4. PICK r : r = IF peer[p].peer_ids = <<>> THEN peer[p].ref_cnt - 1 ELSE peer[p].ref_cnt
    OBVIOUS
  <2>5. Live(p) /\ ~Raw(p)
    BY <1>0, <2>2, ObjectTypes DEF PeerInv, TableInv, NoDangling, FreshInv, Raw, Early
  <2>6. /\ Mapped(p, r)
        /\ UNCHANGED <<peer_list, hash, wait_on_peer_id, wait_delete_comp, vdev>>
    BY <1>3, <2>2, <2>3, <2>4, <2>5, MapAddObjects
  <2>7. \A q \in Peers : peer'[q].mac = peer[q].mac /\ peer'[q].local_id = peer[q].local_id
    BY <2>6 DEF Mapped
  <2> QED
    BY <2>1, <2>6, <2>7 DEF SameList
<1>4. CASE ol_rx_peer_unmap_handler
  <2>1. pc'[MC] = pc[MC] /\ mac'[MC] = mac[MC]
    BY <1>4 DEF ol_rx_peer_unmap_handler, threads
  <2>2. \/ UNCHANGED <<peer, tables>>
        \/ \E p \in Peers : ol_txrx_peer_unref_delete(p, peer)
    <3>1. Head(msgs).id \in Ids
      BY <1>4, HeadMsg DEF ol_rx_peer_unmap_handler
    <3> QED
      BY <1>4, <3>1, ObjectTypes DEF ol_rx_peer_unmap_handler
  <2> QED
    BY <2>1, <2>2, UnrefLists DEF SameList, tables
<1>5. ASSUME NEW t \in Users, ol_txrx_find_peer_by_addr(t)
      PROVE  SameList /\ pc'[MC] = pc[MC] /\ mac'[MC] = mac[MC]
  <2>1. t \in {MC} \cup Users
    OBVIOUS
  <2>2. pc'[MC] = pc[MC] /\ mac'[MC] = mac[MC] /\ UNCHANGED tables
    BY <1>0, <1>5 DEF ol_txrx_find_peer_by_addr, GotoNext, Goto
  <2>3. SameButCount
    BY <1>5, <2>1, FindTables
  <2> QED
    BY <2>2, <2>3 DEF SameList, SameButCount, tables
<1>6. ASSUME NEW t \in Users, PlainDec(t)
      PROVE  SameList /\ pc'[MC] = pc[MC] /\ mac'[MC] = mac[MC]
  <2>1. pc'[MC] = pc[MC] /\ mac'[MC] = mac[MC] /\ UNCHANGED tables
    BY <1>0, <1>6 DEF PlainDec, GotoNext, Goto
  <2>2. peer' = [peer EXCEPT ![got[t]].ref_cnt = @ - 1]
    BY <1>6 DEF PlainDec
  <2>3. \A q \in Peers : peer'[q].mac = peer[q].mac /\ peer'[q].local_id = peer[q].local_id
    <3> DEFINE r == [peer[got[t]] EXCEPT !.ref_cnt = @ - 1]
    <3>1. got[t] \in Peers
      <4>1. got[t] \in Peers \cup {NoPeer} /\ pc[t] \in {"find_dec", "update_dec"}
        BY <1>0, <1>6, ThreadTypes DEF PlainDec
      <4> QED
        BY <4>1 DEF PeerInv, OtherInv
    <3>2. peer' = [peer EXCEPT ![got[t]] = r]
      BY <2>2
    <3>3. r.mac = peer[got[t]].mac /\ r.local_id = peer[got[t]].local_id
      BY <3>1, ObjectTypes DEF Objects, PeerRec
    <3> HIDE DEF r
    <3> QED
      BY <3>1, <3>2, <3>3, ObjectTypes DEF Objects
  <2> QED
    BY <2>1, <2>3 DEF SameList, tables
<1>7. ASSUME NEW u \in Users, ChangeState(u)
      PROVE  SameList /\ pc'[MC] = pc[MC] /\ mac'[MC] = mac[MC]
  BY <1>0, <1>7 DEF ChangeState, Goto, SameList, tables
<1>8. ASSUME NEW u \in Users, ReleasePeer(u)
      PROVE  (SameList \/ Deletes) /\ pc'[MC] = pc[MC] /\ mac'[MC] = mac[MC]
  <2>1. pc'[MC] = pc[MC] /\ mac'[MC] = mac[MC] /\ ol_txrx_peer_unref_delete(cur[u], peer)
    BY <1>0, <1>8 DEF ReleasePeer, Leave, Goto
  <2>2. cur[u] \in Peers
    <3>1. cur[u] \in Peers \cup {NoPeer} /\ pc[u] = "release"
      BY <1>0, <1>8, ThreadTypes DEF ReleasePeer
    <3> QED
      BY <3>1 DEF PeerInv, OtherInv
  <2> QED
    BY <2>1, <2>2, UnrefLists
<1>9. ASSUME NEW u \in Users, NEW m \in Macs, StartFind(u, m)
      PROVE  SameList /\ pc'[MC] = pc[MC] /\ mac'[MC] = mac[MC]
  BY <1>0, <1>9 DEF StartFind, Goto, SameList, tables
<1>10. ASSUME NEW u \in Users, NEW i \in Lids, ol_txrx_peer_find_with_ref_by_local_id(u, i)
       PROVE  SameList /\ pc'[MC] = pc[MC] /\ mac'[MC] = mac[MC]
  <2>1. pc'[MC] = pc[MC] /\ mac'[MC] = mac[MC] /\ UNCHANGED tables
    BY <1>0, <1>10 DEF ol_txrx_peer_find_with_ref_by_local_id, Goto
  <2>2. peer' = [peer EXCEPT ![map[i]].ref_cnt = @ + 1]
    BY <1>10 DEF ol_txrx_peer_find_with_ref_by_local_id
  <2>3. \A q \in Peers : peer'[q].mac = peer[q].mac /\ peer'[q].local_id = peer[q].local_id
    BY <2>2, ObjectTypes DEF Objects, PeerRec
  <2> QED
    BY <2>1, <2>3 DEF SameList, tables
<1>11. ASSUME NEW t \in Users, FollowBare(t)
       PROVE  SameList /\ pc'[MC] = pc[MC] /\ mac'[MC] = mac[MC]
  BY <1>0, <1>11 DEF FollowBare, GotoNext, Goto, SameList, tables
<1> QED
  BY <1>1, <1>2, <1>3, <1>4, <1>5, <1>6, <1>7, <1>8, <1>9, <1>10, <1>11
     DEF TaskletStep, ThreadStep, UserStep

(* The list when a peer is deleted. *)
LEMMA DeleteLists ==
  ASSUME PeerInv, NEW p \in Peers, DeletePeer(p, peer)
  PROVE  /\ ToSet(peer_list') = ToSet(peer_list) \ {p}
         /\ peer_list = <<>> => peer_list' = <<>>
         /\ vdev' = IF peer_list' = <<>> /\ vdev = "pending" THEN "freed" ELSE vdev
         /\ \A q \in Peers : peer'[q].mac = peer[q].mac /\ peer'[q].local_id = peer[q].local_id
         /\ IF peer[p].local_id = wait_on_peer_id
              THEN wait_delete_comp' = TRUE
              ELSE UNCHANGED <<wait_on_peer_id, wait_delete_comp>>
<1>1. /\ peer_list' = Without(peer_list, p) /\ peer' = PutFreed(peer, p)
      /\ vdev' = IF peer_list' = <<>> /\ vdev = "pending" THEN "freed" ELSE vdev
      /\ IF peer[p].local_id = wait_on_peer_id
              THEN wait_delete_comp' = TRUE
              ELSE UNCHANGED <<wait_on_peer_id, wait_delete_comp>>
  BY DEF DeletePeer, PutFreed
<1>2. peer_list \in Seq(Peers) /\ peer \in Objects /\ Once(peer_list)
  BY ObjectTypes DEF PeerInv, TableInv, ListInv
<1>3. ToSet(peer_list') = ToSet(peer_list) \ {p}
  BY <1>1, <1>2, WithoutFacts
<1>4. peer_list = <<>> => peer_list' = <<>>
  BY <1>1 DEF Without
<1>5. \A q \in Peers : peer'[q].mac = peer[q].mac /\ peer'[q].local_id = peer[q].local_id
  BY <1>1, <1>2, SetFreed
<1> QED
  BY <1>1, <1>3, <1>4, <1>5

(* A freed vdev has no peer left on its list, one pending has. *)
VdevInv ==
    /\ vdev = "freed" => peer_list = <<>>
    /\ vdev = "pending" => peer_list # <<>>

LEMMA VdevKeeps ==
  ASSUME PeerInv, VdevInv, [Next]_vars
  PROVE  VdevInv'
<1>1. CASE UNCHANGED <<peer_list, vdev>>
  BY <1>1 DEF VdevInv
<1>2. CASE Deletes
  BY <1>2, DeleteLists DEF Deletes, VdevInv
<1>3. CASE SameList
  BY <1>1, <1>3 DEF SameList
<1>4. CASE ol_txrx_vdev_detach
  BY <1>4 DEF ol_txrx_vdev_detach, VdevInv
<1>5. CASE InsertPeer
  <2>1. vdev = "up" /\ vdev' = vdev
    BY <1>5 DEF InsertPeer, PeerInv, McInv, Creating, Early
  <2> QED
    BY <2>1 DEF VdevInv
<1>6. CASE DetachUnref
  <2>1. cur[MC] \in Peers /\ ol_txrx_peer_unref_delete(cur[MC], peer)
    BY <1>6 DEF DetachUnref, PeerInv, McInv, Leaving
  <2> QED
    BY <1>2, <1>3, <2>1, UnrefLists
<1>7. CASE McStep /\ ~InsertPeer /\ ~DetachUnref
  <2>1. UNCHANGED <<peer_list, vdev>>
    BY <1>7 DEF McStep, CheckDuplicate, Woken, WaitTimeout, AllocPeer, InitPeer,
       ol_txrx_peer_find_hash_add, OL_TXRX_LOCAL_PEER_ID_ALLOC, CreateSend, WmaRemovePeer,
       InvalidatePeer, OL_TXRX_LOCAL_PEER_ID_FREE, MarkDeleted, tables
  <2> QED
    BY SMTT(30), <1>1, <2>1
<1>8. CASE ThreadStep(MC)
  BY <1>1, <1>8 DEF ThreadStep, ol_txrx_find_peer_by_addr, PlainDec, FollowBare, tables
<1>9. ASSUME NEW m \in Macs, WmaCreatePeer(m) \/ StartFind(MC, m) PROVE VdevInv'
  BY <1>1, <1>9 DEF WmaCreatePeer, StartFind, tables
<1>10. CASE UNCHANGED vars
  BY <1>1, <1>10 DEF vars, tables
<1>11. Peekers \subseteq Users
  BY PeerAssumption
<1> QED
  BY <1>2, <1>3, <1>4, <1>5, <1>6, <1>7, <1>8, <1>9, <1>10, <1>11, OtherSteps DEF Next

LEMMA WakeKeeps ==
  ASSUME PeerInv, NoMissedWake, [Next]_vars
  PROVE  NoMissedWake'
<1>0. ToSet(peer_list) \subseteq Peers
  BY ObjectTypes
<1>1. CASE pc'[MC] # "wait"
  BY <1>1 DEF NoMissedWake
<1>2. ASSUME SameList, pc'[MC] = pc[MC], mac'[MC] = mac[MC] PROVE NoMissedWake'
  BY <1>0, <1>2 DEF SameList, NoMissedWake
<1>3. ASSUME Deletes, pc'[MC] = pc[MC], mac'[MC] = mac[MC] PROVE NoMissedWake'
  <2>1. PICK p \in Peers : DeletePeer(p, peer)
    BY <1>3 DEF Deletes
  <2> SUFFICES ASSUME pc[MC] = "wait", wait_delete_comp' # TRUE
               PROVE  \E q \in ToSet(peer_list') : /\ peer'[q].mac = mac'[MC]
                                                   /\ peer'[q].local_id = wait_on_peer_id'
    BY <1>3 DEF NoMissedWake
  <2>2. /\ peer[p].local_id # wait_on_peer_id
        /\ wait_on_peer_id' = wait_on_peer_id /\ wait_delete_comp' = wait_delete_comp
        /\ ToSet(peer_list') = ToSet(peer_list) \ {p}
        /\ \A q \in Peers : peer'[q].mac = peer[q].mac /\ peer'[q].local_id = peer[q].local_id
    BY <2>1, DeleteLists
  <2>3. wait_delete_comp \in BOOLEAN
    BY ThreadTypes
  <2>4. ~wait_delete_comp
    BY <2>2, <2>3
  <2>5. PICK q \in ToSet(peer_list) : peer[q].mac = mac[MC] /\ peer[q].local_id = wait_on_peer_id
    BY <2>4 DEF NoMissedWake
  <2>6. q \in ToSet(peer_list') /\ q \in Peers
    BY <1>0, <2>2, <2>5
  <2> QED
    BY <1>3, <2>2, <2>5, <2>6
<1>4. CASE CheckDuplicate
  <2> DEFINE dups == {i \in DOMAIN peer_list : peer[peer_list[i]].mac = mac[MC]}
             kept == {i \in dups : ~peer[peer_list[i]].delete_in_progress}
             waiting == {i \in dups : \A k \in kept : i < k}
  <2>1. /\ IF waiting = {} THEN TRUE
           ELSE wait_on_peer_id' = peer[peer_list[Max(waiting)]].local_id
        /\ IF kept # {} THEN pc' = [pc EXCEPT ![MC] = "idle"]
           ELSE mac' = mac /\ pc' = [pc EXCEPT ![MC] = IF waiting = {} THEN "alloc" ELSE "wait"]
        /\ peer' = peer /\ peer_list' = peer_list
    BY <1>4 DEF CheckDuplicate, CreateFailed, Leave, Goto
  <2>2. MC \in Threads /\ pc \in [Threads -> Steps]
    BY ThreadTypes
  <2>3. CASE kept # {} \/ waiting = {}
    <3>1. pc'[MC] # "wait"
      BY <2>1, <2>2, <2>3
    <3> QED
      BY <1>1, <3>1
  <2>4. CASE kept = {} /\ waiting # {}
    <3>1. peer_list \in Seq(Peers)
      BY ObjectTypes
    <3>2. /\ waiting \in SUBSET Nat /\ Len(peer_list) \in Nat
          /\ \A i \in waiting : i <= Len(peer_list)
      BY <3>1
    <3>3. Max(waiting) \in waiting
      <4> HIDE DEF waiting
      <4> QED
        BY <2>4, <3>2, GreatestNat
    <3>4. /\ Max(waiting) \in DOMAIN peer_list
          /\ peer[peer_list[Max(waiting)]].mac = mac[MC]
      BY <3>3
    <3> DEFINE k == Max(waiting)
    <3>5. wait_on_peer_id' = peer[peer_list[k]].local_id /\ mac' = mac
      BY <2>1, <2>4
    <3> HIDE DEF k
    <3>6. k \in DOMAIN peer_list /\ peer[peer_list[k]].mac = mac[MC]
      BY <3>4 DEF k
    <3>7. peer_list[k] \in ToSet(peer_list)
      BY <3>6 DEF ToSet
    <3>8. peer' = peer /\ peer_list' = peer_list
      BY <2>1
    <3> HIDE DEF waiting, kept, dups
    <3> QED
      BY <3>5, <3>6, <3>7, <3>8 DEF NoMissedWake
  <2> QED
    BY <2>3, <2>4
<1>5. CASE McStep /\ ~CheckDuplicate
  <2>1. MC \in Threads /\ pc \in [Threads -> Steps]
    BY ThreadTypes
  <2>2. pc'[MC] # "wait"
    BY <1>5, <2>1 DEF McStep, Woken, WaitTimeout, AllocPeer, InsertPeer, InitPeer,
       ol_txrx_peer_find_hash_add, OL_TXRX_LOCAL_PEER_ID_ALLOC, CreateSend, WmaRemovePeer,
       InvalidatePeer, OL_TXRX_LOCAL_PEER_ID_FREE, MarkDeleted, DetachUnref, CreateFailed,
       Leave, Goto
  <2> QED
    BY <1>1, <2>2
<1>6. CASE ThreadStep(MC)
  <2>1. MC \in Threads /\ pc \in [Threads -> Steps]
    BY ThreadTypes
  <2>2. pc'[MC] # "wait"
    BY <1>6, <2>1 DEF ThreadStep, ol_txrx_find_peer_by_addr, PlainDec, FollowBare, GotoNext,
       Goto, AfterFind
  <2> QED
    BY <1>1, <2>2
<1>7. ASSUME NEW m \in Macs, WmaCreatePeer(m) \/ StartFind(MC, m) PROVE NoMissedWake'
  <2>1. MC \in Threads /\ pc \in [Threads -> Steps]
    BY ThreadTypes
  <2>2. pc'[MC] # "wait"
    BY <1>7, <2>1 DEF WmaCreatePeer, StartFind, Goto
  <2> QED
    BY <1>1, <2>2
<1>8. CASE ol_txrx_vdev_detach
  BY <1>1, <1>8 DEF ol_txrx_vdev_detach, threads
<1>9. CASE UNCHANGED vars
  BY <1>2, <1>9 DEF vars, tables, threads, SameList
<1>10. Peekers \subseteq Users
  BY PeerAssumption
<1> QED
  BY <1>2, <1>3, <1>4, <1>5, <1>6, <1>7, <1>8, <1>9, <1>10, OtherSteps DEF Next

(* The vdev is never freed under a peer that points to it, and one whose   *)
(* deletion is pending still has the peer whose deletion will free it: the *)
(* test of the list in ol_txrx_vdev_detach and the one after the removal   *)
(* in ol_txrx_peer_unref_delete cannot both miss the last peer.            *)
THEOREM VdevOutlivesPeers == Spec => []VdevFreedWithLastPeer
<1>1. Init => VdevInv
  BY DEF Init, VdevInv
<1>2. PeerInv /\ VdevInv /\ [Next]_vars => VdevInv'
  BY VdevKeeps
<1>3. PeerInv /\ VdevInv => VdevFreedWithLastPeer
  <2> SUFFICES ASSUME PeerInv, VdevInv PROVE VdevFreedWithLastPeer
    OBVIOUS
  <2>1. vdev = "freed" => ToSet(peer_list) = {} /\ pc[MC] # "insert"
    BY DEF VdevInv, ToSet, PeerInv, McInv, Creating, Early
  <2> QED
    BY <2>1 DEF VdevFreedWithLastPeer, VdevInv, PeerInv, TableInv, ListInv
<1> QED
  BY <1>1, <1>2, <1>3, Invariance, PTL DEF Spec

(* The deletion an attach waits for cannot slip between the walk over      *)
(* peer_list and the wait: as long as the attach is not woken, the peer    *)
(* whose local ID it registered is on the list.                            *)
THEOREM WakeIsComing == Spec => []NoMissedWake
<1>1. Init => NoMissedWake
  BY ThreadsFinite DEF Init, NoMissedWake
<1>2. PeerInv /\ NoMissedWake /\ [Next]_vars => NoMissedWake'
  BY WakeKeeps
<1> QED
  BY <1>1, <1>2, Invariance, PTL DEF Spec

-----------------------------------------------------------------------------
(***************************************************************************)
(* A count of zero, and the write of a state without a reference.          *)
(*                                                                         *)
(* Of the plain decrements only a peeker's may be the last: whoever makes  *)
(* another has, or somebody else has, a further reference to the same      *)
(* peer.  The main controller thread looks up a peer that is valid and     *)
(* stays so, as only this thread detaches.  The other threads hold the     *)
(* peer whose state they change, but look it up again by its address, and  *)
(* what they find may be another peer: one attached under the same address *)
(* while the first, no longer valid, waits for its last reference.  It is  *)
(* then behind the first in the bin, where no PEER_MAP finds it, and the   *)
(* reference for the map handler is still there.  For the same reasons the *)
(* peer is not freed before its state is written.                          *)
(***************************************************************************)

(* Where an attach relies on the peers of its address being invalid. *)
Blocking == {"wait", "alloc"} \cup Early

(* A peer is in the hash table from its attach to its deletion. *)
HashInv ==
    \A p \in Peers : Live(p) => p \in ToSet(hash) \/ (pc[MC] \in Early /\ cur[MC] = p)

MarkInv == \A p \in Peers : peer[p].delete_in_progress => ~peer[p].valid

(* An attach past the check for a duplicate, and a lookup by this thread. *)
AttachInv ==
    /\ pc[MC] \in Blocking =>
         \A p \in ToSet(hash) : peer[p].mac = mac[MC] => ~peer[p].valid
    /\ pc[MC] \in Early => peer[cur[MC]].mac = mac[MC]
    /\ pc[MC] = "hash_add" => peer[cur[MC]].peer_ids = <<>>
    /\ pc[MC] = "update_dec" => peer[got[MC]].valid
    /\ pc[MC] = "write" => bare[MC] \in Peers /\ peer[bare[MC]].valid

(* Of two peers of one address the first is invalid, the second unmapped. *)
ShadowInv ==
    \A i, j \in DOMAIN hash :
        (i < j /\ peer[hash[i]].mac = peer[hash[j]].mac) =>
            /\ ~peer[hash[i]].valid
            /\ peer[hash[j]].peer_ids = <<>>
            /\ cur[Tasklet] # hash[j]

Precedes(p, q) ==
    \E i, j \in DOMAIN hash : /\ i < j /\ hash[i] = p /\ hash[j] = q
                              /\ peer[p].mac = peer[q].mac

(* What a thread that changes a peer's state finds under its address.      *)
Updating(u) ==
    /\ pc[u] \in {"find", "find_dec"} => u \in Peekers
    /\ pc[u] \in {"update", "update_dec"} => mac[u] = peer[cur[u]].mac
    /\ pc[u] = "update_dec" => got[u] = cur[u] \/ Precedes(cur[u], got[u])
    /\ pc[u] = "write" => bare[u] = cur[u] \/ Precedes(cur[u], bare[u])

(* Where it finds nothing. *)
Loose(u) == {"idle", "held", "release", "peeked"} \cup IF u \in Peekers THEN {"find", "find_dec"} ELSE {}

UpdateInv == \A u \in Users : Updating(u)

GoneInv == HashInv /\ MarkInv /\ AttachInv /\ ShadowInv /\ UpdateInv

(* No peer loses its last reference and stays. *)
NoneForgotten == \A p \in Peers : Forgotten(p)' => Forgotten(p)

GoneStep == GoneInv' /\ NoneForgotten

(* A step after which the bins are as they were, but for deleted peers. *)
Kept ==
    /\ ToSet(hash') \subseteq ToSet(hash)
    /\ \A i, j \in DOMAIN hash' : i < j =>
         \E k, l \in DOMAIN hash : k < l /\ hash[k] = hash'[i] /\ hash[l] = hash'[j]
    /\ \A q \in ToSet(hash) : Live(q)' => q \in ToSet(hash')
    /\ \A q \in ToSet(hash) :
         /\ peer'[q].mac = peer[q].mac
         /\ peer'[q].valid => peer[q].valid
         /\ peer'[q].peer_ids = peer[q].peer_ids \/ q = cur[Tasklet]
    /\ \A q, p : Precedes(q, p) => Live(p)'

LEMMA KeptSame ==
  ASSUME PeerInv', hash' = hash,
         \A q \in ToSet(hash) :
           /\ peer'[q].mac = peer[q].mac
           /\ peer'[q].valid => peer[q].valid
           /\ peer'[q].peer_ids = peer[q].peer_ids \/ q = cur[Tasklet]
  PROVE  Kept
<1>1. \A q, p : Precedes(q, p) => p \in ToSet(hash')
  BY DEF Precedes, ToSet
<1>2. \A p \in ToSet(hash') : Live(p)'
  BY DEF PeerInv, TableInv, NoDangling
<1> QED
  BY <1>1, <1>2 DEF Kept

(* The tasklet's lookup returns the first peer of an address. *)
First(p) ==
    \A i, j \in DOMAIN hash :
        (i < j /\ peer[hash[i]].mac = peer[hash[j]].mac) => hash[j] # p

LEMMA ShadowKeeps ==
  ASSUME PeerInv, ShadowInv, Kept, cur'[Tasklet] = cur[Tasklet] \/ First(cur'[Tasklet])
  PROVE  ShadowInv'
<1> SUFFICES ASSUME NEW i \in DOMAIN hash', NEW j \in DOMAIN hash', i < j,
                    peer'[hash'[i]].mac = peer'[hash'[j]].mac
             PROVE  /\ ~peer'[hash'[i]].valid
                    /\ peer'[hash'[j]].peer_ids = <<>>
                    /\ cur'[Tasklet] # hash'[j]
  BY DEF ShadowInv
<1>1. PICK k, l \in DOMAIN hash : k < l /\ hash[k] = hash'[i] /\ hash[l] = hash'[j]
  BY DEF Kept
<1> DEFINE a == hash[k]
           b == hash[l]
<1>2. a \in ToSet(hash) /\ b \in ToSet(hash) /\ a = hash'[i] /\ b = hash'[j]
  BY <1>1 DEF ToSet
<1>3. /\ peer'[a].mac = peer[a].mac /\ peer'[b].mac = peer[b].mac
      /\ peer'[a].valid => peer[a].valid
      /\ peer'[b].peer_ids = peer[b].peer_ids \/ b = cur[Tasklet]
  BY <1>2 DEF Kept
<1>4. peer[hash[k]].mac = peer[hash[l]].mac
  BY <1>2, <1>3
<1>5. ~peer[a].valid /\ peer[b].peer_ids = <<>> /\ cur[Tasklet] # b
  BY <1>1, <1>4 DEF ShadowInv
<1>6. First(cur'[Tasklet]) => cur'[Tasklet] # b
  BY <1>1, <1>4 DEF First
<1> HIDE DEF a, b
<1> QED
  BY <1>2, <1>3, <1>5, <1>6

(* Two peers that stay keep their order. *)
LEMMA OrderKept ==
  ASSUME PeerInv, hash' \in Seq(Peers), Kept,
         NEW p, NEW q, Precedes(p, q), p # q, Live(p)'
  PROVE  Precedes(p, q)'
<1>1. PICK i, j \in DOMAIN hash : i < j /\ hash[i] = p /\ hash[j] = q /\ peer[p].mac = peer[q].mac
  BY DEF Precedes
<1>2. p \in ToSet(hash) /\ q \in ToSet(hash)
  BY <1>1 DEF ToSet
<1>3. p \in ToSet(hash') /\ q \in ToSet(hash') /\ peer'[p].mac = peer'[q].mac
  <2>1. Live(q)'
    BY DEF Kept
  <2> QED
    BY <1>1, <1>2, <2>1 DEF Kept
<1>4. PICK k, l \in DOMAIN hash' : hash'[k] = p /\ hash'[l] = q
  BY <1>3 DEF ToSet
<1>5. hash \in Seq(Peers) /\ Once(hash)
  BY ObjectTypes DEF PeerInv, TableInv, ListInv
<1>6. ~(l < k)
  <2> SUFFICES ASSUME l < k PROVE FALSE
    OBVIOUS
  <2>1. PICK x, y \in DOMAIN hash : x < y /\ hash[x] = q /\ hash[y] = p
    BY <1>4 DEF Kept
  <2>2. x = j /\ y = i
    BY <1>1, <1>5, <2>1 DEF Once
  <2>3. i \in Nat /\ j \in Nat
    BY <1>5
  <2> QED
    BY <1>1, <2>1, <2>2, <2>3
<1>7. k < l
  <2>1. k \in Nat /\ l \in Nat /\ k # l
    BY <1>4
  <2> QED
    BY <1>6, <2>1
<1> QED
  BY <1>3, <1>4, <1>7 DEF Precedes

(* A thread that stays where it is, and one that has let go. *)
Stays(t) ==
    /\ pc'[t] = pc[t] /\ cur'[t] = cur[t] /\ got'[t] = got[t] /\ bare'[t] = bare[t]
    /\ mac'[t] = mac[t]

LEMMA NextTypes ==
  ASSUME PeerInv'
  PROVE  /\ hash' \in Seq(Peers) /\ peer' \in Objects /\ ToSet(hash') \subseteq Peers
         /\ \A t \in Threads : /\ cur'[t] # NoPeer => peer'[cur'[t]].mem = "live"
                               /\ got'[t] # NoPeer => peer'[got'[t]].mem = "live"
         /\ \A u \in Users :
              /\ pc'[u] \in {"update", "update_dec", "write"} => cur'[u] # NoPeer
              /\ pc'[u] = "update_dec" => got'[u] # NoPeer
<1>1. hash' \in Seq(Peers) /\ peer' \in Objects
  BY DEF PeerInv, StateOK, Objects, PeerRec
<1>2. ToSet(hash') \subseteq Peers
  BY <1>1 DEF ToSet
<1>3. \A t \in Threads : /\ cur'[t] # NoPeer => peer'[cur'[t]].mem = "live"
                         /\ got'[t] # NoPeer => peer'[got'[t]].mem = "live"
  BY DEF PeerInv, TableInv, NoDangling, Live
<1>4. \A u \in Users :
              /\ pc'[u] \in {"update", "update_dec", "write"} => cur'[u] # NoPeer
              /\ pc'[u] = "update_dec" => got'[u] # NoPeer
  BY DEF PeerInv, OtherInv
<1> QED
  BY <1>1, <1>2, <1>3, <1>4

(* A peer in use by another thread is in the hash table. *)
LEMMA UsedHashed ==
  ASSUME PeerInv, HashInv, NEW t \in Threads \ {MC}, cur[t] # NoPeer
  PROVE  cur[t] \in ToSet(hash)
<1>1. cur[t] \in Peers /\ Live(cur[t])
  BY ThreadTypes DEF PeerInv, TableInv, NoDangling
<1>2. ~(pc[MC] \in Early /\ cur[MC] = cur[t])
  BY DEF PeerInv, TableInv, FreshInv
<1> QED
  BY <1>1, <1>2 DEF HashInv

LEMMA UserStays ==
  ASSUME PeerInv, PeerInv', HashInv, Kept, NEW u \in Users, Updating(u),
         Stays(u) \/ pc'[u] \in Loose(u)
  PROVE  Updating(u)'
<1>1. CASE pc'[u] \in Loose(u)
  BY <1>1 DEF Updating, Loose
<1>2. CASE Stays(u)
  <2>0. u \in Threads \ {MC}
    BY ThreadsFinite
  <2>1. pc[u] \in {"update", "update_dec"} => mac'[u] = peer'[cur'[u]].mac
    <3> SUFFICES ASSUME pc[u] \in {"update", "update_dec"} PROVE mac'[u] = peer'[cur'[u]].mac
      OBVIOUS
    <3>1. cur[u] # NoPeer
      BY DEF PeerInv, OtherInv
    <3>2. cur[u] \in ToSet(hash)
      BY <2>0, <3>1, UsedHashed
    <3> QED
      BY <1>2, <3>2 DEF Stays, Updating, Kept
  <2>2. ASSUME pc[u] = "update_dec", got[u] # cur[u]
        PROVE  \E i, j \in DOMAIN hash' :
                 /\ i < j /\ hash'[i] = cur'[u] /\ hash'[j] = got'[u]
                 /\ peer'[cur'[u]].mac = peer'[got'[u]].mac
    <3>1. Precedes(cur[u], got[u])
      BY <2>2 DEF Updating
    <3>2. PICK a, b : cur[u] = a /\ got[u] = b
      OBVIOUS
    <3>3. cur'[u] = a /\ got'[u] = b
      BY <1>2, <3>2 DEF Stays
    <3>4. u \in Threads /\ pc'[u] = "update_dec"
      BY <1>2, <2>0, <2>2 DEF Stays
    <3>5. peer'[a].mem = "live"
      BY <3>3, <3>4, NextTypes
    <3>6. Precedes(a, b) /\ a # b
      BY <2>2, <3>1, <3>2
    <3>7. Precedes(a, b)'
      BY <3>5, <3>6, OrderKept, NextTypes DEF Live
    <3> QED
      BY <3>3, <3>7 DEF Precedes
  <2>3. ASSUME pc[u] = "write", bare[u] # cur[u]
        PROVE  \E i, j \in DOMAIN hash' :
                 /\ i < j /\ hash'[i] = cur'[u] /\ hash'[j] = bare'[u]
                 /\ peer'[cur'[u]].mac = peer'[bare'[u]].mac
    <3>1. Precedes(cur[u], bare[u])
      BY <2>3 DEF Updating
    <3>2. PICK a, b : cur[u] = a /\ bare[u] = b
      OBVIOUS
    <3>3. cur'[u] = a /\ bare'[u] = b
      BY <1>2, <3>2 DEF Stays
    <3>4. u \in Threads /\ pc'[u] = "write"
      BY <1>2, <2>0, <2>3 DEF Stays
    <3>5. peer'[a].mem = "live"
      BY <3>3, <3>4, NextTypes
    <3>6. Precedes(a, b) /\ a # b
      BY <2>3, <3>1, <3>2
    <3>7. Precedes(a, b)'
      BY <3>5, <3>6, OrderKept, NextTypes DEF Live
    <3> QED
      BY <3>3, <3>7 DEF Precedes
  <2> QED
    BY <1>2, <2>1, <2>2, <2>3 DEF Updating, Stays, Precedes
<1> QED
  BY <1>1, <1>2

(* The objects after a step that neither attaches nor detaches a peer. *)
NamesKept ==
    /\ \A p \in Peers : peer'[p].mem = "live" => peer[p].mem = "live"
    /\ \A p \in Peers : peer'[p].mac = peer[p].mac
    /\ \A p \in Peers : peer'[p].valid = peer[p].valid
    /\ \A p \in Peers : peer'[p].delete_in_progress => peer[p].delete_in_progress
    /\ \A p \in Peers : peer'[p].peer_ids = peer[p].peer_ids \/ p = cur[Tasklet]

LEMMA KeptNames ==
  ASSUME PeerInv, PeerInv', NamesKept, hash' = hash
  PROVE  Kept
<1>1. ToSet(hash) \subseteq Peers
  BY ObjectTypes
<1> QED
  BY <1>1, KeptSame DEF NamesKept

LEMMA CountNames ==
  ASSUME PeerInv, SameButCount
  PROVE  NamesKept
BY DEF SameButCount, NamesKept

(* A step after which the attach is where it was, or further before the    *)
(* insertion into the hash table.                                          *)
McHolds ==
    /\ pc'[MC] \in Blocking => pc[MC] \in Blocking /\ mac'[MC] = mac[MC]
    /\ pc[MC] \in Early => /\ pc'[MC] \in Early /\ cur'[MC] = cur[MC]
                           /\ peer'[cur[MC]].mac = peer[cur[MC]].mac
    /\ pc'[MC] \in Early => pc[MC] \in Early
    /\ pc'[MC] = "hash_add" => peer'[cur'[MC]].peer_ids = <<>>
    /\ pc'[MC] = "update_dec" => peer'[got'[MC]].valid
    /\ pc'[MC] = "write" => bare'[MC] \in Peers /\ peer'[bare'[MC]].valid

LEMMA McStill ==
  ASSUME PeerInv, AttachInv, Stays(MC), NamesKept
  PROVE  McHolds
<1>1. pc[MC] \in Early => cur[MC] \in Peers
  BY DEF PeerInv, McInv, Early, HasPeer
<1>2. pc[MC] = "update_dec" => got[MC] \in Peers
  BY DEF PeerInv, McInv
<1>3. pc[MC] = "hash_add" => cur[MC] # cur[Tasklet]
  BY ThreadsFinite DEF PeerInv, TableInv, FreshInv, Early
<1>4. pc[MC] = "hash_add" => pc[MC] \in Early
  BY DEF Early
<1>5. pc'[MC] = "hash_add" => peer'[cur'[MC]].peer_ids = <<>>
  BY <1>1, <1>3, <1>4 DEF Stays, NamesKept, AttachInv
<1>6. pc'[MC] = "update_dec" => peer'[got'[MC]].valid
  BY <1>2 DEF Stays, NamesKept, AttachInv
<1>7. pc[MC] \in Early => peer'[cur[MC]].mac = peer[cur[MC]].mac
  BY <1>1 DEF NamesKept
<1>8. pc'[MC] = "write" => bare'[MC] \in Peers /\ peer'[bare'[MC]].valid
  BY DEF Stays, NamesKept, AttachInv
<1> QED
  BY <1>5, <1>6, <1>7, <1>8 DEF Stays, McHolds

LEMMA AttachKeeps ==
  ASSUME PeerInv, HashInv, AttachInv, Kept, McHolds,
         \A p \in Peers : peer'[p].mem = "live" => peer[p].mem = "live"
  PROVE  HashInv' /\ AttachInv'
<1>1. HashInv'
  <2> SUFFICES ASSUME NEW p \in Peers, Live(p)'
               PROVE  p \in ToSet(hash') \/ (pc'[MC] \in Early /\ cur'[MC] = p)
    BY DEF HashInv
  <2>1. p \in ToSet(hash) \/ (pc[MC] \in Early /\ cur[MC] = p)
    BY DEF HashInv, Live
  <2> QED
    BY <2>1 DEF Kept, McHolds
<1>2. Early \subseteq Blocking
  BY DEF Blocking
<1>3. pc'[MC] \in Blocking => \A p \in ToSet(hash') : peer'[p].mac = mac'[MC] => ~peer'[p].valid
  <2> SUFFICES ASSUME pc'[MC] \in Blocking, NEW p \in ToSet(hash'), peer'[p].mac = mac'[MC]
               PROVE  ~peer'[p].valid
    OBVIOUS
  <2>1. p \in ToSet(hash) /\ peer[p].mac = mac[MC] /\ pc[MC] \in Blocking
    BY DEF Kept, McHolds
  <2> QED
    BY <2>1 DEF Kept, AttachInv
<1>4. pc'[MC] \in Early => peer'[cur'[MC]].mac = mac'[MC]
  BY <1>2 DEF McHolds, AttachInv
<1> QED
  BY <1>1, <1>3, <1>4 DEF AttachInv, McHolds

(* A step of another thread than the main controller thread. *)
LEMMA OtherGone ==
  ASSUME PeerInv, PeerInv', BareOK, GoneInv, Kept, NamesKept, Stays(MC),
         cur'[Tasklet] = cur[Tasklet] \/ First(cur'[Tasklet]),
         \A u \in Users : Updating(u)'
  PROVE  GoneInv'
<1>1. McHolds
  BY McStill DEF GoneInv
<1>2. HashInv' /\ AttachInv'
  BY <1>1, AttachKeeps DEF GoneInv, NamesKept
<1>3. MarkInv'
  BY DEF GoneInv, MarkInv, NamesKept
<1>4. ShadowInv'
  BY ShadowKeeps DEF GoneInv
<1>5. UpdateInv'
  BY DEF UpdateInv
<1> QED
  BY <1>2, <1>3, <1>4, <1>5 DEF GoneInv

(* Only this thread's place changes ... *)
LEMMA UsersStay ==
  ASSUME PeerInv, PeerInv', BareOK, GoneInv, Kept,
         \A u \in Users : Stays(u) \/ pc'[u] \in Loose(u)
  PROVE  \A u \in Users : Updating(u)'
<1> SUFFICES ASSUME NEW u \in Users PROVE Updating(u)'
  OBVIOUS
<1> QED
  BY UserStays DEF GoneInv, UpdateInv

(* ... and the count of a peer that keeps a reference. *)
LEMMA CountsStay ==
  ASSUME PeerInv, PeerInv', Kept, NEW p \in Peers, NEW x \in Nat,
         p \in ToSet(hash) => x > 0 \/ peer[p].ref_cnt = 0, peer' = PutRef(peer, p, x)
  PROVE  NoneForgotten
<1>1. peer'[p].ref_cnt = x /\ \A q \in Peers : q # p => peer'[q].ref_cnt = peer[q].ref_cnt
  BY ObjectTypes, CountOnly
<1>2. ToSet(hash') \subseteq ToSet(hash)
  BY DEF Kept
<1> QED
  BY <1>1, <1>2 DEF NoneForgotten, Forgotten

(* Two references of different kinds. *)
LEMMA TwoReferences ==
  ASSUME PeerInv, NEW p \in Peers, Live(p), ~Raw(p),
         \/ RefA(p) >= 1 /\ RefG(p) >= 1
         \/ RefI(p) >= 1 /\ RefG(p) >= 1
         \/ RefC(p) >= 1 /\ RefG(p) >= 1
         \/ RefI(p) >= 1 /\ RefC(p) >= 1
         \/ RefI(p) >= 1 /\ RefA(p) >= 1
  PROVE  peer[p].ref_cnt \in Nat /\ peer[p].ref_cnt >= 2
<1>1. peer[p].ref_cnt \in Nat
  BY ObjectTypes DEF Objects, PeerRec
<1>2. peer[p].ref_cnt >= References(p)
  BY DEF PeerInv, Covered
<1>3. /\ References(p) = RefA(p) + RefI(p) + RefG(p) + RefC(p)
      /\ RefA(p) \in Nat /\ RefI(p) \in Nat /\ RefG(p) \in Nat /\ RefC(p) \in Nat
  BY RefParts
<1>4. References(p) >= 2 /\ References(p) \in Nat
  BY <1>3
<1> DEFINE r == peer[p].ref_cnt
<1>5. r \in Nat /\ r >= References(p)
  BY <1>1, <1>2
<1> HIDE DEF r
<1>6. r >= 2
  BY <1>4, <1>5
<1> QED
  BY <1>1, <1>6 DEF r

(* The peer of a lookup under way is alive and attached. *)
LEMMA GotPeer ==
  ASSUME PeerInv, NEW t \in Threads, got[t] # NoPeer
  PROVE  got[t] \in Peers /\ Live(got[t]) /\ ~Raw(got[t]) /\ RefG(got[t]) >= 1
<1>1. got[t] \in Peers
  BY ThreadTypes
<1>2. Live(got[t])
  BY DEF PeerInv, TableInv, NoDangling
<1>3. ~Raw(got[t])
  BY DEF Raw, PeerInv, TableInv, FreshInv, Early
<1>4. PICK p : p = got[t]
  OBVIOUS
<1>5. RefG(p) >= 1
  BY <1>4, RefHeld
<1> QED
  BY <1>1, <1>2, <1>3, <1>4, <1>5

(* The second peer of an address keeps the map handler's reference, and    *)
(* outlives the release of another one.                                    *)
LEMMA ShadowRef ==
  ASSUME PeerInv, GoneInv, NEW p \in Peers, NEW q, Precedes(q, p), RefA(p) >= 1 \/ RefC(p) >= 1
  PROVE  peer[p].ref_cnt # 1
<1>1. p \in ToSet(hash) /\ peer[p].peer_ids = <<>>
  BY DEF Precedes, ToSet, GoneInv, ShadowInv
<1>2. Live(p) /\ ~Raw(p)
  BY <1>1 DEF PeerInv, TableInv, NoDangling, FreshInv, Raw, Early
<1>3. RefI(p) >= 1
  BY <1>1, RefHeld
<1>4. peer[p].ref_cnt \in Nat /\ peer[p].ref_cnt >= 2
  BY <1>2, <1>3, TwoReferences
<1> QED
  BY <1>4

LEMMA UnrefGone ==
  ASSUME PeerInv, PeerInv', BareOK, GoneInv, NEW p \in Peers, ol_txrx_peer_unref_delete(p, peer),
         \A q : Precedes(q, p) => peer[p].ref_cnt # 1
  PROVE  Kept /\ NamesKept /\ NoneForgotten
<1>0. peer \in Objects /\ peer[p].ref_cnt \in Nat /\ hash \in Seq(Peers) /\ Once(hash)
      /\ ToSet(hash) \subseteq Peers
  BY ObjectTypes DEF Objects, PeerRec, PeerInv, TableInv, ListInv
<1>1. CASE peer[p].ref_cnt = 1
  <2>1. hash' = Without(hash, p) /\ peer' = PutFreed(peer, p)
    BY <1>1 DEF ol_txrx_peer_unref_delete, DeletePeer, PutFreed
  <2>2. /\ ToSet(hash') = ToSet(hash) \ {p}
        /\ \A i, j \in DOMAIN hash' : i < j =>
              \E k, l \in DOMAIN hash : k < l /\ hash[k] = hash'[i] /\ hash[l] = hash'[j]
    BY <1>0, <2>1, WithoutFacts
  <2>3. /\ peer'[p].mem = "freed" /\ peer'[p].delete_in_progress = FALSE
        /\ \A q \in Peers : q # p => peer'[q] = peer[q]
        /\ \A q \in Peers : peer'[q].mac = peer[q].mac /\ peer'[q].valid = peer[q].valid
        /\ \A q \in Peers : peer'[q].peer_ids = peer[q].peer_ids
    BY <1>0, <2>1, SetFreed
  <2>4. NamesKept
    <3>1. \A q \in Peers : peer'[q].mem = "live" => peer[q].mem = "live"
      BY <2>3
    <3>2. \A q \in Peers : peer'[q].delete_in_progress => peer[q].delete_in_progress
      BY <2>3
    <3> QED
      BY <2>3, <3>1, <3>2 DEF NamesKept
  <2>5. Kept
    <3>1. \A q \in ToSet(hash) : Live(q)' => q \in ToSet(hash')
      BY <2>2, <2>3 DEF Live
    <3>2. ASSUME NEW q, NEW r, Precedes(q, r) PROVE Live(r)'
      <4>1. r # p /\ r \in ToSet(hash)
        BY <1>1, <3>2 DEF Precedes, ToSet
      <4>2. r \in Peers /\ Live(r)
        BY <1>0, <4>1 DEF PeerInv, TableInv, NoDangling
      <4> QED
        BY <2>3, <4>1, <4>2 DEF Live
    <3> QED
      BY <1>0, <2>2, <2>3, <3>1, <3>2 DEF Kept
  <2>6. NoneForgotten
    BY <1>0, <2>2, <2>3 DEF NoneForgotten, Forgotten
  <2> QED
    BY <2>4, <2>5, <2>6
<1>2. CASE peer[p].ref_cnt # 1
  <2> DEFINE x == IF peer[p].ref_cnt = 0 THEN 0 ELSE peer[p].ref_cnt - 1
  <2>1. x \in Nat /\ peer' = PutRef(peer, p, x) /\ hash' = hash
    BY <1>0, <1>2 DEF ol_txrx_peer_unref_delete, PutRef, tables
  <2>2. x > 0 \/ peer[p].ref_cnt = 0
    BY <1>0, <1>2
  <2> HIDE DEF x
  <2>3. SameButCount
    BY <1>0, <2>1, CountOnly
  <2>4. NamesKept
    BY <2>3, CountNames
  <2>5. Kept
    BY <2>1, <2>4, KeptNames
  <2> QED
    BY <2>1, <2>2, <2>3, <2>4, <2>5, CountsStay
<1> QED
  BY <1>1, <1>2

(* Nothing but the place of a thread changes. *)
LEMMA SameGone ==
  ASSUME PeerInv, PeerInv', BareOK, GoneInv, UNCHANGED <<peer, hash>>, Stays(MC),
         cur'[Tasklet] = cur[Tasklet], \A u \in Users : Updating(u)'
  PROVE  GoneStep
<1>1. NamesKept
  BY DEF NamesKept
<1>2. Kept
  BY <1>1, KeptNames
<1>3. NoneForgotten
  BY DEF NoneForgotten, Forgotten
<1> QED
  BY <1>1, <1>2, <1>3, OtherGone DEF GoneStep

(* One peer's count and one thread's place change. *)
LEMMA CountGone ==
  ASSUME PeerInv, PeerInv', BareOK, GoneInv, hash' = hash, NEW p \in Peers, NEW x \in Nat,
         peer' = PutRef(peer, p, x), Stays(MC),
         cur'[Tasklet] = cur[Tasklet] \/ First(cur'[Tasklet]), \A u \in Users : Updating(u)'
  PROVE  GoneInv' /\ (x > 0 => NoneForgotten)
<1>1. SameButCount
  BY ObjectTypes, CountOnly
<1>2. NamesKept
  BY <1>1, CountNames
<1>3. Kept
  BY <1>2, KeptNames
<1>4. x > 0 => NoneForgotten
  BY <1>3, CountsStay
<1> QED
  BY <1>2, <1>3, <1>4, OtherGone

LEMMA MapFindGone ==
  ASSUME PeerInv, PeerInv', BareOK, GoneInv, MapFind
  PROVE  GoneStep
<1> DEFINE p == ol_txrx_peer_find_hash_find(Head(msgs).mac, FALSE)
<1>0. /\ MC # Tasklet /\ MC \in Threads /\ Tasklet \in Threads
      /\ Users \subseteq Threads /\ Tasklet \notin Users
  BY ThreadsFinite
<1>1. /\ UNCHANGED <<got, bare, mac, hash>>
      /\ IF p = NoPeer
           THEN UNCHANGED <<pc, cur, peer>>
           ELSE /\ peer' = [peer EXCEPT ![p].ref_cnt = @ + 1]
                /\ cur' = [cur EXCEPT ![Tasklet] = p] /\ pc' = [pc EXCEPT ![Tasklet] = "map"]
  BY DEF MapFind, Goto, tables
<1>2. /\ \/ p = NoPeer
         \/ p \in Peers /\ p \in ToSet(hash) /\ First(p)
  <2>1. FALSE \in BOOLEAN /\ peer \in Objects /\ hash \in Seq(Peers) /\ Once(hash)
    BY ObjectTypes DEF PeerInv, TableInv, ListInv
  <2>2. CASE p # NoPeer
    <3>1. PICK k \in DOMAIN hash :
              /\ p = hash[k] /\ p \in Peers /\ p \in ToSet(hash)
              /\ peer[p].mac = Head(msgs).mac
              /\ \A i \in DOMAIN hash : i < k => peer[hash[i]].mac # Head(msgs).mac
      BY ZenonT(60), <2>1, <2>2, FindFacts
    <3> HIDE DEF p
    <3>2. First(p)
      BY <2>1, <3>1 DEF First, Once
    <3> QED
      BY <3>1, <3>2
  <2> QED
    BY <2>2
<1> HIDE DEF p
<1>3. pc \in [Threads -> Steps] /\ cur \in [Threads -> Peers \cup {NoPeer}]
  BY ThreadTypes
<1>4. \A t \in Threads : t # Tasklet => Stays(t)
  BY <1>1, <1>3 DEF Stays
<1>5. CASE p = NoPeer
  <2>1. Kept
    BY <1>1, <1>5, KeptSame
  <2>2. \A u \in Users : Updating(u)'
    BY <1>0, <1>4, <2>1, UsersStay
  <2> QED
    BY <1>0, <1>1, <1>4, <1>5, <2>2, SameGone
<1>6. CASE p # NoPeer
  <2> DEFINE x == peer[p].ref_cnt + 1
  <2>1. p \in Peers /\ x \in Nat /\ x > 0 /\ peer \in Objects
    BY <1>2, <1>6, ObjectTypes DEF Objects, PeerRec
  <2>2. peer' = PutRef(peer, p, x)
    BY <1>1, <1>6, <2>1 DEF PutRef
  <2>3. First(cur'[Tasklet])
    BY <1>0, <1>1, <1>2, <1>3, <1>6
  <2> HIDE DEF x
  <2>4. NamesKept
    BY <2>1, <2>2, CountOnly, CountNames
  <2>5. \A u \in Users : Updating(u)'
    BY <1>0, <1>1, <1>4, <2>4, KeptNames, UsersStay
  <2> QED
    BY <1>0, <1>1, <1>4, <2>1, <2>2, <2>3, <2>5, CountGone DEF GoneStep
<1> QED
  BY <1>5, <1>6

(* The first ID of a peer takes over the map handler's reference, but the  *)
(* tasklet has one of its own until then.                                  *)
LEMMA MapAddGone ==
  ASSUME PeerInv, PeerInv', BareOK, GoneInv, MapAddId
  PROVE  GoneStep
<1>0. /\ MC # Tasklet /\ MC \in Threads /\ Tasklet \in Threads \ {MC}
      /\ Users \subseteq Threads /\ Tasklet \notin Users
  BY ThreadsFinite
<1>1. /\ pc[Tasklet] = "map" /\ cur' = [cur EXCEPT ![Tasklet] = NoPeer]
      /\ pc' = [pc EXCEPT ![Tasklet] = "idle"] /\ got' = [got EXCEPT ![Tasklet] = NoPeer]
      /\ bare' = [bare EXCEPT ![Tasklet] = NoPeer] /\ mac' = [mac EXCEPT ![Tasklet] = NoMac]
  BY DEF MapAddId, Leave, Goto
<1>2. PICK p \in Peers : p = cur[Tasklet]
  BY <1>0, <1>1, ThreadTypes DEF PeerInv, OtherInv
<1>3. PICK id \in Ids : id = Head(msgs).id
  BY <1>1, HeadMsg DEF PeerInv, OtherInv
<1>4. PICK r : r = IF peer[p].peer_ids = <<>> THEN peer[p].ref_cnt - 1 ELSE peer[p].ref_cnt
  OBVIOUS
<1>5. Live(p) /\ ~Raw(p)
  BY <1>0, <1>2, ObjectTypes DEF PeerInv, TableInv, NoDangling, FreshInv, Raw, Early
<1>6. Mapped(p, r) /\ r \in Nat /\ hash' = hash
  BY <1>2, <1>3, <1>4, <1>5, MapAddObjects
<1>7. r > 0 \/ peer[p].ref_cnt = 0
  <2>1. CASE peer[p].peer_ids = <<>>
    <3>1. RefC(p) >= 1 /\ RefI(p) >= 1
      BY <1>0, <1>2, <2>1, RefHeld
    <3>2. peer[p].ref_cnt \in Nat /\ peer[p].ref_cnt >= 2
      BY <1>5, <3>1, TwoReferences
    <3> QED
      BY <1>4, <2>1, <3>2
  <2>2. CASE peer[p].peer_ids # <<>>
    BY <1>4, <1>6, <2>2
  <2> QED
    BY <2>1, <2>2
<1>8. \A t \in Threads : t # Tasklet => Stays(t)
  BY <1>0, <1>1, ThreadTypes DEF Stays, BareOK
<1>9. NamesKept
  <2>1. peer'[p].delete_in_progress = peer[p].delete_in_progress
    <3> DEFINE x == Append(peer[p].peer_ids, id)
               o == PutIds(peer, p, x)
    <3>1. x \in Seq(Ids) /\ peer \in Objects
      BY ObjectTypes DEF Objects, PeerRec
    <3>2. o \in Objects /\ o[p].delete_in_progress = peer[p].delete_in_progress
          /\ o[p].ref_cnt = peer[p].ref_cnt
      BY ZenonT(60), <3>1, SetIds
    <3>3. o = [peer EXCEPT ![p].peer_ids = Append(@, id)]
      BY DEF PutIds
    <3> HIDE DEF x, o
    <3>4. IF peer[p].peer_ids = <<>> THEN ol_txrx_peer_unref_delete(p, o) ELSE peer' = o
      BY <1>2, <1>3, <3>3 DEF MapAddId
    <3>5. CASE peer[p].peer_ids # <<>>
      BY <3>2, <3>4, <3>5
    <3>6. CASE peer[p].peer_ids = <<>>
      <4>1. RefC(p) >= 1 /\ RefI(p) >= 1
        BY <1>0, <1>2, <3>6, RefHeld
      <4>2. peer[p].ref_cnt \in Nat /\ peer[p].ref_cnt >= 2
        BY <1>5, <4>1, TwoReferences
      <4> DEFINE y == peer[p].ref_cnt - 1
      <4>3. peer' = PutRef(o, p, y) /\ y \in Nat
        BY <3>2, <3>4, <3>6, <4>2 DEF ol_txrx_peer_unref_delete, PutRef
      <4> HIDE DEF y
      <4> QED
        BY <3>2, <4>3, SetRef
    <3> QED
      BY <3>5, <3>6
  <2>2. \A q \in Peers : peer'[q].delete_in_progress => peer[q].delete_in_progress
    BY <1>6, <2>1 DEF Mapped
  <2>3. \A q \in Peers : peer'[q].peer_ids = peer[q].peer_ids \/ q = cur[Tasklet]
    BY <1>2, <1>6 DEF Mapped
  <2> QED
    BY <1>6, <2>2, <2>3 DEF Mapped, NamesKept
<1>10. Kept
  BY <1>6, <1>9, KeptNames
<1>11. NoneForgotten
  BY <1>6, <1>7 DEF Mapped, NoneForgotten, Forgotten
<1>12. First(cur'[Tasklet])
  <2>1. cur'[Tasklet] = NoPeer
    BY <1>0, <1>1, ThreadTypes
  <2>2. hash \in Seq(Peers) /\ NoPeer \notin Peers
    BY ObjectTypes
  <2> QED
    BY <2>1, <2>2 DEF First
<1>13. \A u \in Users : Updating(u)'
  BY <1>0, <1>8, <1>10, UsersStay
<1> QED
  BY <1>0, <1>8, <1>9, <1>10, <1>11, <1>12, <1>13, OtherGone DEF GoneStep

LEMMA UnmapGone ==
  ASSUME PeerInv, PeerInv', BareOK, GoneInv, ol_rx_peer_unmap_handler
  PROVE  GoneStep
<1>0. MC \in Threads /\ Users \subseteq Threads /\ Tasklet \in Threads
  BY ThreadsFinite
<1>1. \A t \in Threads : Stays(t)
  BY DEF ol_rx_peer_unmap_handler, threads, Stays
<1>2. \/ UNCHANGED <<peer, tables>>
      \/ \E p \in Peers : peer[p].peer_ids # <<>> /\ ol_txrx_peer_unref_delete(p, peer)
  <2>1. PICK id \in Ids : id = Head(msgs).id
    BY HeadMsg DEF ol_rx_peer_unmap_handler
  <2>2. peer_id_to_obj_map[id] # NoPeer =>
          peer_id_to_obj_map[id] \in Peers /\ peer[peer_id_to_obj_map[id]].peer_ids # <<>>
    BY ObjectTypes DEF PeerInv, TableInv, MapInv
  <2> QED
    BY <2>1, <2>2 DEF ol_rx_peer_unmap_handler
<1>3. CASE UNCHANGED <<peer, tables>>
  <2>1. UNCHANGED <<peer, hash>>
    BY <1>3 DEF tables
  <2>2. Kept
    BY <2>1, KeptSame
  <2>3. \A u \in Users : Updating(u)'
    BY <1>0, <1>1, <2>2, UsersStay
  <2>4. cur'[Tasklet] = cur[Tasklet]
    BY <1>0, <1>1 DEF Stays
  <2> QED
    BY <1>0, <1>1, <2>1, <2>3, <2>4, SameGone
<1>4. CASE \E p \in Peers : peer[p].peer_ids # <<>> /\ ol_txrx_peer_unref_delete(p, peer)
  <2>0. PICK p \in Peers : peer[p].peer_ids # <<>> /\ ol_txrx_peer_unref_delete(p, peer)
    BY <1>4
  <2>1. Kept /\ NamesKept /\ NoneForgotten
    <3>1. \A q : ~Precedes(q, p)
      BY <2>0 DEF Precedes, GoneInv, ShadowInv
    <3> QED
      BY <2>0, <3>1, UnrefGone
  <2>2. \A u \in Users : Updating(u)'
    BY <1>0, <1>1, <2>1, UsersStay
  <2>3. cur'[Tasklet] = cur[Tasklet]
    BY <1>0, <1>1 DEF Stays
  <2> QED
    BY <1>0, <1>1, <2>1, <2>2, <2>3, OtherGone DEF GoneStep
<1> QED
  BY <1>2, <1>3, <1>4

LEMMA TargetGone ==
  ASSUME PeerInv, PeerInv', BareOK, GoneInv, UNCHANGED <<pc, cur, got, bare, mac, peer, hash>>
  PROVE  GoneStep
<1>0. MC \in Threads /\ Users \subseteq Threads /\ Tasklet \in Threads
  BY ThreadsFinite
<1>1. \A t \in Threads : Stays(t)
  BY DEF Stays
<1>2. Kept
  BY KeptSame
<1>3. \A u \in Users : Updating(u)'
  BY <1>0, <1>1, <1>2, UsersStay
<1> QED
  BY <1>0, <1>1, <1>3, SameGone

(* The other users while one of them takes a step. *)
LEMMA UserSteps ==
  ASSUME PeerInv, PeerInv', BareOK, GoneInv, Kept, NEW u \in Users,
         \A t \in Threads : t # u => Stays(t),
         pc'[u] \in Loose(u) \/ Updating(u)'
  PROVE  \A v \in Users : Updating(v)'
<1> SUFFICES ASSUME NEW v \in Users PROVE Updating(v)'
  OBVIOUS
<1>1. CASE v = u /\ Updating(u)'
  BY <1>1
<1>2. CASE v # u \/ pc'[u] \in Loose(u)
  <2>1. Stays(v) \/ pc'[v] \in Loose(v)
    BY <1>2, ThreadsFinite
  <2> QED
    BY <2>1, UserStays DEF GoneInv, UpdateInv
<1> QED
  BY <1>1, <1>2

LEMMA ReleaseGone ==
  ASSUME PeerInv, PeerInv', BareOK, GoneInv, NEW u \in Users, ReleasePeer(u)
  PROVE  GoneStep
<1>0. MC \in Threads /\ u \in Threads /\ Tasklet \in Threads /\ MC # u /\ Tasklet # u
  BY ThreadsFinite
<1>1. /\ pc[u] = "release" /\ ol_txrx_peer_unref_delete(cur[u], peer)
      /\ pc' = [pc EXCEPT ![u] = "idle"] /\ cur' = [cur EXCEPT ![u] = NoPeer]
      /\ got' = [got EXCEPT ![u] = NoPeer] /\ bare' = [bare EXCEPT ![u] = NoPeer]
      /\ mac' = [mac EXCEPT ![u] = NoMac]
  BY DEF ReleasePeer, Leave, Goto
<1>2. pc'[u] \in Loose(u) /\ \A t \in Threads : t # u => Stays(t)
  BY <1>0, <1>1, ThreadTypes DEF Stays, BareOK, Loose
<1>3. PICK p \in Peers : p = cur[u]
  BY <1>0, <1>1, ThreadTypes DEF PeerInv, OtherInv
<1>4. Kept /\ NamesKept /\ NoneForgotten
  <2>1. RefC(p) >= 1
    BY <1>0, <1>3, ThreadsFinite, RefHeld
  <2>2. \A q : Precedes(q, p) => peer[p].ref_cnt # 1
    BY <2>1, ShadowRef
  <2> QED
    BY <1>1, <1>3, <2>2, UnrefGone
<1>5. \A v \in Users : Updating(v)'
  BY <1>2, <1>4, UserSteps
<1>6. Stays(MC) /\ cur'[Tasklet] = cur[Tasklet]
  BY <1>0, <1>2 DEF Stays
<1> QED
  BY <1>4, <1>5, <1>6, OtherGone DEF GoneStep

LEMMA ChangeGone ==
  ASSUME PeerInv, PeerInv', BareOK, GoneInv, NEW u \in Users, ChangeState(u)
  PROVE  GoneStep
<1>0. MC \in Threads /\ u \in Threads /\ Tasklet \in Threads /\ MC # u /\ Tasklet # u
  BY ThreadsFinite
<1>1. /\ UNCHANGED <<cur, got, bare, peer, hash>> /\ mac' = [mac EXCEPT ![u] = peer[cur[u]].mac]
      /\ pc' = [pc EXCEPT ![u] = IF peer[cur[u]].delete_in_progress THEN "release" ELSE "update"]
  BY DEF ChangeState, Goto, tables
<1>2. \A t \in Threads : t # u => Stays(t)
  BY <1>0, <1>1, ThreadTypes DEF Stays
<1>3. pc'[u] \in {"release", "update"} /\ mac'[u] = peer'[cur'[u]].mac
  BY <1>0, <1>1, ThreadTypes
<1>4. Updating(u)'
  BY <1>3 DEF Updating
<1>5. Kept
  BY <1>1, KeptSame
<1>6. \A v \in Users : Updating(v)'
  BY <1>2, <1>4, <1>5, UserSteps
<1>7. Stays(MC) /\ cur'[Tasklet] = cur[Tasklet]
  BY <1>0, <1>2 DEF Stays
<1> QED
  BY <1>1, <1>6, <1>7, SameGone

LEMMA LocalFindGone ==
  ASSUME PeerInv, PeerInv', BareOK, GoneInv, NEW u \in Users, NEW i \in Lids,
         ol_txrx_peer_find_with_ref_by_local_id(u, i)
  PROVE  GoneStep
<1> DEFINE p == map[i]
           x == peer[p].ref_cnt + 1
<1>0. MC \in Threads /\ u \in Threads /\ Tasklet \in Threads /\ MC # u /\ Tasklet # u
  BY ThreadsFinite
<1>1. /\ p # NoPeer /\ peer' = [peer EXCEPT ![p].ref_cnt = @ + 1]
      /\ cur' = [cur EXCEPT ![u] = p] /\ pc' = [pc EXCEPT ![u] = "held"]
      /\ UNCHANGED <<got, bare, mac, hash>>
  BY DEF ol_txrx_peer_find_with_ref_by_local_id, Goto, tables
<1>2. p \in Peers /\ x \in Nat /\ x > 0 /\ peer \in Objects
  BY <1>1, ObjectTypes DEF Objects, PeerRec
<1>3. peer' = PutRef(peer, p, x)
  BY <1>1, <1>2 DEF PutRef
<1> HIDE DEF p, x
<1>4. pc'[u] \in Loose(u) /\ \A t \in Threads : t # u => Stays(t)
  BY <1>0, <1>1, ThreadTypes DEF Stays, Loose
<1>5. Kept
  BY <1>1, <1>2, <1>3, CountOnly, CountNames, KeptNames
<1>6. \A v \in Users : Updating(v)'
  BY <1>4, <1>5, UserSteps
<1>7. Stays(MC) /\ cur'[Tasklet] = cur[Tasklet]
  BY <1>0, <1>4 DEF Stays
<1> QED
  BY <1>1, <1>2, <1>3, <1>6, <1>7, CountGone DEF GoneStep

(* The peer a user finds is the one it holds, or one behind it. *)
LEMMA FindGone ==
  ASSUME PeerInv, PeerInv', BareOK, GoneInv, NEW u \in Users, ol_txrx_find_peer_by_addr(u)
  PROVE  GoneStep
<1>0. /\ MC \in Threads /\ u \in Threads /\ u \in Threads \ {MC}
      /\ Tasklet \in Threads /\ MC # u /\ Tasklet # u
  BY ThreadsFinite
<1>1. PICK p : p = ol_txrx_peer_find_hash_find(mac[u], TRUE)
  OBVIOUS
<1>2. pc[u] \in {"find", "update"} /\ Updating(u)
  BY DEF ol_txrx_find_peer_by_addr, GoneInv, UpdateInv
<1>3. /\ UNCHANGED <<cur, bare, hash>> /\ got' = [got EXCEPT ![u] = p]
      /\ IF p = NoPeer
           THEN /\ pc' = [pc EXCEPT ![u] = AfterFind(u)] /\ peer' = peer
                /\ mac' = [mac EXCEPT ![u] = IF AfterFind(u) = "idle" THEN NoMac ELSE @]
           ELSE /\ peer' = [peer EXCEPT ![p].ref_cnt = @ + 1]
                /\ pc' = [pc EXCEPT ![u] = IF pc[u] = "find" THEN "find_dec" ELSE "update_dec"]
                /\ mac' = mac
  BY <1>1, <1>2 DEF ol_txrx_find_peer_by_addr, GotoNext, Goto, tables
<1>4. \A t \in Threads : t # u => Stays(t)
  BY <1>0, <1>3, ThreadTypes DEF Stays
<1>5. Stays(MC) /\ cur'[Tasklet] = cur[Tasklet]
  BY <1>0, <1>4 DEF Stays
<1>6. CASE p = NoPeer
  <2>1. pc'[u] \in Loose(u)
    BY <1>0, <1>2, <1>3, <1>6, ThreadTypes DEF AfterFind, Loose
  <2>2. Kept
    BY <1>3, <1>6, KeptSame
  <2>3. \A v \in Users : Updating(v)'
    BY <1>4, <2>1, <2>2, UserSteps
  <2> QED
    BY <1>3, <1>5, <1>6, <2>3, SameGone
<1>7. CASE p # NoPeer
  <2>1. TRUE \in BOOLEAN /\ peer \in Objects /\ hash \in Seq(Peers) /\ Once(hash)
    BY ObjectTypes DEF PeerInv, TableInv, ListInv
  <2>2. PICK k \in DOMAIN hash :
           p = hash[k] /\ p \in Peers /\ peer[p].mac = mac[u] /\ peer[p].valid
    BY <1>1, <1>7, <2>1, FindFacts
  <2> DEFINE x == peer[p].ref_cnt + 1
  <2>3. x \in Nat /\ x > 0
    BY <2>1, <2>2 DEF Objects, PeerRec
  <2>4. peer' = PutRef(peer, p, x)
    BY <1>3, <1>7, <2>2 DEF PutRef
  <2> HIDE DEF x
  <2>5. SameButCount /\ NamesKept
    BY <2>1, <2>2, <2>3, <2>4, CountOnly, CountNames
  <2>6. Kept
    BY <1>3, <2>5, KeptNames
  <2>7. Updating(u)'
    <3>1. CASE pc[u] = "find"
      <4>1. pc'[u] = "find_dec" /\ u \in Peekers
        BY <1>0, <1>2, <1>3, <1>7, <3>1, ThreadTypes DEF Updating
      <4> QED
        BY <4>1 DEF Updating
    <3>2. CASE pc[u] = "update"
      <4>1. cur[u] \in ToSet(hash) /\ cur[u] # NoPeer
        <5>1. cur[u] # NoPeer
          BY <3>2 DEF PeerInv, OtherInv
        <5> QED
          BY <1>0, <5>1, UsedHashed DEF GoneInv
      <4>2. PICK l \in DOMAIN hash : hash[l] = cur[u]
        BY <4>1 DEF ToSet
      <4>3. peer[cur[u]].mac = mac[u]
        BY <1>2, <3>2 DEF Updating
      <4>4. ~(k < l)
        BY <2>2, <4>2, <4>3 DEF GoneInv, ShadowInv
      <4>5. k \in Nat /\ l \in Nat
        BY <2>1
      <4>6. l < k \/ cur[u] = p
        BY <2>2, <4>2, <4>4, <4>5
      <4>7. /\ pc'[u] = "update_dec" /\ got'[u] = p /\ cur'[u] = cur[u] /\ mac'[u] = mac[u]
            /\ hash' = hash
        BY <1>0, <1>3, <1>7, <3>2, ThreadTypes
      <4>8. peer'[p].mac = peer[p].mac /\ peer'[cur[u]].mac = peer[cur[u]].mac
        <5>1. cur[u] \in Peers
          BY <1>0, <4>1, ThreadTypes
        <5> QED
          BY <2>2, <2>5, <5>1 DEF NamesKept
      <4>9. mac'[u] = peer'[cur'[u]].mac
        BY <4>3, <4>7, <4>8
      <4>10. got'[u] = cur'[u] \/ \E i, j \in DOMAIN hash' :
                /\ i < j /\ hash'[i] = cur'[u] /\ hash'[j] = got'[u]
                /\ peer'[cur'[u]].mac = peer'[got'[u]].mac
        BY <2>2, <4>2, <4>3, <4>6, <4>7, <4>8
      <4> QED
        BY <4>7, <4>9, <4>10 DEF Updating, Precedes
    <3> QED
      BY <1>2, <3>1, <3>2
  <2>8. \A v \in Users : Updating(v)'
    BY <1>4, <2>6, <2>7, UserSteps
  <2> QED
    BY <1>3, <1>5, <2>2, <2>3, <2>4, <2>8, CountGone DEF GoneStep
<1> QED
  BY <1>6, <1>7

(* ... so its plain decrement is not the last, unless it only peeks. *)
LEMMA DecGone ==
  ASSUME PeerInv, PeerInv', BareOK, GoneInv, NEW u \in Users, PlainDec(u)
  PROVE  /\ GoneInv'
         /\ NoneForgotten \/ (u \in Peekers /\ pc[u] = "find_dec")
         /\ \A p \in Peers : Forgotten(p)' => Forgotten(p) \/ p = got[u]
<1>0. /\ MC \in Threads /\ u \in Threads /\ u \in Threads \ {MC}
      /\ Tasklet \in Threads /\ MC # u /\ Tasklet # u
  BY ThreadsFinite
<1>1. PICK p \in Peers : p = got[u]
  BY DecMoves
<1>2. /\ peer' = [peer EXCEPT ![p].ref_cnt = @ - 1] /\ got' = [got EXCEPT ![u] = NoPeer]
      /\ mac' = mac /\ hash' = hash /\ cur' = cur
      /\ \/ /\ pc[u] = "find_dec" /\ pc' = [pc EXCEPT ![u] = "peeked"]
            /\ bare' = [bare EXCEPT ![u] = p]
         \/ /\ pc[u] = "update_dec" /\ pc' = [pc EXCEPT ![u] = "write"]
            /\ bare' = [bare EXCEPT ![u] = p]
         \/ /\ pc[u] = "update_dec" /\ pc' = [pc EXCEPT ![u] = "release"] /\ bare' = bare
  BY <1>0, <1>1, DecMoves
<1>3. Updating(u)
  BY DEF GoneInv, UpdateInv
<1>4. Live(p) /\ ~Raw(p) /\ RefG(p) >= 1 /\ p # NoPeer
  BY <1>0, <1>1, GotPeer, ObjectTypes
<1>5. pc[u] = "update_dec" => RefC(p) >= 1 \/ RefI(p) >= 1
  <2> SUFFICES ASSUME pc[u] = "update_dec" PROVE RefC(p) >= 1 \/ RefI(p) >= 1
    OBVIOUS
  <2>1. CASE cur[u] = p
    BY <1>0, <2>1, RefHeld
  <2>2. CASE Precedes(cur[u], p)
    <3>1. peer[p].peer_ids = <<>>
      BY <2>2 DEF Precedes, GoneInv, ShadowInv
    <3> QED
      BY <3>1, RefHeld
  <2> QED
    BY <1>1, <1>3, <2>1, <2>2 DEF Updating
<1>6. pc[u] = "update_dec" => peer[p].ref_cnt \in Nat /\ peer[p].ref_cnt >= 2
  BY <1>4, <1>5, TwoReferences
<1> DEFINE x == peer[p].ref_cnt - 1
<1>7. x \in Nat /\ peer' = PutRef(peer, p, x) /\ (pc[u] = "update_dec" => x > 0)
  <2>1. RefG(p) >= 1 => peer[p].ref_cnt \in Nat /\ peer[p].ref_cnt >= 1
    BY <1>0, <1>1, <1>4, HeldCount
  <2> QED
    BY <1>2, <1>4, <1>6, <2>1 DEF PutRef
<1> HIDE DEF x
<1>8. SameButCount /\ NamesKept /\ \A q \in Peers : q # p => peer'[q].ref_cnt = peer[q].ref_cnt
  BY <1>7, ObjectTypes, CountOnly, CountNames
<1>9. Kept
  BY <1>2, <1>8, KeptNames
<1>10. \A t \in Threads : t # u => Stays(t)
  BY <1>0, <1>2, ThreadTypes DEF Stays, BareOK
<1>11. Updating(u)'
  <2>1. CASE pc[u] = "update_dec" /\ pc' = [pc EXCEPT ![u] = "write"] /\ bare' = [bare EXCEPT ![u] = p]
    <3>1. pc'[u] = "write" /\ bare'[u] = p
      BY <1>0, <2>1, ThreadTypes DEF BareOK
    <3>2. p = cur[u] \/ Precedes(cur[u], p)
      BY <1>1, <1>3, <2>1 DEF Updating
    <3>3. CASE p = cur[u]
      BY <1>2, <3>1, <3>3 DEF Updating
    <3>4. CASE Precedes(cur[u], p)
      <4>1. PICK a : a = cur[u]
        OBVIOUS
      <4>2. PICK i, j \in DOMAIN hash : i < j /\ hash[i] = a /\ hash[j] = p /\ peer[a].mac = peer[p].mac
        BY <3>4, <4>1 DEF Precedes
      <4>3. a \in Peers
        BY <4>2, ObjectTypes DEF ToSet
      <4>4. peer'[a].mac = peer'[p].mac
        BY <1>8, <4>2, <4>3 DEF NamesKept
      <4>5. \E k, l \in DOMAIN hash' : k < l /\ hash'[k] = cur'[u] /\ hash'[l] = bare'[u]
                                     /\ peer'[cur'[u]].mac = peer'[bare'[u]].mac
        BY <1>2, <3>1, <4>1, <4>2, <4>4
      <4> QED
        BY <3>1, <4>5 DEF Updating, Precedes
    <3> QED
      BY <3>2, <3>3, <3>4
  <2>2. CASE pc'[u] \in {"peeked", "release"}
    BY <2>2 DEF Updating
  <2> QED
    BY <1>0, <1>2, <2>1, <2>2, ThreadTypes
<1>12. \A v \in Users : Updating(v)'
  BY <1>9, <1>10, <1>11, UserSteps
<1>13. Stays(MC) /\ cur'[Tasklet] = cur[Tasklet]
  BY <1>0, <1>10 DEF Stays
<1>14. GoneInv' /\ (x > 0 => NoneForgotten)
  BY <1>2, <1>7, <1>12, <1>13, CountGone
<1>15. \A q \in Peers : Forgotten(q)' => Forgotten(q) \/ q = p
  BY <1>2, <1>8 DEF Forgotten
<1>16. pc[u] = "find_dec" => u \in Peekers
  BY <1>3 DEF Updating
<1> QED
  BY <1>1, <1>2, <1>7, <1>14, <1>15, <1>16

(* The last use of the pointer moves nothing. *)
LEMMA FollowGone ==
  ASSUME PeerInv, PeerInv', BareOK, GoneInv, NEW u \in Users, FollowBare(u)
  PROVE  GoneStep
<1>0. MC \in Threads /\ u \in Threads /\ Tasklet \in Threads /\ MC # u /\ Tasklet # u
  BY ThreadsFinite
<1>1. /\ pc[u] \in {"peeked", "write"} /\ UNCHANGED <<cur, got, peer, hash>>
      /\ bare' = [bare EXCEPT ![u] = NoPeer] /\ pc' = [pc EXCEPT ![u] = AfterFind(u)]
      /\ mac' = [mac EXCEPT ![u] = IF AfterFind(u) = "idle" THEN NoMac ELSE @]
  BY DEF FollowBare, GotoNext, Goto, tables
<1>2. AfterFind(u) \in {"idle", "release"}
  BY <1>0, <1>1 DEF AfterFind
<1>3. pc'[u] \in Loose(u) /\ \A t \in Threads : t # u => Stays(t)
  BY <1>0, <1>1, <1>2, ThreadTypes DEF Stays, BareOK, Loose
<1>4. Kept
  BY <1>1, KeptSame
<1>5. \A v \in Users : Updating(v)'
  BY <1>3, <1>4, UserSteps
<1>6. Stays(MC) /\ cur'[Tasklet] = cur[Tasklet]
  BY <1>0, <1>3 DEF Stays
<1> QED
  BY <1>1, <1>5, <1>6, SameGone

(* A peeker starts. *)
LEMMA PeekGone ==
  ASSUME PeerInv, PeerInv', BareOK, GoneInv, NEW u \in Users, u \in Peekers,
         NEW m \in Macs, StartFind(u, m)
  PROVE  GoneStep
<1>0. MC \in Threads /\ u \in Threads /\ Tasklet \in Threads /\ MC # u /\ Tasklet # u
  BY ThreadsFinite
<1>1. /\ UNCHANGED <<cur, got, bare, peer, hash>> /\ mac' = [mac EXCEPT ![u] = m]
      /\ pc' = [pc EXCEPT ![u] = "find"]
  BY DEF StartFind, Goto, tables
<1>2. pc'[u] \in Loose(u) /\ \A t \in Threads : t # u => Stays(t)
  BY <1>0, <1>1, ThreadTypes DEF Stays, Loose
<1>3. Kept
  BY <1>1, KeptSame
<1>4. \A v \in Users : Updating(v)'
  BY <1>2, <1>3, UserSteps
<1>5. Stays(MC) /\ cur'[Tasklet] = cur[Tasklet]
  BY <1>0, <1>2 DEF Stays
<1> QED
  BY <1>1, <1>4, <1>5, SameGone

(* A step of the main controller thread. *)
LEMMA McGone ==
  ASSUME PeerInv, PeerInv', BareOK, GoneInv, Kept, \A t \in Threads : t # MC => Stays(t),
         HashInv', AttachInv', MarkInv'
  PROVE  GoneInv'
<1>0. Tasklet \in Threads /\ Tasklet # MC /\ Users \subseteq Threads /\ MC \notin Users
  BY ThreadsFinite
<1>1. ShadowInv'
  BY <1>0, ShadowKeeps DEF GoneInv, Stays
<1>2. UpdateInv'
  BY <1>0, UsersStay DEF UpdateInv
<1> QED
  BY <1>1, <1>2 DEF GoneInv

(* Away from the attach before the hash table there is nothing to keep. *)
LEMMA Elsewhere ==
  ASSUME pc[MC] \notin Early, pc'[MC] \notin Blocking, pc'[MC] \notin {"update_dec", "write"}
  PROVE  McHolds
BY DEF McHolds, Blocking, Early

LEMMA McQuietGone ==
  ASSUME PeerInv, PeerInv', BareOK, GoneInv, UNCHANGED <<peer, hash>>, McHolds,
         \A t \in Threads : t # MC => Stays(t)
  PROVE  GoneStep
<1>1. Kept
  BY KeptSame
<1>2. HashInv' /\ AttachInv'
  BY <1>1, AttachKeeps DEF GoneInv
<1>3. MarkInv' /\ NoneForgotten
  BY DEF GoneInv, MarkInv, NoneForgotten, Forgotten
<1> QED
  BY <1>1, <1>2, <1>3, McGone DEF GoneStep

(* One peer's object changes, and the tables do not. *)
LEMMA McObjectGone ==
  ASSUME PeerInv, PeerInv', BareOK, GoneInv, NamesKept, hash' = hash,
         \A p \in ToSet(hash) : peer'[p].ref_cnt > 0 \/ peer'[p].ref_cnt = peer[p].ref_cnt, McHolds,
         \A t \in Threads : t # MC => Stays(t)
  PROVE  GoneStep
<1>1. Kept
  BY KeptNames
<1>2. HashInv' /\ AttachInv'
  BY <1>1, AttachKeeps DEF GoneInv, NamesKept
<1>3. MarkInv'
  BY DEF GoneInv, MarkInv, NamesKept
<1>4. NoneForgotten
  BY DEF NoneForgotten, Forgotten
<1> QED
  BY <1>1, <1>2, <1>3, <1>4, McGone DEF GoneStep

(* The places of the other threads, after a step of this one. *)
LEMMA McMoves ==
  ASSUME PeerInv, BareOK, NEW w, pc' = [pc EXCEPT ![MC] = w],
         cur' = cur \/ \E c : cur' = [cur EXCEPT ![MC] = c],
         got' = got \/ \E g : got' = [got EXCEPT ![MC] = g],
         bare' = bare \/ \E b : bare' = [bare EXCEPT ![MC] = b],
         mac' = mac \/ \E m : mac' = [mac EXCEPT ![MC] = m]
  PROVE  pc'[MC] = w /\ \A t \in Threads : t # MC => Stays(t)
<1>1. pc'[MC] = w
  BY ThreadTypes
<1> SUFFICES ASSUME NEW t \in Threads, t # MC PROVE Stays(t)
  BY <1>1
<1>2. pc'[t] = pc[t]
  BY ThreadTypes
<1>3. cur'[t] = cur[t]
  BY ThreadTypes
<1>4. got'[t] = got[t]
  BY ThreadTypes
<1>5. mac'[t] = mac[t]
  BY ThreadTypes
<1>6. bare'[t] = bare[t]
  BY DEF BareOK
<1> QED
  BY <1>2, <1>3, <1>4, <1>5, <1>6 DEF Stays

LEMMA QuietStepsGone ==
  ASSUME PeerInv, PeerInv', BareOK, GoneInv,
         \/ \E m \in Macs : WmaCreatePeer(m) \/ StartFind(MC, m)
         \/ Woken \/ WaitTimeout \/ InsertPeer \/ CreateSend \/ WmaRemovePeer
         \/ OL_TXRX_LOCAL_PEER_ID_FREE
  PROVE  GoneStep
<1>1. ASSUME NEW m \in Macs, WmaCreatePeer(m) \/ StartFind(MC, m) PROVE GoneStep
  <2>1. /\ pc[MC] = "idle" /\ UNCHANGED <<cur, got, bare, peer, hash>>
        /\ mac' = [mac EXCEPT ![MC] = m]
    BY <1>1 DEF WmaCreatePeer, StartFind, tables
  <2>2. PICK w \in {"dup_check", "find"} : pc' = [pc EXCEPT ![MC] = w]
    BY <1>1 DEF WmaCreatePeer, StartFind, Goto
  <2>3. pc'[MC] = w /\ \A t \in Threads : t # MC => Stays(t)
    BY <2>1, <2>2, McMoves
  <2>4. McHolds
    BY <2>1, <2>3, Elsewhere DEF Early, Blocking
  <2> QED
    BY <2>1, <2>3, <2>4, McQuietGone
<1>2. CASE Woken
  <2>1. /\ pc[MC] = "wait" /\ UNCHANGED <<cur, got, bare, mac, peer, hash>>
        /\ pc' = [pc EXCEPT ![MC] = "alloc"]
    BY <1>2 DEF Woken, Goto, tables
  <2>2. pc'[MC] = "alloc" /\ \A t \in Threads : t # MC => Stays(t)
    BY <2>1, McMoves
  <2>3. McHolds
    BY <2>1, <2>2 DEF McHolds, Early, Blocking
  <2> QED
    BY <2>1, <2>2, <2>3, McQuietGone
<1>3. CASE WaitTimeout
  <2>1. /\ pc[MC] = "wait" /\ UNCHANGED <<peer, hash>>
        /\ pc' = [pc EXCEPT ![MC] = "idle"] /\ cur' = [cur EXCEPT ![MC] = NoPeer]
        /\ got' = [got EXCEPT ![MC] = NoPeer] /\ bare' = [bare EXCEPT ![MC] = NoPeer]
        /\ mac' = [mac EXCEPT ![MC] = NoMac]
    BY <1>3 DEF WaitTimeout, CreateFailed, Leave, Goto
  <2>2. pc'[MC] = "idle" /\ \A t \in Threads : t # MC => Stays(t)
    BY <2>1, McMoves
  <2>3. McHolds
    BY <2>1, <2>2, Elsewhere DEF Early, Blocking
  <2> QED
    BY <2>1, <2>2, <2>3, McQuietGone
<1>4. CASE InsertPeer
  <2>1. /\ pc[MC] = "insert" /\ UNCHANGED <<cur, got, bare, mac, peer, hash>>
        /\ pc' = [pc EXCEPT ![MC] = "init"]
    BY <1>4 DEF InsertPeer, Goto
  <2>2. pc'[MC] = "init" /\ \A t \in Threads : t # MC => Stays(t)
    BY <2>1, McMoves
  <2>3. McHolds
    BY <2>1, <2>2 DEF McHolds, Early, Blocking
  <2> QED
    BY <2>1, <2>2, <2>3, McQuietGone
<1>5. CASE CreateSend
  <2>1. /\ pc[MC] = "create_send" /\ UNCHANGED <<peer, hash>>
        /\ \/ /\ pc' = [pc EXCEPT ![MC] = "idle"] /\ cur' = [cur EXCEPT ![MC] = NoPeer]
              /\ got' = [got EXCEPT ![MC] = NoPeer] /\ bare' = [bare EXCEPT ![MC] = NoPeer]
              /\ mac' = [mac EXCEPT ![MC] = NoMac]
           \/ pc' = [pc EXCEPT ![MC] = "detach"] /\ UNCHANGED <<cur, got, bare, mac>>
    BY <1>5 DEF CreateSend, Leave, Goto, tables
  <2>2. pc'[MC] \in {"idle", "detach"} /\ \A t \in Threads : t # MC => Stays(t)
    BY <2>1, McMoves
  <2>3. McHolds
    BY <2>1, <2>2, Elsewhere DEF Early, Blocking
  <2> QED
    BY <2>1, <2>2, <2>3, McQuietGone
<1>6. CASE WmaRemovePeer
  <2>1. /\ pc[MC] = "remove_send" /\ UNCHANGED <<peer, hash>>
        /\ \/ /\ pc' = [pc EXCEPT ![MC] = "idle"] /\ cur' = [cur EXCEPT ![MC] = NoPeer]
              /\ got' = [got EXCEPT ![MC] = NoPeer] /\ bare' = [bare EXCEPT ![MC] = NoPeer]
              /\ mac' = [mac EXCEPT ![MC] = NoMac]
           \/ pc' = [pc EXCEPT ![MC] = "detach"] /\ UNCHANGED <<cur, got, bare, mac>>
    BY <1>6 DEF WmaRemovePeer, Leave, Goto, tables
  <2>2. pc'[MC] \in {"idle", "detach"} /\ \A t \in Threads : t # MC => Stays(t)
    BY <2>1, McMoves
  <2>3. McHolds
    BY <2>1, <2>2, Elsewhere DEF Early, Blocking
  <2> QED
    BY <2>1, <2>2, <2>3, McQuietGone
<1>7. CASE OL_TXRX_LOCAL_PEER_ID_FREE
  <2>1. /\ pc[MC] = "free_id" /\ UNCHANGED <<cur, got, bare, mac, peer, hash>>
        /\ pc' = [pc EXCEPT ![MC] = "mark"]
    BY <1>7 DEF OL_TXRX_LOCAL_PEER_ID_FREE, Goto, tables
  <2>2. pc'[MC] = "mark" /\ \A t \in Threads : t # MC => Stays(t)
    BY <2>1, McMoves
  <2>3. McHolds
    BY <2>1, <2>2, Elsewhere DEF Early, Blocking
  <2> QED
    BY <2>1, <2>2, <2>3, McQuietGone
<1> QED
  BY <1>1, <1>2, <1>3, <1>4, <1>5, <1>6, <1>7

(* Every peer of the address was being deleted, so none is valid. *)
LEMMA DuplicateGone ==
  ASSUME PeerInv, PeerInv', BareOK, GoneInv, CheckDuplicate
  PROVE  GoneStep
<1> DEFINE dups == {i \in DOMAIN peer_list : peer[peer_list[i]].mac = mac[MC]}
           kept == {i \in dups : ~peer[peer_list[i]].delete_in_progress}
           waiting == {i \in dups : \A k \in kept : i < k}
<1>1. pc[MC] = "dup_check" /\ UNCHANGED <<peer, hash>>
  BY DEF CheckDuplicate
<1>2. CASE kept # {}
  <2>1. /\ pc' = [pc EXCEPT ![MC] = "idle"] /\ cur' = [cur EXCEPT ![MC] = NoPeer]
        /\ got' = [got EXCEPT ![MC] = NoPeer] /\ bare' = [bare EXCEPT ![MC] = NoPeer]
        /\ mac' = [mac EXCEPT ![MC] = NoMac]
    BY <1>2 DEF CheckDuplicate, CreateFailed, Leave, Goto
  <2> HIDE DEF kept
  <2>2. pc'[MC] = "idle" /\ \A t \in Threads : t # MC => Stays(t)
    BY <2>1, McMoves
  <2>3. McHolds
    BY <1>1, <2>2, Elsewhere DEF Early, Blocking
  <2> QED
    BY <1>1, <2>2, <2>3, McQuietGone
<1>3. CASE kept = {}
  <2>1. UNCHANGED <<cur, got, bare, mac>>
        /\ pc' = [pc EXCEPT ![MC] = IF waiting = {} THEN "alloc" ELSE "wait"]
    BY <1>3 DEF CheckDuplicate, Goto
  <2>2. \A p \in ToSet(hash) : peer[p].mac = mac[MC] => ~peer[p].valid
    <3> SUFFICES ASSUME NEW p \in ToSet(hash), peer[p].mac = mac[MC] PROVE ~peer[p].valid
      OBVIOUS
    <3>1. p \in Peers /\ Live(p)
      BY ObjectTypes DEF PeerInv, TableInv, NoDangling
    <3>2. p \in ToSet(peer_list)
      BY <1>1, <3>1 DEF PeerInv, TableInv, ListInv
    <3>3. PICK i \in DOMAIN peer_list : peer_list[i] = p
      BY <3>2 DEF ToSet
    <3>4. peer[p].delete_in_progress
      BY <1>3, <3>3
    <3> QED
      BY <3>1, <3>4 DEF GoneInv, MarkInv
  <2> HIDE DEF waiting, kept, dups
  <2>3. PICK w \in {"alloc", "wait"} : pc' = [pc EXCEPT ![MC] = w]
    BY <2>1
  <2>4. pc'[MC] = w /\ \A t \in Threads : t # MC => Stays(t)
    BY <2>1, <2>3, McMoves
  <2>5. Kept
    BY <1>1, KeptSame
  <2>6. HashInv'
    BY <1>1, <2>4 DEF GoneInv, HashInv, Early, Live
  <2>7. AttachInv'
    BY <1>1, <2>1, <2>2, <2>4 DEF AttachInv, Early
  <2>8. MarkInv' /\ NoneForgotten
    BY <1>1 DEF GoneInv, MarkInv, NoneForgotten, Forgotten
  <2> QED
    BY <2>4, <2>5, <2>6, <2>7, <2>8, McGone DEF GoneStep
<1> QED
  BY <1>2, <1>3

LEMMA AllocGone ==
  ASSUME PeerInv, PeerInv', BareOK, GoneInv, AllocPeer
  PROVE  GoneStep
<1>1. pc[MC] = "alloc" /\ hash' = hash /\ mac[MC] \in Macs
  BY DEF AllocPeer, tables, PeerInv, McInv, Creating
<1>2. CASE CreateFailed /\ UNCHANGED peer
  <2>1. /\ pc' = [pc EXCEPT ![MC] = "idle"] /\ cur' = [cur EXCEPT ![MC] = NoPeer]
        /\ got' = [got EXCEPT ![MC] = NoPeer] /\ bare' = [bare EXCEPT ![MC] = NoPeer]
        /\ mac' = [mac EXCEPT ![MC] = NoMac]
    BY <1>2 DEF CreateFailed, Leave, Goto
  <2>2. pc'[MC] = "idle" /\ \A t \in Threads : t # MC => Stays(t)
    BY <2>1, McMoves
  <2>3. McHolds
    BY <1>1, <2>2, Elsewhere DEF Early, Blocking
  <2> QED
    BY <1>1, <1>2, <2>2, <2>3, McQuietGone
<1>3. CASE ~(CreateFailed /\ UNCHANGED peer)
  <2>1. PICK p \in Peers :
            /\ peer[p].mem = "none"
            /\ peer' = PutMemory(peer, p, mac[MC])
            /\ cur' = [cur EXCEPT ![MC] = p] /\ pc' = [pc EXCEPT ![MC] = "insert"]
            /\ UNCHANGED <<got, bare, mac>>
    BY <1>3 DEF AllocPeer, Goto, PutMemory
  <2>2. pc'[MC] = "insert" /\ \A t \in Threads : t # MC => Stays(t)
    BY <2>1, McMoves
  <2>3. cur'[MC] = p
    BY <2>1, ThreadTypes
  <2>4. /\ peer'[p].mac = mac[MC]
        /\ \A q \in Peers : q # p => peer'[q] = peer[q]
        /\ \A q \in Peers : peer'[q].ref_cnt = peer[q].ref_cnt
        /\ \A q \in Peers : peer'[q].valid = peer[q].valid
        /\ \A q \in Peers : peer'[q].delete_in_progress = peer[q].delete_in_progress
    BY <1>1, <2>1, ObjectTypes, SetMemory
  <2>5. ToSet(hash) \subseteq Peers /\ p \notin ToSet(hash)
    BY <2>1, ObjectTypes DEF PeerInv, TableInv, NoDangling, Live
  <2>6. Kept
    BY <1>1, <2>4, <2>5, KeptSame
  <2>7. HashInv'
    BY <1>1, <2>2, <2>3, <2>4 DEF GoneInv, HashInv, Early, Live
  <2>8. pc[MC] \in Blocking /\ "insert" # "hash_add" /\ "insert" \notin {"update_dec", "write"}
    BY <1>1 DEF Blocking
  <2>9. AttachInv'
    <3>1. \A q \in ToSet(hash') : peer'[q].mac = mac'[MC] => ~peer'[q].valid
      BY <1>1, <2>1, <2>4, <2>5, <2>8 DEF GoneInv, AttachInv
    <3> QED
      BY <2>1, <2>2, <2>3, <2>4, <2>8, <3>1 DEF AttachInv
  <2>10. MarkInv' /\ NoneForgotten
    BY <1>1, <2>4, <2>5 DEF GoneInv, MarkInv, NoneForgotten, Forgotten
  <2> QED
    BY <2>2, <2>6, <2>7, <2>9, <2>10, McGone DEF GoneStep
<1> QED
  BY <1>2, <1>3

LEMMA InitGone ==
  ASSUME PeerInv, PeerInv', BareOK, GoneInv, InitPeer
  PROVE  GoneStep
<1>1. /\ pc[MC] = "init" /\ UNCHANGED <<cur, got, bare, mac, hash>>
      /\ pc' = [pc EXCEPT ![MC] = "hash_add"] /\ peer' = PutInitial(peer, cur[MC])
  BY DEF InitPeer, Goto, tables, PutInitial
<1>2. pc'[MC] = "hash_add" /\ \A t \in Threads : t # MC => Stays(t)
  BY <1>1, McMoves
<1>3. PICK p \in Peers : p = cur[MC]
  BY <1>1 DEF PeerInv, McInv
<1>0. peer' = PutInitial(peer, p) /\ peer \in Objects
  BY <1>1, <1>3, ObjectTypes
<1>4. /\ peer'[p].delete_in_progress = FALSE /\ peer'[p].peer_ids = <<>>
      /\ \A q \in Peers : q # p => peer'[q] = peer[q]
      /\ \A q \in Peers : peer'[q].mem = peer[q].mem /\ peer'[q].mac = peer[q].mac
  BY ZenonT(60), <1>0, SetInitial
<1>5. ToSet(hash) \subseteq Peers /\ p \notin ToSet(hash)
  BY <1>1, <1>3, ObjectTypes DEF PeerInv, TableInv, FreshInv, Early
<1>6. Kept
  BY <1>1, <1>4, <1>5, KeptSame
<1>7. McHolds
  BY <1>1, <1>2, <1>3, <1>4 DEF McHolds, Early, Blocking
<1>8. HashInv' /\ AttachInv'
  BY <1>4, <1>6, <1>7, AttachKeeps DEF GoneInv
<1>9. MarkInv' /\ NoneForgotten
  BY <1>1, <1>4, <1>5 DEF GoneInv, MarkInv, NoneForgotten, Forgotten
<1> QED
  BY <1>2, <1>6, <1>8, <1>9, McGone DEF GoneStep

LEMMA InvalidateGone ==
  ASSUME PeerInv, PeerInv', BareOK, GoneInv, InvalidatePeer
  PROVE  GoneStep
<1>1. /\ pc[MC] = "detach" /\ UNCHANGED <<cur, got, bare, mac, hash>>
      /\ pc' = [pc EXCEPT ![MC] = "free_id"] /\ peer' = PutInvalid(peer, cur[MC])
  BY DEF InvalidatePeer, Goto, tables, PutInvalid
<1>2. pc'[MC] = "free_id" /\ \A t \in Threads : t # MC => Stays(t)
  BY <1>1, McMoves
<1>3. PICK p \in Peers : p = cur[MC]
  BY <1>1 DEF PeerInv, McInv, HasPeer
<1>0. peer' = PutInvalid(peer, p) /\ peer \in Objects
  BY <1>1, <1>3, ObjectTypes
<1>4. /\ peer'[p].valid = FALSE
      /\ \A q \in Peers : q # p => peer'[q] = peer[q]
      /\ \A q \in Peers : peer'[q].mem = peer[q].mem /\ peer'[q].mac = peer[q].mac
      /\ \A q \in Peers : peer'[q].ref_cnt = peer[q].ref_cnt
      /\ \A q \in Peers : peer'[q].peer_ids = peer[q].peer_ids
      /\ \A q \in Peers : peer'[q].delete_in_progress = peer[q].delete_in_progress
  BY <1>0, SetInvalid
<1>5. ToSet(hash) \subseteq Peers /\ \A q \in Peers : peer'[q].valid => peer[q].valid
  BY <1>4, ObjectTypes
<1>6. Kept
  BY <1>1, <1>4, <1>5, KeptSame
<1>7. McHolds
  BY <1>1, <1>2, Elsewhere DEF Early, Blocking
<1>8. HashInv' /\ AttachInv'
  BY <1>4, <1>6, <1>7, AttachKeeps DEF GoneInv
<1>9. MarkInv' /\ NoneForgotten
  BY <1>1, <1>4, <1>5 DEF GoneInv, MarkInv, NoneForgotten, Forgotten
<1> QED
  BY <1>2, <1>6, <1>8, <1>9, McGone DEF GoneStep

LEMMA MarkGone ==
  ASSUME PeerInv, PeerInv', BareOK, GoneInv, MarkDeleted
  PROVE  GoneStep
<1>1. /\ pc[MC] = "mark" /\ UNCHANGED <<cur, got, bare, mac, hash>>
      /\ pc' = [pc EXCEPT ![MC] = "detach_unref"] /\ peer' = PutMark(peer, cur[MC])
  BY DEF MarkDeleted, Goto, tables, PutMark
<1>2. pc'[MC] = "detach_unref" /\ \A t \in Threads : t # MC => Stays(t)
  BY <1>1, McMoves
<1>3. PICK p \in Peers : p = cur[MC] /\ ~peer[p].valid
  BY <1>1 DEF PeerInv, McInv, Leaving
<1>0. peer' = PutMark(peer, p) /\ peer \in Objects
  BY <1>1, <1>3, ObjectTypes
<1>4. /\ \A q \in Peers : q # p => peer'[q] = peer[q]
      /\ \A q \in Peers : peer'[q].mem = peer[q].mem /\ peer'[q].mac = peer[q].mac
      /\ \A q \in Peers : peer'[q].ref_cnt = peer[q].ref_cnt
      /\ \A q \in Peers : peer'[q].peer_ids = peer[q].peer_ids
      /\ \A q \in Peers : peer'[q].valid = peer[q].valid
  BY ZenonT(60), <1>0, SetMark
<1>5. ToSet(hash) \subseteq Peers
  BY ObjectTypes
<1>6. Kept
  BY <1>1, <1>4, <1>5, KeptSame
<1>7. McHolds
  BY <1>1, <1>2, Elsewhere DEF Early, Blocking
<1>8. HashInv' /\ AttachInv'
  BY <1>4, <1>6, <1>7, AttachKeeps DEF GoneInv
<1>9. MarkInv'
  BY <1>3, <1>4 DEF GoneInv, MarkInv
<1>10. NoneForgotten
  BY <1>1, <1>4, <1>5 DEF NoneForgotten, Forgotten
<1> QED
  BY <1>2, <1>6, <1>8, <1>9, <1>10, McGone DEF GoneStep

LEMMA LocalIdGone ==
  ASSUME PeerInv, PeerInv', BareOK, GoneInv, OL_TXRX_LOCAL_PEER_ID_ALLOC
  PROVE  GoneStep
<1>1. /\ pc[MC] = "local_id" /\ UNCHANGED <<cur, got, bare, mac, hash>>
      /\ pc' = [pc EXCEPT ![MC] = "create_send"]
  BY DEF OL_TXRX_LOCAL_PEER_ID_ALLOC, Goto, tables
<1>2. pc'[MC] = "create_send" /\ \A t \in Threads : t # MC => Stays(t)
  BY <1>1, McMoves
<1>3. PICK p \in Peers : p = cur[MC]
  BY <1>1 DEF PeerInv, McInv, HasPeer, Naming
<1>4. PICK x \in Lids \cup {INVALID} : peer' = PutLocalId(peer, p, x)
  <2>1. freelist \in Seq(Lids)
    BY ObjectTypes
  <2>2. freelist # <<>> => Head(freelist) \in Lids
    BY <2>1
  <2> QED
    BY <1>3, <2>2 DEF OL_TXRX_LOCAL_PEER_ID_ALLOC, PutLocalId
<1>5. /\ \A q \in Peers : q # p => peer'[q] = peer[q]
      /\ \A q \in Peers : peer'[q].mem = peer[q].mem /\ peer'[q].mac = peer[q].mac
      /\ \A q \in Peers : peer'[q].ref_cnt = peer[q].ref_cnt
      /\ \A q \in Peers : peer'[q].peer_ids = peer[q].peer_ids
      /\ \A q \in Peers : peer'[q].valid = peer[q].valid
      /\ \A q \in Peers : peer'[q].delete_in_progress = peer[q].delete_in_progress
  BY <1>4, ObjectTypes, SetLocalId
<1>6. NamesKept
  BY <1>5 DEF NamesKept
<1>7. McHolds
  BY <1>1, <1>2, Elsewhere DEF Early, Blocking
<1>8. \A q \in ToSet(hash) : peer'[q].ref_cnt = peer[q].ref_cnt
  BY <1>5, ObjectTypes
<1> QED
  BY <1>1, <1>2, <1>6, <1>7, <1>8, McObjectGone

LEMMA DetachGone ==
  ASSUME PeerInv, PeerInv', BareOK, GoneInv, DetachUnref
  PROVE  GoneStep
<1>1. /\ pc[MC] = "detach_unref" /\ ol_txrx_peer_unref_delete(cur[MC], peer)
      /\ pc' = [pc EXCEPT ![MC] = "idle"] /\ cur' = [cur EXCEPT ![MC] = NoPeer]
      /\ got' = [got EXCEPT ![MC] = NoPeer] /\ bare' = [bare EXCEPT ![MC] = NoPeer]
      /\ mac' = [mac EXCEPT ![MC] = NoMac]
  BY DEF DetachUnref, Leave, Goto
<1>2. pc'[MC] = "idle" /\ \A t \in Threads : t # MC => Stays(t)
  BY <1>1, McMoves
<1>3. PICK p \in Peers : p = cur[MC]
  BY <1>1 DEF PeerInv, McInv, Leaving
<1>4. Kept /\ NamesKept /\ NoneForgotten
  <2>1. RefA(p) >= 1
    BY <1>1, <1>3 DEF RefA, Attached
  <2>2. \A q : Precedes(q, p) => peer[p].ref_cnt # 1
    BY <2>1, ShadowRef
  <2> QED
    BY <1>1, <1>3, <2>2, UnrefGone
<1>5. McHolds
  BY <1>1, <1>2, Elsewhere DEF Early, Blocking
<1>6. HashInv' /\ AttachInv'
  BY <1>4, <1>5, AttachKeeps DEF GoneInv, NamesKept
<1>7. MarkInv'
  BY <1>4 DEF GoneInv, MarkInv, NamesKept
<1> QED
  BY <1>2, <1>4, <1>6, <1>7, McGone DEF GoneStep

(* What this thread finds is valid, and so keeps the reference of the      *)
(* attachment when the lookup's own is dropped.                            *)
LEMMA McFindGone ==
  ASSUME PeerInv, PeerInv', BareOK, GoneInv, ol_txrx_find_peer_by_addr(MC)
  PROVE  GoneStep
<1>1. PICK p : p = ol_txrx_peer_find_hash_find(mac[MC], TRUE)
  OBVIOUS
<1>2. /\ pc[MC] \in {"find", "update"} /\ UNCHANGED <<cur, bare, hash>>
      /\ got' = [got EXCEPT ![MC] = p]
      /\ IF p = NoPeer
           THEN /\ pc' = [pc EXCEPT ![MC] = AfterFind(MC)] /\ peer' = peer
                /\ mac' = [mac EXCEPT ![MC] = IF AfterFind(MC) = "idle" THEN NoMac ELSE @]
           ELSE /\ peer' = [peer EXCEPT ![p].ref_cnt = @ + 1]
                /\ pc' = [pc EXCEPT ![MC] = IF pc[MC] = "find" THEN "find_dec" ELSE "update_dec"]
                /\ mac' = mac
  BY <1>1 DEF ol_txrx_find_peer_by_addr, GotoNext, Goto, tables
<1>3. CASE p = NoPeer
  <2>1. PICK w \in {"local_id", "remove_send"} :
           /\ pc' = [pc EXCEPT ![MC] = w] /\ \E m : mac' = [mac EXCEPT ![MC] = m]
    BY <1>2, <1>3 DEF AfterFind
  <2>2. pc'[MC] = w /\ \A t \in Threads : t # MC => Stays(t)
    BY <1>2, <2>1, McMoves
  <2>3. McHolds
    BY <1>2, <2>2, Elsewhere DEF Early, Blocking
  <2> QED
    BY <1>2, <1>3, <2>2, <2>3, McQuietGone
<1>4. CASE p # NoPeer
  <2>1. TRUE \in BOOLEAN /\ peer \in Objects /\ hash \in Seq(Peers) /\ ToSet(hash) \subseteq Peers
    BY ObjectTypes
  <2>2. p \in Peers /\ peer[p].valid
    BY <1>1, <1>4, <2>1, FindFacts
  <2> DEFINE x == peer[p].ref_cnt + 1
  <2>3. x \in Nat /\ x > 0
    BY <2>1, <2>2 DEF Objects, PeerRec
  <2>4. peer' = PutRef(peer, p, x)
    BY <1>2, <1>4, <2>2 DEF PutRef
  <2> HIDE DEF x
  <2>5. SameButCount /\ NamesKept /\ peer'[p].ref_cnt = x
        /\ \A q \in Peers : q # p => peer'[q].ref_cnt = peer[q].ref_cnt
    BY <2>1, <2>2, <2>3, <2>4, CountOnly, CountNames
  <2>6. PICK w \in {"find_dec", "update_dec"} : pc' = [pc EXCEPT ![MC] = w]
    BY <1>2, <1>4
  <2>7. pc'[MC] = w /\ \A t \in Threads : t # MC => Stays(t)
    BY <1>2, <1>4, <2>6, McMoves
  <2>8. got'[MC] = p
    BY <1>2, ThreadTypes
  <2>9. peer'[got'[MC]].valid
    BY <2>2, <2>5, <2>8 DEF NamesKept
  <2>10. McHolds
    BY <1>2, <2>7, <2>9 DEF McHolds, Early, Blocking
  <2>11. \A q \in ToSet(hash) : peer'[q].ref_cnt > 0 \/ peer'[q].ref_cnt = peer[q].ref_cnt
    BY <2>1, <2>3, <2>5
  <2> QED
    BY <1>2, <2>5, <2>7, <2>10, <2>11, McObjectGone
<1> QED
  BY <1>3, <1>4

LEMMA McDecGone ==
  ASSUME PeerInv, PeerInv', BareOK, GoneInv, PlainDec(MC)
  PROVE  GoneStep
<1>1. PICK p \in Peers : p = got[MC]
  BY DecMoves
<1>2. /\ pc[MC] \in Between /\ MC \in Threads /\ hash' = hash
      /\ peer' = [peer EXCEPT ![p].ref_cnt = @ - 1]
      /\ got' = [got EXCEPT ![MC] = NoPeer] /\ mac' = mac
      /\ \/ /\ pc' = [pc EXCEPT ![MC] = "remove_send"] /\ cur' = [cur EXCEPT ![MC] = p]
            /\ bare' = bare
         \/ pc' = [pc EXCEPT ![MC] = "write"] /\ cur' = cur /\ bare' = [bare EXCEPT ![MC] = p]
         \/ pc' = [pc EXCEPT ![MC] = "local_id"] /\ cur' = cur /\ bare' = bare
  BY <1>1, DecMoves
<1>3. peer[p].valid
  BY <1>1, <1>2 DEF PeerInv, McInv, GoneInv, AttachInv
<1>4. got[MC] # NoPeer
  BY <1>1, ObjectTypes
<1>5. Live(p) /\ ~Raw(p) /\ RefG(p) >= 1
  BY <1>1, <1>2, <1>4, GotPeer
<1>6. RefA(p) >= 1
  BY <1>3, RefHeld DEF Attached
<1>7. peer[p].ref_cnt \in Nat /\ peer[p].ref_cnt >= 2
  BY <1>5, <1>6, TwoReferences
<1> DEFINE x == peer[p].ref_cnt - 1
<1>8. x \in Nat /\ x > 0 /\ peer' = PutRef(peer, p, x)
  BY <1>2, <1>7 DEF PutRef
<1> HIDE DEF x
<1>9. SameButCount /\ NamesKept /\ peer'[p].ref_cnt = x
      /\ \A q \in Peers : q # p => peer'[q].ref_cnt = peer[q].ref_cnt
  BY <1>8, ObjectTypes, CountOnly, CountNames
<1>10. PICK w \in {"local_id", "remove_send", "write"} :
          /\ pc' = [pc EXCEPT ![MC] = w]
          /\ w = "write" => bare' = [bare EXCEPT ![MC] = p]
  BY <1>2
<1>11. pc'[MC] = w /\ \A t \in Threads : t # MC => Stays(t)
  <2>1. /\ cur' = cur \/ \E c : cur' = [cur EXCEPT ![MC] = c]
        /\ got' = got \/ \E g : got' = [got EXCEPT ![MC] = g]
        /\ bare' = bare \/ \E b : bare' = [bare EXCEPT ![MC] = b]
        /\ mac' = mac \/ \E m : mac' = [mac EXCEPT ![MC] = m]
    BY <1>2
  <2> QED
    BY <1>10, <2>1, McMoves
<1>12. McHolds
  <2>1. w = "write" => bare'[MC] = p /\ peer'[p].valid
    BY <1>2, <1>3, <1>9, <1>10 DEF BareOK, NamesKept
  <2> QED
    BY <1>2, <1>11, <2>1 DEF McHolds, Early, Blocking
<1>13. \A q \in ToSet(hash) : peer'[q].ref_cnt > 0 \/ peer'[q].ref_cnt = peer[q].ref_cnt
  BY <1>8, <1>9, ObjectTypes
<1> QED
  BY <1>2, <1>9, <1>11, <1>12, <1>13, McObjectGone

LEMMA McFollowGone ==
  ASSUME PeerInv, PeerInv', BareOK, GoneInv, FollowBare(MC)
  PROVE  GoneStep
<1>1. /\ pc[MC] \in {"peeked", "write"} /\ UNCHANGED <<cur, got, peer, hash>>
      /\ bare' = [bare EXCEPT ![MC] = NoPeer] /\ pc' = [pc EXCEPT ![MC] = AfterFind(MC)]
      /\ mac' = [mac EXCEPT ![MC] = IF AfterFind(MC) = "idle" THEN NoMac ELSE @]
  BY DEF FollowBare, GotoNext, Goto, tables
<1>2. PICK w \in {"local_id", "remove_send"} : pc' = [pc EXCEPT ![MC] = w]
  BY <1>1 DEF AfterFind
<1>3. pc'[MC] = w /\ \A t \in Threads : t # MC => Stays(t)
  BY <1>1, <1>2, McMoves
<1>4. McHolds
  BY <1>1, <1>3, Elsewhere DEF Early, Blocking
<1> QED
  BY <1>1, <1>3, <1>4, McQuietGone

(* The new peer goes behind the ones of its address, which are invalid. *)
LEMMA HashAddGone ==
  ASSUME PeerInv, PeerInv', BareOK, GoneInv, ol_txrx_peer_find_hash_add
  PROVE  GoneStep
<1>1. /\ pc[MC] = "hash_add" /\ UNCHANGED <<cur, got, bare, mac, peer>>
      /\ pc' = [pc EXCEPT ![MC] = "update"] /\ hash' = Append(hash, cur[MC])
  BY DEF ol_txrx_peer_find_hash_add, Goto
<1>2. pc'[MC] = "update" /\ \A t \in Threads : t # MC => Stays(t)
  BY <1>1, McMoves
<1>3. PICK p \in Peers : p = cur[MC] /\ peer[p].valid
  BY <1>1 DEF PeerInv, McInv, HasPeer
<1>4. /\ pc[MC] \in Early /\ pc[MC] \in Blocking /\ p \notin ToSet(hash)
      /\ Tasklet \in Threads \ {MC} /\ cur[Tasklet] # p
  BY <1>1, <1>3, ThreadsFinite DEF Early, Blocking, PeerInv, TableInv, FreshInv
<1>5. /\ peer[p].mac = mac[MC] /\ peer[p].peer_ids = <<>>
      /\ \A q \in ToSet(hash) : peer[q].mac = peer[p].mac => ~peer[q].valid
  BY <1>1, <1>3, <1>4 DEF GoneInv, AttachInv
<1>6. PICK n : n = Len(hash)
  OBVIOUS
<1>7. /\ n \in Nat /\ DOMAIN hash = 1..n /\ DOMAIN hash' = 1..(n + 1)
      /\ \A i \in 1..n : hash'[i] = hash[i]
      /\ hash'[n + 1] = p
  BY <1>1, <1>3, <1>6, ObjectTypes
<1>8. ToSet(hash') = ToSet(hash) \cup {p}
  BY <1>1, <1>3, ObjectTypes, AppendFacts
<1>9. HashInv'
  BY <1>1, <1>3, <1>8 DEF GoneInv, HashInv, Live
<1>10. AttachInv'
  BY <1>2 DEF AttachInv, Early, Blocking
<1>11. MarkInv'
  BY <1>1 DEF GoneInv, MarkInv
<1>12. NoneForgotten
  <2>1. Live(p) /\ ~Raw(p) /\ Attached(p)
    BY <1>1, <1>3 DEF Raw, Attached, PeerInv, TableInv, MapInv
  <2>2. peer[p].ref_cnt \in Nat /\ peer[p].ref_cnt >= 1
    BY <2>1, HeldCount
  <2> QED
    BY <1>1, <1>8, <2>2 DEF NoneForgotten, Forgotten
<1>13. ShadowInv'
  <2> SUFFICES ASSUME NEW i \in DOMAIN hash', NEW j \in DOMAIN hash', i < j,
                      peer'[hash'[i]].mac = peer'[hash'[j]].mac
               PROVE  /\ ~peer'[hash'[i]].valid
                      /\ peer'[hash'[j]].peer_ids = <<>>
                      /\ cur'[Tasklet] # hash'[j]
    BY DEF ShadowInv
  <2>1. i \in 1..n /\ (j \in 1..n \/ j = n + 1)
    BY <1>7
  <2>2. CASE j \in 1..n
    BY <1>1, <1>7, <2>1, <2>2 DEF GoneInv, ShadowInv
  <2>3. CASE j = n + 1
    <3>1. hash'[i] = hash[i] /\ hash[i] \in ToSet(hash) /\ hash'[j] = p
      BY <1>7, <2>1, <2>3 DEF ToSet
    <3> QED
      BY <1>1, <1>4, <1>5, <3>1
  <2> QED
    BY <2>1, <2>2, <2>3
<1>14. UpdateInv'
  <2> SUFFICES ASSUME NEW u \in Users PROVE Updating(u)'
    BY DEF UpdateInv
  <2>1. Stays(u) /\ Updating(u)
    BY <1>2, ThreadsFinite DEF GoneInv, UpdateInv
  <2>2. ASSUME NEW b, Precedes(cur[u], b)
        PROVE  \E i, j \in DOMAIN hash' : /\ i < j /\ hash'[i] = cur[u] /\ hash'[j] = b
                                          /\ peer'[cur[u]].mac = peer'[b].mac
    <3>1. PICK i, j \in DOMAIN hash : /\ i < j /\ hash[i] = cur[u] /\ hash[j] = b
                                      /\ peer[cur[u]].mac = peer[b].mac
      BY <2>2 DEF Precedes
    <3>2. i \in DOMAIN hash' /\ j \in DOMAIN hash' /\ hash'[i] = hash[i] /\ hash'[j] = hash[j]
      BY <1>7
    <3> QED
      BY <1>1, <3>1, <3>2
  <2>3. Precedes(cur[u], got[u]) =>
          \E i, j \in DOMAIN hash' : /\ i < j /\ hash'[i] = cur[u] /\ hash'[j] = got[u]
                                     /\ peer'[cur[u]].mac = peer'[got[u]].mac
    BY <2>2
  <2>4. Precedes(cur[u], bare[u]) =>
          \E i, j \in DOMAIN hash' : /\ i < j /\ hash'[i] = cur[u] /\ hash'[j] = bare[u]
                                     /\ peer'[cur[u]].mac = peer'[bare[u]].mac
    BY <2>2
  <2> QED
    BY <1>1, <2>1, <2>3, <2>4 DEF Updating, Precedes, Stays
<1> QED
  BY <1>9, <1>10, <1>11, <1>12, <1>13, <1>14 DEF GoneInv, GoneStep

(* The one exception to NoneForgotten. *)
PeekerForgets ==
    \A p \in Peers : Forgotten(p)' =>
        Forgotten(p) \/ \E t \in Peekers : pc[t] = "find_dec" /\ got[t] = p /\ PlainDec(t)

LEMMA NextGone ==
  ASSUME PeerInv, PeerInv', BareOK, GoneInv, [Next]_vars
  PROVE  GoneInv' /\ PeekerForgets
<1>0. GoneStep => GoneInv' /\ PeekerForgets
  BY DEF GoneStep, NoneForgotten, PeekerForgets
<1>1. ASSUME NEW m \in Macs, WmaCreatePeer(m) PROVE GoneStep
  BY <1>1, QuietStepsGone
<1>2. ASSUME NEW t \in {MC} \cup Peekers, NEW m \in Macs, StartFind(t, m) PROVE GoneStep
  <2>1. CASE t = MC
    BY <1>2, <2>1, QuietStepsGone
  <2>2. CASE t \in Peekers
    <3>1. t \in Users
      BY <2>2, PeerAssumption
    <3> QED
      BY <1>2, <2>2, <3>1, PeekGone
  <2> QED
    BY <2>1, <2>2
<1>3. CASE ol_txrx_vdev_detach
  BY <1>0, <1>3, TargetGone DEF ol_txrx_vdev_detach, threads
<1>4. CASE McStep
  BY <1>0, <1>4, DuplicateGone, QuietStepsGone, AllocGone, InitGone, HashAddGone, LocalIdGone,
     InvalidateGone, MarkGone, DetachGone DEF McStep
<1>5. ASSUME NEW t \in {MC} \cup Users, ThreadStep(t) PROVE GoneInv' /\ PeekerForgets
  <2>1. CASE t = MC
    <3>1. GoneStep
      BY <1>5, <2>1, McFindGone, McDecGone, McFollowGone DEF ThreadStep
    <3> QED
      BY <1>0, <3>1
  <2>2. CASE t \in Users
    <3>1. CASE ol_txrx_find_peer_by_addr(t)
      BY <1>0, <2>2, <3>1, FindGone
    <3>2. CASE PlainDec(t)
      <4>1. /\ GoneInv'
            /\ NoneForgotten \/ (t \in Peekers /\ pc[t] = "find_dec")
            /\ \A p \in Peers : Forgotten(p)' => Forgotten(p) \/ p = got[t]
        BY <2>2, <3>2, DecGone
      <4> QED
        BY <3>2, <4>1 DEF NoneForgotten, PeekerForgets
    <3>3. CASE FollowBare(t)
      BY <1>0, <2>2, <3>3, FollowGone
    <3> QED
      BY <1>5, <3>1, <3>2, <3>3 DEF ThreadStep
  <2> QED
    BY <2>1, <2>2
<1>6. CASE TargetStep
  BY <1>0, <1>6, TargetGone DEF TargetStep, TargetCreate, TargetDelete, threads, tables
<1>7. CASE TaskletStep
  BY <1>0, <1>7, MapFindGone, MapAddGone, UnmapGone DEF TaskletStep
<1>8. ASSUME NEW u \in Users, NEW i \in Lids, ol_txrx_peer_find_with_ref_by_local_id(u, i)
      PROVE  GoneStep
  BY <1>8, LocalFindGone
<1>9. ASSUME NEW u \in Users, UserStep(u) PROVE GoneStep
  BY <1>9, ChangeGone, ReleaseGone DEF UserStep
<1>10. CASE UNCHANGED vars
  BY <1>0, <1>10, TargetGone DEF vars, threads, tables
<1> QED
  BY <1>0, <1>1, <1>2, <1>3, <1>4, <1>5, <1>6, <1>7, <1>8, <1>9, <1>10 DEF Next

LEMMA InitGoneInv ==
  ASSUME Init
  PROVE  GoneInv
<1>1. /\ hash = <<>> /\ ToSet(hash) = {} /\ DOMAIN hash = {}
      /\ \A p \in Peers : peer[p] = Zeroed
      /\ \A t \in Threads : pc[t] = "idle"
  BY DEF Init, ToSet
<1>2. MC \in Threads /\ Users \subseteq Threads
  BY ThreadsFinite
<1>3. \A p \in Peers : peer[p].mem = "none" /\ peer[p].delete_in_progress = FALSE
  BY <1>1 DEF Zeroed
<1>4. HashInv /\ MarkInv
  BY <1>3 DEF HashInv, MarkInv, Live
<1>5. AttachInv
  BY <1>1, <1>2 DEF AttachInv, Early, Blocking
<1>6. ShadowInv /\ UpdateInv
  BY <1>1, <1>2 DEF ShadowInv, UpdateInv, Updating
<1> QED
  BY <1>4, <1>5, <1>6 DEF GoneInv

LEMMA GoneInvariance == Spec => []GoneInv
<1>1. Init => GoneInv
  BY InitGoneInv
<1>2. PeerInv /\ PeerInv' /\ BareOK /\ GoneInv /\ [Next]_vars => GoneInv'
  BY NextGone
<1> QED
  BY <1>1, <1>2, Invariance, BareTypes, PTL DEF Spec

(* ol_txrx_peer_state_update writes into a live peer, although it drops    *)
(* the reference of its lookup before: its caller has a reference to the   *)
(* peer it named, and a second peer of the same address keeps the one for  *)
(* the map handler while the first is in the bin.                          *)
THEOREM StateWritesSafe == Spec => []StateWriteSafe
<1>1. PeerInv /\ GoneInv => StateWriteSafe
  <2> SUFFICES ASSUME PeerInv, GoneInv, NEW t \in {MC} \cup Users, pc[t] = "write"
               PROVE  Live(bare[t])
    BY DEF StateWriteSafe
  <2>1. CASE t = MC
    BY <2>1 DEF GoneInv, AttachInv, PeerInv, TableInv, MapInv
  <2>2. CASE t \in Users
    <3>1. cur[t] # NoPeer /\ t \in Threads
      BY <2>2, ThreadsFinite DEF PeerInv, OtherInv
    <3>2. CASE bare[t] = cur[t]
      BY <3>1, <3>2 DEF PeerInv, TableInv, NoDangling
    <3>3. CASE Precedes(cur[t], bare[t])
      <4>1. bare[t] \in ToSet(hash)
        BY <3>3 DEF Precedes, ToSet
      <4> QED
        BY <4>1 DEF PeerInv, TableInv, NoDangling
    <3> QED
      BY <2>2, <3>2, <3>3 DEF GoneInv, UpdateInv, Updating
  <2> QED
    BY <2>1, <2>2
<1> QED
  BY <1>1, Invariance, GoneInvariance, PTL

(* Only a caller of ol_txrx_find_peer_by_addr that has no reference of its *)
(* own can drop the last one without deleting the peer.  The decrements of *)
(* ol_txrx_peer_state_update, though it may find another peer of the same  *)
(* address, and of WMA's removal leave a reference whose release deletes   *)
(* the peer; and so does every release under peer_ref_mutex.               *)
THEOREM NoneLeftBehind == Spec => OnlyPeekersForget
<1>1. PeerInv /\ PeerInv' /\ BareOK /\ GoneInv /\ [Next]_vars => PeekerForgets
  BY NextGone
<1>2. Spec => [][PeekerForgets]_vars
  BY <1>1, Invariance, BareTypes, GoneInvariance, PTL DEF Spec
<1> QED
  BY <1>2 DEF OnlyPeekersForget, PeekerForgets

-----------------------------------------------------------------------------
(***************************************************************************)
(* Counts are exact, if no ID is mapped that is still mapped.              *)
(*                                                                         *)
(* Covered says that no count is too low; Exact, that none is too high.    *)
(* Every step drops as many references as it takes from the count, with    *)
(* one exception: a PEER_MAP for an ID that the table still gives to a     *)
(* peer takes this reference away without a release.                       *)
(***************************************************************************)

(* The target does not reuse an ID before it has unmapped it. *)
IdFree == pc[Tasklet] = "map" => peer_id_to_obj_map[Head(msgs).id] = NoPeer

Exact == \A p \in Peers : (Live(p) /\ ~Raw(p)) => peer[p].ref_cnt <= References(p)

(* A peer keeps no more in its count than it keeps references. *)
LEMMA ExactBy ==
  ASSUME PeerInv, Exact, peer' \in Objects,
         \A p \in Peers : (Live(p)' /\ ~Raw(p)') =>
            /\ Live(p) /\ ~Raw(p)
            /\ RefA(p) + RefI(p) + RefG(p) + RefC(p) + peer'[p].ref_cnt
                 <= RefA(p)' + RefI(p)' + RefG(p)' + RefC(p)' + peer[p].ref_cnt
  PROVE  Exact'
<1> SUFFICES ASSUME NEW p \in Peers, Live(p)', ~Raw(p)'
             PROVE  peer'[p].ref_cnt <= References(p)'
  BY DEF Exact
<1>1. /\ peer[p].ref_cnt <= References(p)
      /\ peer[p].ref_cnt \in Nat /\ peer'[p].ref_cnt \in Nat
  BY ObjectTypes DEF Exact, Objects, PeerRec
<1>2. /\ References(p) = RefA(p) + RefI(p) + RefG(p) + RefC(p)
      /\ RefA(p) \in Nat /\ RefI(p) \in Nat /\ RefG(p) \in Nat /\ RefC(p) \in Nat
  BY RefParts
<1>3. /\ References(p)' = RefA(p)' + RefI(p)' + RefG(p)' + RefC(p)'
      /\ RefA(p)' \in Nat /\ RefI(p)' \in Nat /\ RefG(p)' \in Nat /\ RefC(p)' \in Nat
  BY RefPartsNext
<1> DEFINE r == peer[p].ref_cnt
           s == peer'[p].ref_cnt
<1>4. /\ r \in Nat /\ s \in Nat /\ r <= References(p)
      /\ RefA(p) + RefI(p) + RefG(p) + RefC(p) + s
            <= RefA(p)' + RefI(p)' + RefG(p)' + RefC(p)' + r
  BY <1>1
<1> HIDE DEF r, s
<1>5. s <= References(p)'
  BY <1>2, <1>3, <1>4
<1> QED
  BY <1>5 DEF s

(* The parts of the sum that a step leaves alone. *)
LEMMA GotStays ==
  ASSUME \A t \in Threads : got'[t] = got[t]
  PROVE  \A q : RefG(q)' = RefG(q)
<1>1. \A q : Holders(got, Threads, q)' = Holders(got, Threads, q)
  BY DEF Holders
<1> QED
  BY <1>1 DEF RefG

LEMMA IdsStay ==
  ASSUME NEW q, peer_id_to_obj_map' = peer_id_to_obj_map, peer'[q].peer_ids = peer[q].peer_ids
  PROVE  RefI(q)' = RefI(q)
BY DEF RefI, Holders

(* The main controller thread stays between the same two changes of what   *)
(* it does to the attachment of a peer.                                    *)
Unborn == {"insert", "init"}
Steady ==
    \/ /\ cur'[MC] = cur[MC]
       /\ pc'[MC] \in Leaving <=> pc[MC] \in Leaving
       /\ pc'[MC] \in Unborn <=> pc[MC] \in Unborn
    \/ pc[MC] \notin Leaving \cup Unborn /\ pc'[MC] \notin Leaving \cup Unborn

LEMMA AttachStays ==
  ASSUME Steady, NEW q, peer'[q].valid = peer[q].valid
  PROVE  RefA(q)' = RefA(q) /\ (Raw(q)' <=> Raw(q))
<1>1. Attached(q)' <=> Attached(q)
  BY DEF Attached, Steady, Leaving
<1>2. Raw(q)' <=> Raw(q)
  BY DEF Raw, Steady, Unborn
<1> QED
  BY <1>1, <1>2 DEF RefA

(* No pointer to a peer moves, no count changes. *)
LEMMA SameRefs ==
  ASSUME PeerInv, Exact, peer' \in Objects, peer_id_to_obj_map' = peer_id_to_obj_map,
         \A t \in Threads : got'[t] = got[t],
         \A t \in Threads \ {MC} : cur'[t] = cur[t],
         \A p \in Peers : Live(p)' /\ ~Raw(p)' =>
            /\ Live(p) /\ ~Raw(p) /\ RefA(p)' = RefA(p)
            /\ peer'[p].ref_cnt = peer[p].ref_cnt /\ peer'[p].peer_ids = peer[p].peer_ids
  PROVE  Exact'
<1> SUFFICES ASSUME NEW p \in Peers, Live(p)', ~Raw(p)'
      PROVE  /\ Live(p) /\ ~Raw(p)
             /\ RefA(p) + RefI(p) + RefG(p) + RefC(p) + peer'[p].ref_cnt
                  <= RefA(p)' + RefI(p)' + RefG(p)' + RefC(p)' + peer[p].ref_cnt
  BY ExactBy
<1>1. /\ Live(p) /\ ~Raw(p) /\ RefA(p)' = RefA(p)
      /\ peer'[p].ref_cnt = peer[p].ref_cnt /\ peer'[p].peer_ids = peer[p].peer_ids
  OBVIOUS
<1>2. RefI(p)' = RefI(p) /\ RefG(p)' = RefG(p) /\ RefC(p)' = RefC(p)
  BY <1>1, IdsStay, GotStays, CurStays
<1>3. peer[p].ref_cnt \in Nat
  BY ObjectTypes DEF Objects, PeerRec
<1>4. RefA(p) \in Nat /\ RefI(p) \in Nat /\ RefG(p) \in Nat /\ RefC(p) \in Nat
  BY RefParts
<1> DEFINE r == peer[p].ref_cnt
<1>5. r \in Nat /\ peer'[p].ref_cnt = r
  BY <1>1, <1>3
<1> HIDE DEF r
<1>6. RefA(p) + RefI(p) + RefG(p) + RefC(p) + r <= RefA(p)' + RefI(p)' + RefG(p)' + RefC(p)' + r
  BY <1>1, <1>2, <1>4, <1>5
<1> QED
  BY <1>1, <1>5, <1>6 DEF r

(* Nothing but places and operands changes. *)
LEMMA QuietExact ==
  ASSUME PeerInv, Exact, UNCHANGED <<peer, peer_id_to_obj_map>>, Steady,
         \A t \in Threads : got'[t] = got[t],
         \A t \in Threads \ {MC} : cur'[t] = cur[t]
  PROVE  Exact'
<1>1. peer' \in Objects
  BY ObjectTypes
<1>2. \A p \in Peers : RefA(p)' = RefA(p) /\ (Raw(p)' <=> Raw(p)) /\ (Live(p)' <=> Live(p))
  BY AttachStays DEF Live
<1> QED
  BY <1>1, <1>2, SameRefs

(* A step of the main controller thread that leaves the objects alone. *)
LEMMA McQuietExact ==
  ASSUME PeerInv, PeerInv', Exact, UNCHANGED <<peer, peer_id_to_obj_map>>,
         NEW w, pc' = [pc EXCEPT ![MC] = w],
         \/ UNCHANGED <<cur, got>>
         \/ cur' = [cur EXCEPT ![MC] = NoPeer] /\ got' = [got EXCEPT ![MC] = NoPeer],
         pc[MC] \notin {"find_dec", "update_dec"}, w \notin {"find_dec", "update_dec"},
         \/ pc[MC] \notin Leaving \cup Unborn /\ w \notin Leaving \cup Unborn
         \/ pc[MC] \in Leaving /\ w \in Leaving /\ cur' = cur
         \/ pc[MC] \in Unborn /\ w \in Unborn /\ cur' = cur
  PROVE  Exact'
<1>1. pc'[MC] = w
  BY ThreadTypes
<1>2. got[MC] = NoPeer
  BY DEF PeerInv, McInv
<1>3. \A t \in Threads : got'[t] = got[t]
  BY <1>2, ThreadTypes
<1>4. \A t \in Threads \ {MC} : cur'[t] = cur[t]
  BY ThreadTypes
<1>5. Steady
  BY <1>1 DEF Steady, Leaving, Unborn
<1> QED
  BY <1>3, <1>4, <1>5, QuietExact

LEMMA QuietStepsExact ==
  ASSUME PeerInv, PeerInv', Exact,
         \/ \E m \in Macs : WmaCreatePeer(m) \/ StartFind(MC, m)
         \/ CheckDuplicate \/ Woken \/ WaitTimeout \/ InsertPeer
         \/ ol_txrx_peer_find_hash_add \/ CreateSend \/ WmaRemovePeer
         \/ OL_TXRX_LOCAL_PEER_ID_FREE
  PROVE  Exact'
<1>1. ASSUME NEW m \in Macs, WmaCreatePeer(m) \/ StartFind(MC, m) PROVE Exact'
  <2>1. pc[MC] = "idle" /\ UNCHANGED <<cur, got, peer, peer_id_to_obj_map>>
    BY <1>1 DEF WmaCreatePeer, StartFind
  <2>2. PICK w \in {"dup_check", "find"} : pc' = [pc EXCEPT ![MC] = w]
    BY <1>1 DEF WmaCreatePeer, StartFind, Goto
  <2>3. /\ pc[MC] \notin Leaving \cup Unborn /\ w \notin Leaving \cup Unborn
        /\ pc[MC] \notin {"find_dec", "update_dec"} /\ w \notin {"find_dec", "update_dec"}
    BY <2>1 DEF Leaving, Unborn
  <2> QED
    BY <2>1, <2>2, <2>3, McQuietExact
<1>2. CASE CheckDuplicate \/ Woken \/ WaitTimeout
  <2>1. /\ pc[MC] \in {"dup_check", "wait"} /\ UNCHANGED <<peer, peer_id_to_obj_map>>
        /\ \/ UNCHANGED <<cur, got>>
           \/ cur' = [cur EXCEPT ![MC] = NoPeer] /\ got' = [got EXCEPT ![MC] = NoPeer]
    BY <1>2 DEF CheckDuplicate, Woken, WaitTimeout, CreateFailed, Leave
  <2>2. PICK w \in {"idle", "wait", "alloc"} : pc' = [pc EXCEPT ![MC] = w]
    BY <1>2 DEF CheckDuplicate, Woken, WaitTimeout, CreateFailed, Leave, Goto
  <2>3. /\ pc[MC] \notin Leaving \cup Unborn /\ w \notin Leaving \cup Unborn
        /\ pc[MC] \notin {"find_dec", "update_dec"} /\ w \notin {"find_dec", "update_dec"}
    BY <2>1 DEF Leaving, Unborn
  <2> QED
    BY ZenonT(60), <2>1, <2>2, <2>3, McQuietExact
<1>3. CASE InsertPeer
  <2>1. /\ pc[MC] = "insert" /\ UNCHANGED <<cur, got, peer, peer_id_to_obj_map>>
    BY <1>3 DEF InsertPeer
  <2>2. PICK w \in {"init"} : pc' = [pc EXCEPT ![MC] = w]
    BY <1>3 DEF InsertPeer, Goto
  <2>3. /\ pc[MC] \in Unborn /\ w \in Unborn
        /\ pc[MC] \notin {"find_dec", "update_dec"} /\ w \notin {"find_dec", "update_dec"}
    BY <2>1 DEF Unborn
  <2> QED
    BY <2>1, <2>2, <2>3, McQuietExact
<1>4. CASE ol_txrx_peer_find_hash_add
  <2>1. /\ pc[MC] = "hash_add" /\ UNCHANGED <<cur, got, peer, peer_id_to_obj_map>>
    BY <1>4 DEF ol_txrx_peer_find_hash_add
  <2>2. PICK w \in {"update"} : pc' = [pc EXCEPT ![MC] = w]
    BY <1>4 DEF ol_txrx_peer_find_hash_add, Goto
  <2>3. /\ pc[MC] \notin Leaving \cup Unborn /\ w \notin Leaving \cup Unborn
        /\ pc[MC] \notin {"find_dec", "update_dec"} /\ w \notin {"find_dec", "update_dec"}
    BY <2>1 DEF Leaving, Unborn
  <2> QED
    BY <2>1, <2>2, <2>3, McQuietExact
<1>5. CASE CreateSend \/ WmaRemovePeer
  <2>1. /\ pc[MC] \in {"create_send", "remove_send"} /\ UNCHANGED <<peer, peer_id_to_obj_map>>
        /\ \/ UNCHANGED <<cur, got>>
           \/ cur' = [cur EXCEPT ![MC] = NoPeer] /\ got' = [got EXCEPT ![MC] = NoPeer]
    BY <1>5 DEF CreateSend, WmaRemovePeer, Leave
  <2>2. PICK w \in {"idle", "detach"} : pc' = [pc EXCEPT ![MC] = w]
    BY <1>5 DEF CreateSend, WmaRemovePeer, Leave, Goto
  <2>3. /\ pc[MC] \notin Leaving \cup Unborn /\ w \notin Leaving \cup Unborn
        /\ pc[MC] \notin {"find_dec", "update_dec"} /\ w \notin {"find_dec", "update_dec"}
    BY <2>1 DEF Leaving, Unborn
  <2> QED
    BY <2>1, <2>2, <2>3, McQuietExact
<1>6. CASE OL_TXRX_LOCAL_PEER_ID_FREE
  <2>1. /\ pc[MC] = "free_id" /\ UNCHANGED <<cur, got, peer, peer_id_to_obj_map>>
    BY <1>6 DEF OL_TXRX_LOCAL_PEER_ID_FREE
  <2>2. PICK w \in {"mark"} : pc' = [pc EXCEPT ![MC] = w]
    BY <1>6 DEF OL_TXRX_LOCAL_PEER_ID_FREE, Goto
  <2>3. /\ pc[MC] \in Leaving /\ w \in Leaving
        /\ pc[MC] \notin {"find_dec", "update_dec"} /\ w \notin {"find_dec", "update_dec"}
    BY <2>1 DEF Leaving
  <2> QED
    BY <2>1, <2>2, <2>3, McQuietExact
<1> QED
  BY <1>1, <1>2, <1>3, <1>4, <1>5, <1>6

(* The steps of this thread that write to the object of its peer. *)
LEMMA AllocExact ==
  ASSUME PeerInv, PeerInv', Exact, AllocPeer
  PROVE  Exact'
<1>0. pc[MC] = "alloc" /\ peer_id_to_obj_map' = peer_id_to_obj_map
  BY DEF AllocPeer
<1>1. CASE CreateFailed /\ UNCHANGED peer
  <2>1. /\ cur' = [cur EXCEPT ![MC] = NoPeer] /\ got' = [got EXCEPT ![MC] = NoPeer]
        /\ peer' = peer
    BY <1>1 DEF CreateFailed, Leave
  <2>2. PICK w \in {"idle"} : pc' = [pc EXCEPT ![MC] = w]
    BY <1>1 DEF CreateFailed, Leave, Goto
  <2>3. /\ pc[MC] \notin Leaving \cup Unborn /\ w \notin Leaving \cup Unborn
        /\ pc[MC] \notin {"find_dec", "update_dec"} /\ w \notin {"find_dec", "update_dec"}
    BY <1>0 DEF Leaving, Unborn
  <2> QED
    BY <1>0, <2>1, <2>2, <2>3, McQuietExact
<1>2. ASSUME NEW p \in Peers, peer[p].mem = "none",
             peer' = [peer EXCEPT ![p].mem = "live", ![p].mac = mac[MC]],
             cur' = [cur EXCEPT ![MC] = p], pc' = [pc EXCEPT ![MC] = "insert"],
             UNCHANGED <<got, mac, peer_count>>
      PROVE  Exact'
  <2>1. pc'[MC] = "insert" /\ cur'[MC] = p /\ \A t \in Threads \ {MC} : cur'[t] = cur[t]
    BY <1>2, ThreadTypes
  <2>2. \A q \in Peers : q # p => peer'[q] = peer[q]
    BY <1>2, ObjectTypes DEF Objects
  <2>3. ASSUME NEW q \in Peers, Live(q)', ~Raw(q)'
        PROVE  /\ Live(q) /\ ~Raw(q) /\ RefA(q)' = RefA(q)
               /\ peer'[q].ref_cnt = peer[q].ref_cnt /\ peer'[q].peer_ids = peer[q].peer_ids
    <3>1. q # p
      BY <2>1, <2>3 DEF Raw
    <3>2. Live(q) /\ ~Raw(q)
      BY <1>0, <2>2, <2>3, <3>1 DEF Live, Raw
    <3>3. Attached(q)' <=> Attached(q)
      BY <1>0, <2>1, <2>2, <3>1 DEF Attached
    <3> QED
      BY <2>2, <3>1, <3>2, <3>3 DEF RefA
  <2>4. peer' \in Objects
    BY DEF PeerInv, StateOK, Objects, PeerRec
  <2> QED
    BY <1>0, <1>2, <2>1, <2>3, <2>4, SameRefs
<1> QED
  BY <1>1, <1>2 DEF AllocPeer, Goto

(* One reference is the attachment's, the other the map handler's. *)
LEMMA InitExact ==
  ASSUME PeerInv, PeerInv', Exact, InitPeer
  PROVE  Exact'
<1>1. PICK p \in Peers : p = cur[MC]
  BY DEF InitPeer, PeerInv, McInv
<1>2. /\ pc[MC] = "init" /\ pc' = [pc EXCEPT ![MC] = "hash_add"] /\ peer' = PutInitial(peer, p)
      /\ UNCHANGED <<cur, got, peer_id_to_obj_map>>
  BY <1>1 DEF InitPeer, Goto, PutInitial
<1>3. /\ peer'[p].ref_cnt = 2 /\ peer'[p].valid = TRUE /\ peer'[p].peer_ids = <<>>
      /\ \A q \in Peers : q # p => peer'[q] = peer[q]
  <2>1. peer \in Objects
    BY ObjectTypes
  <2> QED
    BY <1>2, <2>1, SetInitial
<1>4. pc'[MC] = "hash_add"
  BY <1>2, ThreadTypes
<1> SUFFICES ASSUME NEW q \in Peers, Live(q)', ~Raw(q)'
             PROVE  peer'[q].ref_cnt <= References(q)'
  BY DEF Exact
<1>5. CASE q # p
  <2>1. Live(q) /\ ~Raw(q) /\ (Attached(q)' <=> Attached(q))
    BY <1>1, <1>2, <1>3, <1>4, <1>5 DEF Raw, Attached, Live
  <2>2. References(q)' = References(q)
    BY <1>2, <1>3, <1>5, <2>1 DEF References
  <2> QED
    BY <1>3, <1>5, <2>1, <2>2 DEF Exact
<1>6. CASE q = p
  <2>1. RefI(q)' = 1 /\ RefA(q)' = 1
    BY <1>3, <1>6 DEF RefI, RefA, Attached
  <2>2. /\ References(q)' = RefA(q)' + RefI(q)' + RefG(q)' + RefC(q)'
        /\ RefG(q)' \in Nat /\ RefC(q)' \in Nat
    BY RefPartsNext
  <2> QED
    BY <1>3, <1>6, <2>1, <2>2
<1> QED
  BY <1>5, <1>6

LEMMA LocalIdExact ==
  ASSUME PeerInv, PeerInv', Exact, OL_TXRX_LOCAL_PEER_ID_ALLOC
  PROVE  Exact'
<1>1. PICK p \in Peers : p = cur[MC]
  BY DEF OL_TXRX_LOCAL_PEER_ID_ALLOC, PeerInv, McInv, HasPeer, Naming
<1>2. /\ pc[MC] = "local_id" /\ pc' = [pc EXCEPT ![MC] = "create_send"]
      /\ UNCHANGED <<cur, got, peer_id_to_obj_map>>
  BY DEF OL_TXRX_LOCAL_PEER_ID_ALLOC, Goto
<1>3. PICK x \in Lids \cup {INVALID} : peer' = PutLocalId(peer, p, x)
  <2>1. freelist # <<>> => Head(freelist) \in Lids
    BY ObjectTypes
  <2> QED
    BY <1>1, <2>1 DEF OL_TXRX_LOCAL_PEER_ID_ALLOC, PutLocalId
<1>4. /\ peer' \in Objects
      /\ \A q \in Peers : /\ peer'[q].mem = peer[q].mem /\ peer'[q].valid = peer[q].valid
                          /\ peer'[q].ref_cnt = peer[q].ref_cnt
                          /\ peer'[q].peer_ids = peer[q].peer_ids
  BY <1>3, SetLocalId, ObjectTypes
<1>5. Steady
  <2>1. pc'[MC] = "create_send"
    BY <1>2, ThreadTypes
  <2> QED
    BY <1>2, <2>1 DEF Steady, Leaving, Unborn
<1>6. \A q \in Peers : RefA(q)' = RefA(q) /\ (Raw(q)' <=> Raw(q)) /\ (Live(q)' <=> Live(q))
  BY <1>4, <1>5, AttachStays DEF Live
<1> QED
  BY <1>2, <1>4, <1>6, SameRefs

(* An invalid peer is attached until its reference is dropped. *)
LEMMA InvalidateExact ==
  ASSUME PeerInv, PeerInv', Exact, InvalidatePeer
  PROVE  Exact'
<1>1. PICK p \in Peers : p = cur[MC] /\ peer[p].valid
  BY DEF InvalidatePeer, PeerInv, McInv, HasPeer
<1>2. /\ pc[MC] = "detach" /\ pc' = [pc EXCEPT ![MC] = "free_id"]
      /\ peer' = PutInvalid(peer, p) /\ UNCHANGED <<cur, got, peer_id_to_obj_map>>
  BY <1>1 DEF InvalidatePeer, Goto, PutInvalid
<1>3. /\ peer' \in Objects
      /\ \A q \in Peers : /\ q # p => peer'[q] = peer[q]
                          /\ peer'[q].mem = peer[q].mem
                          /\ peer'[q].ref_cnt = peer[q].ref_cnt
                          /\ peer'[q].peer_ids = peer[q].peer_ids
  <2>1. peer \in Objects
    BY ObjectTypes
  <2> QED
    BY <1>2, <2>1, SetInvalid
<1>4. pc'[MC] = "free_id"
  BY <1>2, ThreadTypes
<1>5. ASSUME NEW q \in Peers
      PROVE  RefA(q)' = RefA(q) /\ (Raw(q)' <=> Raw(q)) /\ (Live(q)' <=> Live(q))
  <2>1. Attached(q)' <=> Attached(q)
    BY <1>1, <1>2, <1>3, <1>4 DEF Attached
  <2> QED
    BY <1>2, <1>3, <1>4, <2>1 DEF RefA, Raw, Live
<1> QED
  BY <1>2, <1>3, <1>5, SameRefs

LEMMA MarkExact ==
  ASSUME PeerInv, PeerInv', Exact, MarkDeleted
  PROVE  Exact'
<1>1. PICK p \in Peers : p = cur[MC]
  BY DEF MarkDeleted, PeerInv, McInv, Leaving
<1>2. /\ pc[MC] = "mark" /\ pc' = [pc EXCEPT ![MC] = "detach_unref"]
      /\ peer' = PutMark(peer, p) /\ UNCHANGED <<cur, got, peer_id_to_obj_map>>
  BY <1>1 DEF MarkDeleted, Goto, PutMark
<1>3. /\ peer' \in Objects
      /\ \A q \in Peers : /\ peer'[q].mem = peer[q].mem /\ peer'[q].valid = peer[q].valid
                          /\ peer'[q].ref_cnt = peer[q].ref_cnt
                          /\ peer'[q].peer_ids = peer[q].peer_ids
  <2>1. peer \in Objects
    BY ObjectTypes
  <2> QED
    BY ZenonT(60), <1>2, <2>1, SetMark
<1>4. Steady
  <2>1. pc'[MC] = "detach_unref"
    BY <1>2, ThreadTypes
  <2> QED
    BY <1>2, <2>1 DEF Steady, Leaving, Unborn
<1>5. \A q \in Peers : RefA(q)' = RefA(q) /\ (Raw(q)' <=> Raw(q)) /\ (Live(q)' <=> Live(q))
  BY <1>3, <1>4, AttachStays DEF Live
<1> QED
  BY <1>2, <1>3, <1>5, SameRefs

(* One count changes, and with it the pointers to the peer. *)
LEMMA CountExact ==
  ASSUME PeerInv, Exact, NEW p \in Peers, NEW c \in Nat, NEW x \in Nat, c = peer[p].ref_cnt,
         peer' = PutRef(peer, p, x), Steady, peer_id_to_obj_map' = peer_id_to_obj_map,
         \A q \in Peers : RefG(q) + RefC(q) + (IF q = p THEN x ELSE 0)
                            <= RefG(q)' + RefC(q)' + (IF q = p THEN c ELSE 0)
  PROVE  Exact'
<1>1. peer \in Objects
  BY ObjectTypes
<1>2. /\ SameButCount /\ peer'[p].ref_cnt = x
      /\ \A q \in Peers : q # p => peer'[q].ref_cnt = peer[q].ref_cnt
  BY <1>1, CountOnly
<1>3. peer' \in Objects
  BY <1>2 DEF SameButCount
<1> SUFFICES ASSUME NEW q \in Peers, Live(q)', ~Raw(q)'
      PROVE  /\ Live(q) /\ ~Raw(q)
             /\ RefA(q) + RefI(q) + RefG(q) + RefC(q) + peer'[q].ref_cnt
                  <= RefA(q)' + RefI(q)' + RefG(q)' + RefC(q)' + peer[q].ref_cnt
  BY <1>3, ExactBy
<1>4. /\ peer'[q].mem = peer[q].mem /\ peer'[q].valid = peer[q].valid
      /\ peer'[q].peer_ids = peer[q].peer_ids
  BY <1>2 DEF SameButCount
<1>5. Live(q) /\ ~Raw(q) /\ RefA(q)' = RefA(q) /\ RefI(q)' = RefI(q)
  BY <1>4, AttachStays, IdsStay DEF Live
<1>6. /\ RefA(q) \in Nat /\ RefI(q) \in Nat /\ RefG(q) \in Nat /\ RefC(q) \in Nat
      /\ RefG(q)' \in Nat /\ RefC(q)' \in Nat
  BY RefParts, RefPartsNext
<1> DEFINE r == peer[q].ref_cnt
           s == peer'[q].ref_cnt
<1>7. r \in Nat /\ s = IF q = p THEN x ELSE r
  BY <1>1, <1>2 DEF Objects, PeerRec
<1>8. q = p => r = c
  OBVIOUS
<1> HIDE DEF r, s
<1>9. RefA(q) + RefI(q) + RefG(q) + RefC(q) + s <= RefA(q)' + RefI(q)' + RefG(q)' + RefC(q)' + r
  BY <1>5, <1>6, <1>7, <1>8
<1> QED
  BY <1>5, <1>9 DEF r, s

LEMMA ThreadSteady ==
  ASSUME PeerInv, NEW t \in Threads, NEW w, pc' = [pc EXCEPT ![t] = w],
         cur' = cur \/ \E c : cur' = [cur EXCEPT ![t] = c],
         t # MC \/ (pc[t] \notin Leaving \cup Unborn /\ w \notin Leaving \cup Unborn)
  PROVE  Steady
<1>1. CASE t = MC
  <2>1. pc'[MC] = w
    BY <1>1, ThreadTypes
  <2> QED
    BY <1>1, <2>1 DEF Steady
<1>2. CASE t # MC
  <2>1. pc'[MC] = pc[MC] /\ cur'[MC] = cur[MC]
    BY <1>2, ThreadTypes
  <2> QED
    BY <2>1 DEF Steady
<1> QED
  BY <1>1, <1>2

(* A lookup by address takes a reference with its pointer. *)
LEMMA FindExact ==
  ASSUME PeerInv, Exact, NEW t \in {MC} \cup Users, ol_txrx_find_peer_by_addr(t)
  PROVE  Exact'
<1>1. PICK p : p = ol_txrx_peer_find_hash_find(mac[t], TRUE)
  OBVIOUS
<1>2. PICK w : w = IF p = NoPeer THEN AfterFind(t)
                   ELSE IF pc[t] = "find" THEN "find_dec" ELSE "update_dec"
  OBVIOUS
<1>3. /\ pc[t] \in {"find", "update"} /\ p \in Peers \cup {NoPeer}
      /\ pc' = [pc EXCEPT ![t] = w] /\ cur' = cur /\ got' = [got EXCEPT ![t] = p]
      /\ peer_id_to_obj_map' = peer_id_to_obj_map
  BY <1>1, <1>2, FindTables
<1>4. IF p = NoPeer THEN peer' = peer ELSE peer' = [peer EXCEPT ![p].ref_cnt = @ + 1]
  BY <1>1 DEF ol_txrx_find_peer_by_addr
<1>5. t \in Threads /\ NoPeer \notin Peers
  BY ThreadTypes, ObjectTypes
<1>6. got[t] = NoPeer
  BY <1>3 DEF PeerInv, McInv, OtherInv
<1>7. Steady
  <2>1. t # MC \/ (pc[t] \notin Leaving \cup Unborn /\ w \notin Leaving \cup Unborn)
    BY <1>2, <1>3 DEF AfterFind, Leaving, Unborn
  <2> QED
    BY <1>3, <1>5, <2>1, ThreadSteady
<1>8. \A s \in Threads \ {MC} : cur'[s] = cur[s]
  BY <1>3
<1>9. CASE p = NoPeer
  <2>1. \A s \in Threads : got'[s] = got[s]
    BY <1>3, <1>5, <1>6, <1>9, ThreadTypes
  <2> QED
    BY <1>3, <1>4, <1>7, <1>8, <1>9, <2>1, QuietExact
<1>10. CASE p # NoPeer
  <2>1. PICK c \in Nat : c = peer[p].ref_cnt
    BY <1>3, <1>10, ObjectTypes DEF Objects, PeerRec
  <2>2. PICK x \in Nat : x = c + 1
    BY <2>1
  <2>3. p \in Peers /\ peer' = PutRef(peer, p, x)
    BY <1>3, <1>4, <1>10, <2>1, <2>2, ObjectTypes DEF PutRef, Objects
  <2>4. ASSUME NEW q \in Peers
        PROVE  RefG(q) + RefC(q) + (IF q = p THEN x ELSE 0)
                 <= RefG(q)' + RefC(q)' + (IF q = p THEN c ELSE 0)
    <3>1. RefG(q)' = RefG(q) - (IF got[t] = q THEN 1 ELSE 0) + (IF p = q THEN 1 ELSE 0)
      BY ZenonT(60), <1>3, <1>5, GotMoves
    <3>2. RefC(q)' = RefC(q)
      BY <1>8, CurStays
    <3>3. RefG(q) \in Nat /\ RefC(q) \in Nat /\ got[t] # q
      BY <1>5, <1>6, RefParts
    <3> QED
      BY <2>2, <3>1, <3>2, <3>3
  <2> QED
    BY <1>3, <1>7, <2>1, <2>2, <2>3, <2>4, CountExact
<1> QED
  BY <1>9, <1>10

(* A plain decrement gives it back. *)
LEMMA DecExact ==
  ASSUME PeerInv, Exact, NEW t \in {MC} \cup Users, PlainDec(t)
  PROVE  Exact'
<1>0. t \in Threads /\ NoPeer \notin Peers
  BY ThreadTypes, ObjectTypes
<1>1. PICK p : p = got[t]
  OBVIOUS
<1>2. PICK w \in {"remove_send", "peeked", "write", "local_id", "release"} :
        pc' = [pc EXCEPT ![t] = w]
  BY DecMoves
<1>3. PICK v : v = IF t = MC /\ pc[t] = "find_dec" THEN got[t] ELSE cur[t]
  OBVIOUS
<1>4. /\ pc[t] \in {"find_dec", "update_dec"}
      /\ peer' = [peer EXCEPT ![p].ref_cnt = @ - 1]
      /\ pc' = [pc EXCEPT ![t] = w] /\ cur' = [cur EXCEPT ![t] = v]
      /\ got' = [got EXCEPT ![t] = NoPeer]
      /\ peer_id_to_obj_map' = peer_id_to_obj_map
  <2>1. cur = [cur EXCEPT ![t] = cur[t]]
    BY <1>0, ThreadTypes
  <2>2. pc[t] \in {"find_dec", "update_dec"}
    BY DEF PlainDec
  <2>3. cur' = [cur EXCEPT ![t] = v]
    BY <1>3, <2>1, DecMoves
  <2> QED
    BY <1>1, <1>2, <2>2, <2>3, DecMoves
<1>5. p # NoPeer
  BY <1>0, <1>1, <1>4 DEF PeerInv, McInv, OtherInv
<1>6. p \in Peers /\ Live(p) /\ ~Raw(p)
  BY <1>0, <1>1, <1>5, GotPeer
<1>7. PICK c \in Nat : c = peer[p].ref_cnt /\ c >= 1
  BY <1>0, <1>1, <1>6, HeldCount
<1>8. PICK x \in Nat : x = c - 1
  BY <1>7
<1>9. peer' = PutRef(peer, p, x)
  BY <1>4, <1>6, <1>7, <1>8, ObjectTypes DEF PutRef, Objects
<1>10. Steady
  <2>1. t # MC \/ (pc[t] \notin Leaving \cup Unborn /\ w \notin Leaving \cup Unborn)
    BY <1>2, <1>4 DEF Leaving, Unborn
  <2> QED
    BY <1>0, <1>4, <2>1, ThreadSteady
<1>11. \A s \in Threads \ {MC} : cur'[s] = cur[s]
  BY <1>0, <1>3, <1>4, ThreadTypes
<1>12. ASSUME NEW q \in Peers
       PROVE  RefG(q) + RefC(q) + (IF q = p THEN x ELSE 0)
                <= RefG(q)' + RefC(q)' + (IF q = p THEN c ELSE 0)
  <2>1. RefG(q)' = RefG(q) - (IF got[t] = q THEN 1 ELSE 0) + (IF NoPeer = q THEN 1 ELSE 0)
    BY <1>0, <1>4, GotMoves
  <2>2. RefC(q)' = RefC(q)
    BY <1>11, CurStays
  <2>3. RefG(q) \in Nat /\ RefC(q) \in Nat /\ NoPeer # q
    BY <1>0, RefParts
  <2> QED
    BY <1>1, <1>7, <1>8, <2>1, <2>2, <2>3
<1> QED
  BY <1>4, <1>6, <1>7, <1>8, <1>9, <1>10, <1>12, CountExact

(* The pointer that is followed without a reference counts for none. *)
LEMMA FollowExact ==
  ASSUME PeerInv, Exact, NEW t \in {MC} \cup Users, FollowBare(t)
  PROVE  Exact'
<1>1. t \in Threads
  BY ThreadsFinite
<1>2. PICK w : w = AfterFind(t)
  OBVIOUS
<1>3. /\ pc[t] \in {"peeked", "write"} /\ pc' = [pc EXCEPT ![t] = w]
      /\ UNCHANGED <<cur, got, peer, peer_id_to_obj_map>>
  BY <1>2 DEF FollowBare, GotoNext, Goto
<1>4. t # MC \/ (pc[t] \notin Leaving \cup Unborn /\ w \notin Leaving \cup Unborn)
  BY <1>2, <1>3 DEF AfterFind, Leaving, Unborn
<1>5. Steady
  BY <1>1, <1>3, <1>4, ThreadSteady
<1> QED
  BY <1>3, <1>5, QuietExact

(* So do the lookups of the tasklet and of the other threads. *)
LEMMA HeldExact ==
  ASSUME PeerInv, Exact, NEW t \in Threads \ {MC}, NEW p \in Peers, NEW w, cur[t] = NoPeer,
         peer' = [peer EXCEPT ![p].ref_cnt = @ + 1], cur' = [cur EXCEPT ![t] = p],
         pc' = [pc EXCEPT ![t] = w], got' = got, peer_id_to_obj_map' = peer_id_to_obj_map
  PROVE  Exact'
<1>0. t \in Threads /\ t # MC /\ NoPeer \notin Peers
  BY ObjectTypes
<1>1. PICK c \in Nat : c = peer[p].ref_cnt
  BY ObjectTypes DEF Objects, PeerRec
<1>2. PICK x \in Nat : x = c + 1
  BY <1>1
<1>3. peer' = PutRef(peer, p, x)
  BY <1>1, <1>2, ObjectTypes DEF PutRef, Objects
<1>4. Steady
  BY <1>0, ThreadSteady
<1>5. ASSUME NEW q \in Peers
      PROVE  RefG(q) + RefC(q) + (IF q = p THEN x ELSE 0)
               <= RefG(q)' + RefC(q)' + (IF q = p THEN c ELSE 0)
  <2>1. RefC(q)' = RefC(q) - (IF cur[t] = q THEN 1 ELSE 0) + (IF p = q THEN 1 ELSE 0)
    BY CurMoves
  <2>2. RefG(q)' = RefG(q)
    BY GotStays
  <2>3. RefG(q) \in Nat /\ RefC(q) \in Nat /\ cur[t] # q
    BY <1>0, RefParts
  <2> QED
    BY <1>2, <2>1, <2>2, <2>3
<1> QED
  BY <1>1, <1>2, <1>3, <1>4, <1>5, CountExact

LEMMA LocalFindExact ==
  ASSUME PeerInv, Exact, NEW u \in Users, NEW i \in Lids,
         ol_txrx_peer_find_with_ref_by_local_id(u, i)
  PROVE  Exact'
<1>1. PICK p \in Peers : p = map[i]
  BY ObjectTypes DEF ol_txrx_peer_find_with_ref_by_local_id
<1>2. PICK w : w = "held"
  OBVIOUS
<1>3. /\ pc[u] = "idle" /\ peer' = [peer EXCEPT ![p].ref_cnt = @ + 1]
      /\ cur' = [cur EXCEPT ![u] = p] /\ pc' = [pc EXCEPT ![u] = w]
      /\ got' = got /\ peer_id_to_obj_map' = peer_id_to_obj_map
  BY <1>1, <1>2 DEF ol_txrx_peer_find_with_ref_by_local_id, Goto
<1>4. u \in Threads \ {MC} /\ cur[u] = NoPeer
  BY <1>3, ThreadsFinite DEF PeerInv, OtherInv
<1> QED
  BY <1>3, <1>4, HeldExact

LEMMA MapFindExact ==
  ASSUME PeerInv, Exact, MapFind
  PROVE  Exact'
<1>1. PICK p : p = ol_txrx_peer_find_hash_find(Head(msgs).mac, FALSE)
  OBVIOUS
<1>2. PICK w : w = "map"
  OBVIOUS
<1>3. /\ pc[Tasklet] = "idle" /\ got' = got /\ peer_id_to_obj_map' = peer_id_to_obj_map
      /\ IF p = NoPeer
           THEN UNCHANGED <<pc, cur, peer>>
           ELSE /\ peer' = [peer EXCEPT ![p].ref_cnt = @ + 1]
                /\ cur' = [cur EXCEPT ![Tasklet] = p] /\ pc' = [pc EXCEPT ![Tasklet] = w]
  BY <1>1, <1>2 DEF MapFind, Goto
<1>4. Tasklet \in Threads \ {MC} /\ cur[Tasklet] = NoPeer
  BY <1>3, ThreadsFinite DEF PeerInv, OtherInv
<1>5. CASE p = NoPeer
  <2>1. Steady
    BY <1>3, <1>5 DEF Steady
  <2> QED
    BY <1>3, <1>5, <2>1, QuietExact
<1>6. CASE p # NoPeer
  <2>1. p \in Peers
    <3>1. FALSE \in BOOLEAN /\ peer \in Objects /\ hash \in Seq(Peers)
      BY ObjectTypes
    <3> QED
      BY <1>1, <1>6, <3>1, FindFacts
  <2> QED
    BY <1>3, <1>4, <1>6, <2>1, HeldExact
<1> QED
  BY <1>5, <1>6

(* A release takes one from the count, and has let go of one reference.    *)
LEMMA UnrefExact ==
  ASSUME PeerInv, PeerInv', Exact, NEW p \in Peers, ol_txrx_peer_unref_delete(p, peer),
         peer[p].ref_cnt >= 1, \A q \in Peers : Raw(q) => Raw(q)',
         \A q \in Peers :
            (peer'[q].valid = peer[q].valid /\ peer'[q].peer_ids = peer[q].peer_ids) =>
            RefA(q) + RefI(q) + RefG(q) + RefC(q)
              <= RefA(q)' + RefI(q)' + RefG(q)' + RefC(q)' + (IF q = p THEN 1 ELSE 0)
  PROVE  Exact'
<1>1. peer \in Objects /\ \A q \in Peers : peer[q].ref_cnt \in Nat
  BY ObjectTypes DEF Objects, PeerRec
<1>2. peer' \in Objects
  BY NextTypes
<1> SUFFICES ASSUME NEW q \in Peers, Live(q)', ~Raw(q)'
      PROVE  /\ Live(q) /\ ~Raw(q)
             /\ RefA(q) + RefI(q) + RefG(q) + RefC(q) + peer'[q].ref_cnt
                  <= RefA(q)' + RefI(q)' + RefG(q)' + RefC(q)' + peer[q].ref_cnt
  BY <1>2, ExactBy
<1> DEFINE r == peer[q].ref_cnt
           s == peer'[q].ref_cnt
<1>3. /\ peer'[q].mem = peer[q].mem /\ peer'[q].valid = peer[q].valid
      /\ peer'[q].peer_ids = peer[q].peer_ids
      /\ s = IF q = p THEN r - 1 ELSE r
  <2>1. CASE peer[p].ref_cnt = 1
    <3>1. peer' = PutFreed(peer, p)
      BY <2>1 DEF ol_txrx_peer_unref_delete, DeletePeer, PutFreed
    <3>2. peer'[p].mem = "freed" /\ \A z \in Peers : z # p => peer'[z] = peer[z]
      BY <1>1, <3>1, SetFreed
    <3>3. q # p
      BY <3>2 DEF Live
    <3> QED
      BY <3>2, <3>3
  <2>2. CASE peer[p].ref_cnt # 1
    <3>1. PICK x \in Nat : x = peer[p].ref_cnt - 1
      BY <1>1
    <3>2. peer[p].ref_cnt # 0
      BY <1>1
    <3>3. peer' = PutRef(peer, p, x)
      BY <1>1, <2>2, <3>1, <3>2 DEF ol_txrx_peer_unref_delete, PutRef, Objects
    <3>4. /\ SameButCount /\ peer'[p].ref_cnt = x
          /\ \A z \in Peers : z # p => peer'[z].ref_cnt = peer[z].ref_cnt
      BY <1>1, <3>3, CountOnly
    <3> QED
      BY <3>1, <3>4 DEF SameButCount
  <2> QED
    BY <2>1, <2>2
<1>4. Live(q) /\ ~Raw(q)
  BY <1>3 DEF Live
<1>5. /\ RefA(q) \in Nat /\ RefI(q) \in Nat /\ RefG(q) \in Nat /\ RefC(q) \in Nat
      /\ RefA(q)' \in Nat /\ RefI(q)' \in Nat /\ RefG(q)' \in Nat /\ RefC(q)' \in Nat
  BY RefParts, RefPartsNext
<1>6. RefA(q) + RefI(q) + RefG(q) + RefC(q)
        <= RefA(q)' + RefI(q)' + RefG(q)' + RefC(q)' + (IF q = p THEN 1 ELSE 0)
  BY <1>3
<1>7. r \in Nat /\ s = IF q = p THEN r - 1 ELSE r
  BY <1>1, <1>3
<1> HIDE DEF r, s
<1>8. RefA(q) + RefI(q) + RefG(q) + RefC(q) + s <= RefA(q)' + RefI(q)' + RefG(q)' + RefC(q)' + r
  BY <1>5, <1>6, <1>7
<1> QED
  BY <1>4, <1>8 DEF r, s

LEMMA DetachExact ==
  ASSUME PeerInv, PeerInv', Exact, DetachUnref
  PROVE  Exact'
<1>1. PICK p \in Peers : p = cur[MC] /\ ~peer[p].valid
  BY DEF DetachUnref, PeerInv, McInv, Leaving
<1>2. /\ pc[MC] = "detach_unref" /\ ol_txrx_peer_unref_delete(p, peer)
      /\ pc' = [pc EXCEPT ![MC] = "idle"] /\ cur' = [cur EXCEPT ![MC] = NoPeer]
      /\ got' = [got EXCEPT ![MC] = NoPeer] /\ peer_id_to_obj_map' = peer_id_to_obj_map
  BY <1>1 DEF DetachUnref, Leave, Goto
<1>3. Attached(p)
  BY <1>1, <1>2 DEF Attached
<1>4. ~Raw(p) /\ \A q \in Peers : ~Raw(q)
  BY <1>2 DEF Raw
<1>5. p # NoPeer /\ Live(p)
  BY <1>1, ObjectTypes, ThreadTypes DEF PeerInv, TableInv, NoDangling
<1>6. peer[p].ref_cnt >= 1
  BY <1>3, <1>4, <1>5, HeldCount
<1>7. \A t \in Threads : got'[t] = got[t]
  <2>1. got[MC] = NoPeer
    BY <1>2 DEF PeerInv, McInv
  <2> QED
    BY <1>2, <2>1, ThreadTypes
<1>8. \A t \in Threads \ {MC} : cur'[t] = cur[t]
  BY <1>2, ThreadTypes
<1>9. ASSUME NEW q \in Peers, peer'[q].valid = peer[q].valid, peer'[q].peer_ids = peer[q].peer_ids
      PROVE  RefA(q) + RefI(q) + RefG(q) + RefC(q)
               <= RefA(q)' + RefI(q)' + RefG(q)' + RefC(q)' + (IF q = p THEN 1 ELSE 0)
  <2>1. RefI(q)' = RefI(q) /\ RefG(q)' = RefG(q) /\ RefC(q)' = RefC(q)
    BY <1>2, <1>7, <1>8, <1>9, IdsStay, GotStays, CurStays
  <2>2. RefA(q) <= RefA(q)' + (IF q = p THEN 1 ELSE 0)
    <3>1. Attached(q) => q = p \/ Attached(q)'
      BY <1>1, <1>9 DEF Attached
    <3> QED
      BY <3>1 DEF RefA
  <2>3. /\ RefA(q) \in Nat /\ RefI(q) \in Nat /\ RefG(q) \in Nat /\ RefC(q) \in Nat
        /\ RefA(q)' \in Nat
    BY RefParts, RefPartsNext
  <2> QED
    BY <2>1, <2>2, <2>3
<1> QED
  BY <1>2, <1>4, <1>6, <1>9, UnrefExact

LEMMA ReleaseExact ==
  ASSUME PeerInv, PeerInv', Exact, NEW u \in Users, ReleasePeer(u)
  PROVE  Exact'
<1>1. u \in Threads \ {MC} /\ u \in Threads /\ u # MC /\ MC \in Threads /\ NoPeer \notin Peers
  BY ThreadsFinite, ObjectTypes
<1>2. cur[u] \in Peers /\ got[u] = NoPeer
  <2>1. cur[u] \in Peers \cup {NoPeer}
    BY <1>1, ThreadTypes
  <2> QED
    BY <2>1 DEF ReleasePeer, PeerInv, OtherInv
<1>3. PICK p \in Peers : p = cur[u]
  BY <1>2
<1>4. /\ ol_txrx_peer_unref_delete(p, peer) /\ pc' = [pc EXCEPT ![u] = "idle"]
      /\ cur' = [cur EXCEPT ![u] = NoPeer] /\ got' = [got EXCEPT ![u] = NoPeer]
      /\ peer_id_to_obj_map' = peer_id_to_obj_map
  BY <1>3 DEF ReleasePeer, Leave, Goto
<1>5. Live(p) /\ ~Raw(p)
  BY <1>1, <1>3 DEF PeerInv, TableInv, NoDangling, FreshInv, Raw, Early
<1>6. peer[p].ref_cnt >= 1
  BY <1>1, <1>3, <1>5, HeldCount
<1>7. Steady /\ \A q \in Peers : Raw(q) => Raw(q)'
  <2>1. pc'[MC] = pc[MC] /\ cur'[MC] = cur[MC]
    BY <1>1, <1>4, ThreadTypes
  <2> QED
    BY <2>1 DEF Steady, Raw
<1>8. \A t \in Threads : got'[t] = got[t]
  BY <1>1, <1>2, <1>4, ThreadTypes
<1>9. ASSUME NEW q \in Peers, peer'[q].valid = peer[q].valid, peer'[q].peer_ids = peer[q].peer_ids
      PROVE  RefA(q) + RefI(q) + RefG(q) + RefC(q)
               <= RefA(q)' + RefI(q)' + RefG(q)' + RefC(q)' + (IF q = p THEN 1 ELSE 0)
  <2>1. RefA(q)' = RefA(q) /\ RefI(q)' = RefI(q) /\ RefG(q)' = RefG(q)
    BY <1>4, <1>7, <1>8, <1>9, AttachStays, IdsStay, GotStays
  <2>2. RefC(q)' = RefC(q) - (IF cur[u] = q THEN 1 ELSE 0) + (IF NoPeer = q THEN 1 ELSE 0)
    BY <1>1, <1>4, CurMoves, Zenon
  <2>3. /\ RefA(q) \in Nat /\ RefI(q) \in Nat /\ RefG(q) \in Nat /\ RefC(q) \in Nat
        /\ NoPeer # q
    BY <1>1, RefParts
  <2> QED
    BY <1>3, <2>1, <2>2, <2>3
<1> QED
  BY <1>4, <1>6, <1>7, <1>9, UnrefExact

(* PEER_UNMAP drops the reference of the ID it takes from the peer. *)
LEMMA UnmapExact ==
  ASSUME PeerInv, PeerInv', Exact, ol_rx_peer_unmap_handler
  PROVE  Exact'
<1> DEFINE m == peer_id_to_obj_map
<1>1. PICK id \in Ids : id = Head(msgs).id
  BY HeadMsg DEF ol_rx_peer_unmap_handler
<1>2. PICK p \in Peers \cup {NoPeer} : p = m[id]
  BY ObjectTypes
<1>3. /\ m' = [m EXCEPT ![id] = NoPeer] /\ UNCHANGED <<pc, cur, got>>
      /\ IF p = NoPeer THEN peer' = peer ELSE ol_txrx_peer_unref_delete(p, peer)
  BY <1>1, <1>2 DEF ol_rx_peer_unmap_handler, threads
<1>4. m'[id] = NoPeer /\ \A i \in Ids \ {id} : m'[i] = m[i]
  BY <1>3, ObjectTypes
<1>5. Steady /\ \A q \in Peers : Raw(q) => Raw(q)'
  BY <1>3 DEF Steady, Raw
<1>6. CASE p = NoPeer
  <2>1. m' = m
    BY <1>2, <1>3, <1>6, ObjectTypes
  <2> QED
    BY <1>3, <1>5, <1>6, <2>1, QuietExact
<1>7. CASE p # NoPeer
  <2>1. p \in Peers /\ NoPeer \notin Peers /\ IsFiniteSet(Ids)
    BY <1>7, ObjectTypes, ThreadsFinite
  <2>2. Live(p) /\ ~Raw(p) /\ peer[p].peer_ids # <<>>
    BY <1>2, <1>7 DEF PeerInv, TableInv, NoDangling, FreshInv, MapInv, Raw, Early
  <2>3. peer[p].ref_cnt >= 1
    BY <1>2, <2>1, <2>2, HeldCount
  <2>4. ASSUME NEW q \in Peers, peer'[q].valid = peer[q].valid, peer'[q].peer_ids = peer[q].peer_ids
        PROVE  RefA(q) + RefI(q) + RefG(q) + RefC(q)
                 <= RefA(q)' + RefI(q)' + RefG(q)' + RefC(q)' + (IF q = p THEN 1 ELSE 0)
    <3>1. RefA(q)' = RefA(q) /\ RefG(q)' = RefG(q) /\ RefC(q)' = RefC(q)
      BY <1>3, <1>5, <2>4, AttachStays, GotStays, CurStays
    <3> DEFINE k == Cardinality(Holders(m, Ids, q))
               l == Cardinality(Holders(m', Ids, q))
    <3>2. l = k + Change(m, m', id, q) /\ k \in Nat /\ l \in Nat
      BY <1>4, <2>1, IdStep, HolderNat
    <3>3. RefI(q) = (IF peer[q].peer_ids = <<>> THEN 1 ELSE k)
          /\ RefI(q)' = (IF peer[q].peer_ids = <<>> THEN 1 ELSE l)
      BY <2>4 DEF RefI
    <3>4. Change(m, m', id, q) = IF p = q THEN -1 ELSE 0
      BY <1>2, <1>4, <2>1 DEF Change
    <3>5. RefA(q) \in Nat /\ RefG(q) \in Nat /\ RefC(q) \in Nat
      BY RefParts
    <3> HIDE DEF k, l
    <3>6. RefI(q) <= RefI(q)' + (IF q = p THEN 1 ELSE 0) /\ RefI(q) \in Nat /\ RefI(q)' \in Nat
      BY <3>2, <3>3, <3>4
    <3> QED
      BY <3>1, <3>5, <3>6
  <2> QED
    BY <1>3, <1>5, <1>7, <2>1, <2>3, <2>4, UnrefExact
<1> QED
  BY <1>6, <1>7

(* PEER_MAP turns the reference of its lookup into the new ID's, and gives *)
(* the one of the attach back with the first: the ID was nobody's before.  *)
LEMMA MapAddExact ==
  ASSUME PeerInv, PeerInv', Exact, IdFree, MapAddId
  PROVE  Exact'
<1> DEFINE m == peer_id_to_obj_map
<1>0. pc[Tasklet] = "map" /\ msgs # <<>> /\ Tasklet \in Threads \ {MC} /\ NoPeer \notin Peers
  BY ThreadsFinite, ObjectTypes DEF MapAddId, PeerInv, OtherInv
<1>1. PICK p \in Peers : p = cur[Tasklet]
  <2>1. cur[Tasklet] \in Peers \cup {NoPeer}
    BY ThreadTypes
  <2> QED
    BY <1>0, <2>1 DEF PeerInv, OtherInv
<1>2. PICK id \in Ids : id = Head(msgs).id /\ m[id] = NoPeer
  BY <1>0, HeadMsg DEF IdFree
<1>3. PICK r : r = IF peer[p].peer_ids = <<>> THEN peer[p].ref_cnt - 1 ELSE peer[p].ref_cnt
  OBVIOUS
<1>4. Live(p) /\ ~Raw(p)
  BY <1>0, <1>1 DEF PeerInv, TableInv, NoDangling, FreshInv, Raw, Early
<1>5. Mapped(p, r) /\ r \in Nat
  BY <1>1, <1>2, <1>3, <1>4, MapAddObjects
<1>6. /\ m' = [m EXCEPT ![id] = p] /\ cur' = [cur EXCEPT ![Tasklet] = NoPeer]
      /\ pc' = [pc EXCEPT ![Tasklet] = "idle"] /\ got' = [got EXCEPT ![Tasklet] = NoPeer]
  BY <1>1, <1>2 DEF MapAddId, Leave, Goto
<1>7. m'[id] = p /\ \A i \in Ids \ {id} : m'[i] = m[i]
  BY <1>6, ObjectTypes
<1>8. Steady
  <2>1. pc'[MC] = pc[MC] /\ cur'[MC] = cur[MC]
    BY <1>0, <1>6, ThreadTypes
  <2> QED
    BY <2>1 DEF Steady
<1>9. \A t \in Threads : got'[t] = got[t]
  <2>1. got[Tasklet] = NoPeer
    BY DEF PeerInv, OtherInv
  <2> QED
    BY <1>6, <2>1, ThreadTypes
<1>10. peer' \in Objects
  BY <1>5 DEF Mapped
<1> SUFFICES ASSUME NEW q \in Peers, Live(q)', ~Raw(q)'
      PROVE  /\ Live(q) /\ ~Raw(q)
             /\ RefA(q) + RefI(q) + RefG(q) + RefC(q) + peer'[q].ref_cnt
                  <= RefA(q)' + RefI(q)' + RefG(q)' + RefC(q)' + peer[q].ref_cnt
  BY <1>10, ExactBy
<1>11. Live(q) /\ ~Raw(q) /\ RefA(q)' = RefA(q)
  <2>1. peer'[q].mem = peer[q].mem /\ peer'[q].valid = peer[q].valid
    BY <1>5 DEF Mapped
  <2> QED
    BY <1>8, <2>1, AttachStays DEF Live
<1>12. RefG(q)' = RefG(q)
  BY <1>9, GotStays
<1>13. RefC(q)' = RefC(q) - (IF cur[Tasklet] = q THEN 1 ELSE 0) + (IF NoPeer = q THEN 1 ELSE 0)
  BY <1>6, TaskletDrops
<1> DEFINE k == Cardinality(Holders(m, Ids, q))
           l == Cardinality(Holders(m', Ids, q))
           c == peer[q].ref_cnt
           d == peer'[q].ref_cnt
<1>14. l = k + Change(m, m', id, q) /\ k \in Nat /\ l \in Nat
  BY <1>7, ThreadsFinite, IdStep, HolderNat
<1>15. Change(m, m', id, q) = IF p = q THEN 1 ELSE 0
  BY <1>0, <1>2, <1>7 DEF Change
<1>16. RefI(q) = IF peer[q].peer_ids = <<>> THEN 1 ELSE k
  BY DEF RefI
<1>17. RefI(q)' = IF peer'[q].peer_ids = <<>> THEN 1 ELSE l
  BY DEF RefI
<1>18. /\ q # p => peer'[q] = peer[q]
       /\ q = p => peer'[q].peer_ids # <<>> /\ d = r
  BY <1>5 DEF Mapped
<1>19. c \in Nat /\ d \in Nat
  BY <1>10, ObjectTypes DEF Objects, PeerRec
<1>20. /\ q # p => d = c /\ RefI(q)' = RefI(q)
       /\ q = p => d + RefI(q) <= c + RefI(q)' - 1
  <2>1. CASE q # p
    <3>1. d = c /\ peer'[q].peer_ids = peer[q].peer_ids
      BY <1>18, <2>1
    <3> HIDE DEF c, d, k, l
    <3> QED
      BY <1>14, <1>15, <1>16, <1>17, <2>1, <3>1
  <2>2. CASE q = p
    <3>1. d = IF peer[q].peer_ids = <<>> THEN c - 1 ELSE c
      BY <1>3, <1>18, <2>2
    <3> HIDE DEF c, d, k, l
    <3>2. l = k + 1 /\ RefI(q)' = l
      BY <1>14, <1>15, <1>17, <1>18, <2>2
    <3> QED
      BY <1>14, <1>16, <1>19, <2>2, <3>1, <3>2
  <2> QED
    BY <2>1, <2>2
<1>21. /\ RefA(q) \in Nat /\ RefI(q) \in Nat /\ RefG(q) \in Nat /\ RefC(q) \in Nat
       /\ RefI(q)' \in Nat /\ NoPeer # q
  BY <1>0, RefParts, RefPartsNext
<1> HIDE DEF c, d, k, l
<1>22. RefA(q) + RefI(q) + RefG(q) + RefC(q) + d <= RefA(q)' + RefI(q)' + RefG(q)' + RefC(q)' + c
  BY <1>1, <1>11, <1>12, <1>13, <1>19, <1>20, <1>21
<1> QED
  BY <1>11, <1>22 DEF c, d

(* The steps of the others that move no pointer to a peer. *)
LEMMA OtherQuietExact ==
  ASSUME PeerInv, Exact,
         \/ \E u \in Users, m \in Macs : StartFind(u, m)
         \/ \E u \in Users : ChangeState(u)
         \/ ol_txrx_vdev_detach \/ TargetStep \/ UNCHANGED vars
  PROVE  Exact'
<1>1. ASSUME NEW u \in Users, NEW m \in Macs, StartFind(u, m) PROVE Exact'
  <2>1. u \in Threads /\ u # MC
    BY ThreadsFinite
  <2>2. PICK w \in {"find"} : pc' = [pc EXCEPT ![u] = w]
    BY <1>1 DEF StartFind, Goto
  <2>3. UNCHANGED <<cur, got, peer, peer_id_to_obj_map>>
    BY <1>1 DEF StartFind
  <2>4. Steady
    BY <2>1, <2>2, <2>3, ThreadSteady
  <2> QED
    BY <2>3, <2>4, QuietExact
<1>2. ASSUME NEW u \in Users, ChangeState(u) PROVE Exact'
  <2>1. u \in Threads /\ u # MC
    BY ThreadsFinite
  <2>2. PICK w \in {"release", "update"} : pc' = [pc EXCEPT ![u] = w]
    BY <1>2 DEF ChangeState, Goto
  <2>3. UNCHANGED <<cur, got, peer, peer_id_to_obj_map>>
    BY <1>2 DEF ChangeState
  <2>4. Steady
    BY <2>1, <2>2, <2>3, ThreadSteady
  <2> QED
    BY <2>3, <2>4, QuietExact
<1>3. CASE ol_txrx_vdev_detach \/ TargetStep \/ UNCHANGED vars
  <2>1. UNCHANGED <<pc, cur, got, peer, peer_id_to_obj_map>>
    BY <1>3 DEF ol_txrx_vdev_detach, TargetStep, TargetCreate, TargetDelete, threads, vars
  <2>2. Steady
    BY <2>1 DEF Steady
  <2> QED
    BY <2>1, <2>2, QuietExact
<1> QED
  BY <1>1, <1>2, <1>3

LEMMA NextExact ==
  ASSUME PeerInv, PeerInv', Exact, IdFree, [Next]_vars
  PROVE  Exact'
<1>1. ASSUME NEW m \in Macs, WmaCreatePeer(m) PROVE Exact'
  BY <1>1, QuietStepsExact
<1>2. ASSUME NEW t \in {MC} \cup Peekers, NEW m \in Macs, StartFind(t, m) PROVE Exact'
  <2>1. t = MC \/ t \in Users
    BY PeerAssumption
  <2> QED
    BY <1>2, <2>1, QuietStepsExact, OtherQuietExact
<1>3. CASE ol_txrx_vdev_detach \/ TargetStep \/ UNCHANGED vars
  BY <1>3, OtherQuietExact
<1>4. CASE McStep
  BY <1>4, QuietStepsExact, AllocExact, InitExact, LocalIdExact, InvalidateExact, MarkExact,
     DetachExact DEF McStep
<1>5. ASSUME NEW t \in {MC} \cup Users, ThreadStep(t) PROVE Exact'
  BY <1>5, FindExact, DecExact, FollowExact DEF ThreadStep
<1>6. CASE TaskletStep
  BY <1>6, MapFindExact, MapAddExact, UnmapExact DEF TaskletStep
<1>7. ASSUME NEW u \in Users, NEW i \in Lids, ol_txrx_peer_find_with_ref_by_local_id(u, i)
      PROVE  Exact'
  BY <1>7, LocalFindExact
<1>8. ASSUME NEW u \in Users, UserStep(u) PROVE Exact'
  BY <1>8, OtherQuietExact, ReleaseExact DEF UserStep
<1> QED
  BY <1>1, <1>2, <1>3, <1>4, <1>5, <1>6, <1>7, <1>8 DEF Next

(* A peer in the hash table is alive, and its attach is past InitPeer. *)
LEMMA HashCounts ==
  ASSUME PeerInv, Exact
  PROVE  RefsAccounted
<1> SUFFICES ASSUME NEW p \in ToSet(hash)
             PROVE  peer[p].ref_cnt = References(p)
  BY DEF RefsAccounted
<1>1. p \in Peers /\ Live(p)
  BY ObjectTypes DEF PeerInv, TableInv, NoDangling
<1>2. ~Raw(p)
  BY DEF PeerInv, TableInv, FreshInv, Early, Raw
<1>3. peer[p].ref_cnt >= References(p) /\ peer[p].ref_cnt <= References(p)
  BY <1>1, <1>2 DEF PeerInv, Covered, Exact
<1>4. peer[p].ref_cnt \in Nat
  BY <1>1, ObjectTypes DEF Objects, PeerRec
<1>5. References(p) \in Nat
  <2>1. /\ References(p) = RefA(p) + RefI(p) + RefG(p) + RefC(p)
        /\ RefA(p) \in Nat /\ RefI(p) \in Nat /\ RefG(p) \in Nat /\ RefC(p) \in Nat
    BY RefParts
  <2> QED
    BY <2>1
<1> QED
  BY <1>3, <1>4, <1>5

(* A behaviour in which the target maps no ID that it has not unmapped     *)
(* before: then every lookup, attach, map, unmap, detach and release moves *)
(* the count of a peer by as much as it moves the pointers and the         *)
(* attachment the count stands for, and ol_txrx_peer_unref_delete deletes  *)
(* the peer neither early nor late.  Without that behaviour of the target, *)
(* ol_txrx_peer_find_add_id replaces the pointer of an ID in               *)
(* peer_id_to_obj_map, and the reference the old pointer stood for is      *)
(* never dropped.                                                          *)
THEOREM CountsExact == Spec /\ []IdFree => []RefsAccounted
<1>1. Init => Exact
  <2> SUFFICES ASSUME Init PROVE Exact
    OBVIOUS
  <2>1. \A p \in Peers : peer[p].mem = "none"
    BY DEF Init, Zeroed
  <2> QED
    BY <2>1 DEF Exact, Live
<1>2. PeerInv /\ PeerInv' /\ Exact /\ IdFree /\ [Next]_vars => Exact'
  BY NextExact
<1>3. PeerInv /\ Exact => RefsAccounted
  BY HashCounts
<1> QED
  BY <1>1, <1>2, <1>3, Invariance, PTL DEF Spec

-----------------------------------------------------------------------------
(***************************************************************************)
(* When an ID is mapped that is still mapped.                              *)
(*                                                                         *)
(* A target that is asked to create a peer only at an address it has none  *)
(* of gives out an ID again only after it has sent the PEER_UNMAP, and     *)
(* messages keep their order.  Take the table for message 0 and the next   *)
(* PEER_MAP for the one after the last: between two maps of an ID there is *)
(* an unmap.                                                               *)
(***************************************************************************)

(* A create command finds no peer of its address in the target. *)
CreateFresh == cmds # <<>> /\ Head(cmds).type = "create" => targetIds[Head(cmds).mac] = <<>>

Used(ids) == UNION {ToSet(ids[m]) : m \in Macs}

Gives(table, s, k, i) ==
    IF k = 0 THEN table[i] # NoPeer ELSE s[k].type = "map" /\ s[k].id = i
MayGive(table, s, used, k, i) ==
    IF k = Len(s) + 1 THEN i \notin used ELSE Gives(table, s, k, i)
TakenBetween(s, k, l, i) == \E j \in (k + 1)..(l - 1) : s[j].type = "unmap" /\ s[j].id = i

Alternate(table, s, used) ==
    \A i \in Ids, k \in 0..Len(s), l \in 1..(Len(s) + 1) :
        (k < l /\ Gives(table, s, k, i) /\ MayGive(table, s, used, l, i)) =>
            TakenBetween(s, k, l, i)

IdInv ==
    /\ Alternate(peer_id_to_obj_map, msgs, Used(targetIds))
    /\ pc[Tasklet] = "map" => Head(msgs).type = "map"

(* The host handles the oldest message. *)
LEMMA AlternatePop ==
  ASSUME NEW M, NEW s \in Seq(M), s # <<>>, NEW table, NEW new, NEW used,
         Alternate(table, s, used),
         \A i \in Ids : new[i] # NoPeer =>
            \/ table[i] # NoPeer /\ ~(Head(s).type = "unmap" /\ Head(s).id = i)
            \/ Head(s).type = "map" /\ Head(s).id = i
  PROVE  Alternate(new, Tail(s), used)
<1> DEFINE t == Tail(s)
<1>1. /\ Len(s) \in Nat /\ Len(t) = Len(s) - 1 /\ s[1] = Head(s) /\ Len(s) >= 1
      /\ \A k \in 1..Len(t) : t[k] = s[k + 1]
  OBVIOUS
<1> HIDE DEF t
<1> SUFFICES ASSUME NEW i \in Ids, NEW k \in 0..Len(t), NEW l \in 1..(Len(t) + 1),
                    k < l, Gives(new, t, k, i), MayGive(new, t, used, l, i)
             PROVE  TakenBetween(t, k, l, i)
  BY DEF Alternate, t
<1>2. PICK n \in {0, k + 1} : /\ n <= k + 1 /\ n \in 0..Len(s) /\ Gives(table, s, n, i)
                              /\ n = 0 => k = 0 /\ ~(s[1].type = "unmap" /\ s[1].id = i)
  <2>1. CASE k = 0 /\ table[i] # NoPeer /\ ~(Head(s).type = "unmap" /\ Head(s).id = i)
    BY <1>1, <2>1 DEF Gives
  <2>2. CASE k = 0 /\ Head(s).type = "map" /\ Head(s).id = i
    BY <1>1, <2>2 DEF Gives
  <2>3. CASE k # 0
    <3>1. t[k] = s[k + 1] /\ k + 1 # 0 /\ k + 1 \in 0..Len(s)
      BY <1>1, <2>3
    <3> QED
      BY <2>3, <3>1 DEF Gives
  <2> QED
    BY <2>1, <2>2, <2>3 DEF Gives
<1>3. MayGive(table, s, used, l + 1, i) /\ l + 1 \in 1..(Len(s) + 1)
  <2>1. CASE l = Len(t) + 1
    BY <1>1, <2>1 DEF MayGive
  <2>2. CASE l # Len(t) + 1
    <3>1. t[l] = s[l + 1] /\ l # 0 /\ l + 1 # 0 /\ l + 1 # Len(s) + 1
      BY <1>1, <2>2
    <3> QED
      BY <1>1, <2>2, <3>1 DEF MayGive, Gives
  <2> QED
    BY <2>1, <2>2
<1>4. TakenBetween(s, n, l + 1, i)
  BY <1>2, <1>3 DEF Alternate
<1>5. PICK j \in (n + 1)..l : s[j].type = "unmap" /\ s[j].id = i
  BY <1>4 DEF TakenBetween
<1>6. j - 1 \in (k + 1)..(l - 1)
  <2>1. CASE n = 0
    <3>1. j # 1
      BY <1>2, <1>5, <2>1
    <3> QED
      BY <1>2, <1>5, <2>1, <3>1
  <2>2. CASE n = k + 1
    BY <2>2
  <2> QED
    BY <1>2, <2>1, <2>2
<1>7. t[j - 1] = s[j]
  BY <1>1, <1>6
<1> QED
  BY <1>5, <1>6, <1>7 DEF TakenBetween

(* What Alternate says of messages that are still there. *)
LEMMA TakenStays ==
  ASSUME NEW M, NEW s \in Seq(M), NEW n \in Seq(M), NEW i, NEW k \in Nat,
         NEW l \in 1..(Len(s) + 1), NEW h \in Nat, l <= h, TakenBetween(s, k, l, i)
  PROVE  TakenBetween(s \o n, k, h, i)
<1>1. PICK j \in (k + 1)..(l - 1) : s[j].type = "unmap" /\ s[j].id = i
  BY DEF TakenBetween
<1>2. (s \o n)[j] = s[j] /\ j \in (k + 1)..(h - 1)
  BY <1>1
<1> QED
  BY <1>1, <1>2 DEF TakenBetween

(* The target gives out IDs nobody has. *)
LEMMA AlternateCreate ==
  ASSUME NEW M, NEW s \in Seq(M), NEW n \in Seq(M), NEW table, NEW used, NEW now,
         Alternate(table, s, used), used \subseteq now,
         \A k \in 1..Len(n) : n[k].id \notin used /\ n[k].id \in now,
         \A k, l \in 1..Len(n) : n[k].id = n[l].id => k = l
  PROVE  Alternate(table, s \o n, now)
<1> DEFINE t == s \o n
<1>1. /\ Len(s) \in Nat /\ Len(n) \in Nat /\ Len(t) = Len(s) + Len(n)
      /\ \A k \in 1..Len(s) : t[k] = s[k]
      /\ \A k \in 1..Len(n) : t[Len(s) + k] = n[k]
  OBVIOUS
<1> HIDE DEF t
<1> SUFFICES ASSUME NEW i \in Ids, NEW k \in 0..Len(t), NEW l \in 1..(Len(t) + 1),
                    k < l, Gives(table, t, k, i), MayGive(table, t, now, l, i)
             PROVE  TakenBetween(t, k, l, i)
  BY DEF Alternate, t
<1>9. /\ Len(s) \in Nat /\ Len(n) \in Nat /\ Len(t) = Len(s) + Len(n) /\ Len(t) \in Nat
      /\ l \in Nat /\ l >= 1 /\ l <= Len(t) + 1
  BY <1>1
<1>2. CASE l <= Len(s)
  <2>1. Gives(table, s, k, i) /\ MayGive(table, s, used, l, i)
    BY <1>1, <1>2 DEF Gives, MayGive
  <2>2. TakenBetween(s, k, l, i)
    BY <1>1, <1>2, <2>1 DEF Alternate
  <2> QED
    BY <1>1, <1>2, <2>2, TakenStays DEF t
<1>3. CASE l > Len(s)
  <2>1. i \notin used /\ (k > Len(s) => FALSE)
    <3>1. CASE l = Len(t) + 1
      <4>1. i \notin now
        BY <3>1 DEF MayGive
      <4>2. k > Len(s) => n[k - Len(s)].id = i /\ k - Len(s) \in 1..Len(n)
        BY <1>1 DEF Gives
      <4> QED
        BY <4>1, <4>2
    <3>2. CASE l # Len(t) + 1
      <4>0. PICK x \in 1..Len(n) : x = l - Len(s)
        <5>1. \A c, d, e \in Nat : (e = c + d /\ l > c /\ l <= e + 1 /\ l # e + 1) => l - c \in 1..d
          BY <1>9
        <5>2. l - Len(s) \in 1..Len(n)
          BY <1>3, <1>9, <3>2, <5>1
        <5> QED
          BY <5>2
      <4>1. t[l] = n[x] /\ t[l].id = i
        <5>1. l = Len(s) + x /\ l # 0
          BY <1>1, <4>0
        <5>2. t[Len(s) + x] = n[x]
          BY <1>1
        <5>3. Gives(table, t, l, i)
          BY <3>2 DEF MayGive
        <5> QED
          BY <5>1, <5>2, <5>3 DEF Gives
      <4>2. k > Len(s) => n[k - Len(s)].id = i /\ k - Len(s) \in 1..Len(n)
        BY <1>1 DEF Gives
      <4> QED
        BY <1>1, <4>0, <4>1, <4>2
    <3> QED
      BY <3>1, <3>2
  <2>2. k \in 0..Len(s) /\ Gives(table, s, k, i) /\ MayGive(table, s, used, Len(s) + 1, i)
    BY <1>1, <2>1 DEF Gives, MayGive
  <2>3. TakenBetween(s, k, Len(s) + 1, i)
    BY <1>1, <2>2 DEF Alternate
  <2> QED
    BY <1>1, <1>3, <2>2, <2>3, TakenStays DEF t
<1> QED
  BY <1>1, <1>2, <1>3

(* ... and takes back what it had given out. *)
LEMMA AlternateDelete ==
  ASSUME NEW M, NEW s \in Seq(M), NEW n \in Seq(M), NEW table, NEW used, NEW now,
         Alternate(table, s, used),
         \A k \in 1..Len(n) : n[k].type = "unmap",
         \A i \in used \ now : \E k \in 1..Len(n) : n[k].id = i
  PROVE  Alternate(table, s \o n, now)
<1> DEFINE t == s \o n
<1>1. /\ Len(s) \in Nat /\ Len(n) \in Nat /\ Len(t) = Len(s) + Len(n)
      /\ \A k \in 1..Len(s) : t[k] = s[k]
      /\ \A k \in 1..Len(n) : t[Len(s) + k] = n[k]
  OBVIOUS
<1> HIDE DEF t
<1>2. \A k \in 1..Len(t) : k > Len(s) => t[k].type = "unmap"
  <2> SUFFICES ASSUME NEW k \in 1..Len(t), k > Len(s) PROVE t[k].type = "unmap"
    OBVIOUS
  <2>1. k - Len(s) \in 1..Len(n) /\ t[k] = n[k - Len(s)]
    BY <1>1
  <2> QED
    BY <2>1
<1> SUFFICES ASSUME NEW i \in Ids, NEW k \in 0..Len(t), NEW l \in 1..(Len(t) + 1),
                    k < l, Gives(table, t, k, i), MayGive(table, t, now, l, i)
             PROVE  TakenBetween(t, k, l, i)
  BY DEF Alternate, t
<1>9. /\ Len(s) \in Nat /\ Len(n) \in Nat /\ Len(t) = Len(s) + Len(n) /\ Len(t) \in Nat
      /\ l \in Nat /\ l >= 1 /\ l <= Len(t) + 1
  BY <1>1
<1>3. k <= Len(s) /\ Gives(table, s, k, i)
  BY <1>1, <1>2 DEF Gives
<1>4. CASE l <= Len(s)
  <2>1. MayGive(table, s, used, l, i)
    BY <1>1, <1>4 DEF Gives, MayGive
  <2>2. TakenBetween(s, k, l, i)
    BY <1>1, <1>3, <1>4, <2>1 DEF Alternate
  <2> QED
    BY <1>1, <1>4, <2>2, TakenStays DEF t
<1>5. CASE l > Len(s)
  <2>1. l = Len(t) + 1 /\ i \notin now
    <3>1. CASE l = Len(t) + 1
      BY <3>1 DEF MayGive
    <3>2. CASE l # Len(t) + 1
      <4>1. l \in 1..Len(t) /\ l # 0
        BY <1>9, <3>2
      <4>2. t[l].type = "unmap"
        BY <1>2, <1>5, <4>1
      <4>3. Gives(table, t, l, i)
        BY <3>2 DEF MayGive
      <4> QED
        BY <4>1, <4>2, <4>3 DEF Gives
    <3> QED
      BY <3>1, <3>2
  <2>2. CASE i \in used
    <3>1. PICK x \in 1..Len(n) : n[x].id = i
      BY <2>1, <2>2
    <3>2. Len(s) + x \in (k + 1)..(l - 1) /\ t[Len(s) + x].type = "unmap" /\ t[Len(s) + x].id = i
      BY <1>1, <1>3, <2>1, <3>1
    <3> QED
      BY <3>2 DEF TakenBetween
  <2>3. CASE i \notin used
    <3>1. MayGive(table, s, used, Len(s) + 1, i)
      BY <2>3 DEF MayGive
    <3>2. TakenBetween(s, k, Len(s) + 1, i)
      BY <1>1, <1>3, <3>1 DEF Alternate
    <3> QED
      BY <1>1, <1>5, <3>2, TakenStays DEF t
  <2> QED
    BY <2>2, <2>3
<1> QED
  BY <1>1, <1>4, <1>5

(* Who neither handles a message nor a command leaves the IDs alone. *)
LEMMA OthersKeepIds ==
  ASSUME PeerInv,
         \/ \E m \in Macs : WmaCreatePeer(m)
         \/ \E t \in {MC} \cup Users, m \in Macs : StartFind(t, m)
         \/ ol_txrx_vdev_detach \/ McStep
         \/ \E t \in {MC} \cup Users : ThreadStep(t)
         \/ \E u \in Users, i \in Lids : ol_txrx_peer_find_with_ref_by_local_id(u, i)
         \/ \E u \in Users : UserStep(u)
         \/ UNCHANGED vars
  PROVE  UNCHANGED <<peer_id_to_obj_map, msgs, targetIds>> /\ pc'[Tasklet] = pc[Tasklet]
<1>1. UNCHANGED <<peer_id_to_obj_map, msgs, targetIds>>
  BY DEF WmaCreatePeer, StartFind, ol_txrx_vdev_detach, McStep, ThreadStep, UserStep,
         ol_txrx_peer_find_with_ref_by_local_id, CheckDuplicate, Woken, WaitTimeout, AllocPeer,
         InsertPeer, InitPeer, ol_txrx_peer_find_hash_add, OL_TXRX_LOCAL_PEER_ID_ALLOC,
         CreateSend, WmaRemovePeer, InvalidatePeer, OL_TXRX_LOCAL_PEER_ID_FREE, MarkDeleted,
         DetachUnref, ol_txrx_find_peer_by_addr, PlainDec, FollowBare, ChangeState,
         ReleasePeer, vars, target
<1>2. pc' = pc \/ \E t \in {MC} \cup Users : \E w \in Steps \cup {AfterFind(t)} :
                    pc' = [pc EXCEPT ![t] = w]
  <2>1. CASE \E m \in Macs : WmaCreatePeer(m)
    BY <2>1 DEF WmaCreatePeer, Goto, Steps
  <2>2. CASE \E t \in {MC} \cup Users, m \in Macs : StartFind(t, m)
    BY <2>2 DEF StartFind, Goto, Steps
  <2>3. CASE ol_txrx_vdev_detach \/ UNCHANGED vars
    BY <2>3 DEF ol_txrx_vdev_detach, vars, threads
  <2>4. CASE McStep
    <3>1. \E w \in Steps : pc' = [pc EXCEPT ![MC] = w]
      BY <2>4 DEF McStep, CheckDuplicate, Woken, WaitTimeout, AllocPeer, InsertPeer, InitPeer,
         ol_txrx_peer_find_hash_add, OL_TXRX_LOCAL_PEER_ID_ALLOC, CreateSend, WmaRemovePeer,
         InvalidatePeer, OL_TXRX_LOCAL_PEER_ID_FREE, MarkDeleted, DetachUnref, CreateFailed,
         Leave, Goto, Steps
    <3> QED
      BY <3>1
  <2>5. ASSUME NEW t \in {MC} \cup Users, ThreadStep(t)
        PROVE  \E w \in Steps \cup {AfterFind(t)} : pc' = [pc EXCEPT ![t] = w]
    BY <2>5 DEF ThreadStep, ol_txrx_find_peer_by_addr, PlainDec, FollowBare, GotoNext, Goto,
       Steps
  <2>6. CASE \E u \in Users, i \in Lids : ol_txrx_peer_find_with_ref_by_local_id(u, i)
    BY <2>6 DEF ol_txrx_peer_find_with_ref_by_local_id, Goto, Steps
  <2>7. CASE \E u \in Users : UserStep(u)
    BY <2>7 DEF UserStep, ChangeState, ReleasePeer, Leave, Goto, Steps
  <2> QED
    BY <2>1, <2>2, <2>3, <2>4, <2>5, <2>6, <2>7
<1>3. /\ pc \in [Threads -> Steps] /\ Tasklet \in Threads
      /\ \A t \in {MC} \cup Users : t # Tasklet
  BY ThreadsFinite, ThreadTypes
<1> QED
  BY <1>1, <1>2, <1>3

LEMMA TaskletIds ==
  ASSUME PeerInv, IdInv, TaskletStep
  PROVE  IdInv'
<1> DEFINE m == peer_id_to_obj_map
<1>0. /\ Tasklet \in Threads /\ pc \in [Threads -> Steps] /\ m \in [Ids -> Peers \cup {NoPeer}]
      /\ msgs \in Seq([type: {"map", "unmap"}, id: Ids, mac: Macs])
      /\ targetIds' = targetIds
  BY ThreadTypes, ObjectTypes, MsgTypes DEF TaskletStep, MapFind, MapAddId, ol_rx_peer_unmap_handler
<1>1. CASE MapFind /\ msgs' = msgs
  <2>1. m' = m /\ Head(msgs).type = "map"
    BY <1>1 DEF MapFind
  <2> QED
    BY <1>0, <1>1, <2>1 DEF IdInv
<1>2. CASE MapFind /\ msgs' # msgs
  <2>1. /\ m' = m /\ msgs' = Tail(msgs) /\ msgs # <<>> /\ Head(msgs).type = "map"
        /\ pc[Tasklet] = "idle" /\ pc' = pc
    BY <1>2 DEF MapFind
  <2>2. Alternate(m', msgs', Used(targetIds'))
    BY <1>0, <2>1, AlternatePop DEF IdInv
  <2> QED
    BY <2>1, <2>2 DEF IdInv
<1>3. CASE MapAddId
  <2>1. /\ msgs # <<>> /\ pc[Tasklet] = "map" /\ msgs' = Tail(msgs)
        /\ m' = [m EXCEPT ![Head(msgs).id] = cur[Tasklet]] /\ pc'[Tasklet] = "idle"
    BY <1>0, <1>3 DEF MapAddId, Leave, Goto, PeerInv, OtherInv
  <2>2. Head(msgs).type = "map" /\ Alternate(m, msgs, Used(targetIds))
    BY <2>1 DEF IdInv
  <2>3. \A i \in Ids : m'[i] # NoPeer =>
          \/ m[i] # NoPeer /\ ~(Head(msgs).type = "unmap" /\ Head(msgs).id = i)
          \/ Head(msgs).type = "map" /\ Head(msgs).id = i
    BY <1>0, <2>1, <2>2
  <2>4. Alternate(m', msgs', Used(targetIds'))
    BY <1>0, <2>1, <2>2, <2>3, AlternatePop
  <2> QED
    BY <2>1, <2>4 DEF IdInv
<1>4. CASE ol_rx_peer_unmap_handler
  <2>1. /\ msgs # <<>> /\ pc[Tasklet] = "idle" /\ msgs' = Tail(msgs) /\ pc' = pc
        /\ m' = [m EXCEPT ![Head(msgs).id] = NoPeer] /\ Head(msgs).type = "unmap"
    BY <1>4 DEF ol_rx_peer_unmap_handler, threads
  <2>2. Head(msgs).id \in Ids /\ Alternate(m, msgs, Used(targetIds))
    BY <2>1, HeadMsg DEF IdInv
  <2>3. \A i \in Ids : m'[i] # NoPeer =>
          \/ m[i] # NoPeer /\ ~(Head(msgs).type = "unmap" /\ Head(msgs).id = i)
          \/ Head(msgs).type = "map" /\ Head(msgs).id = i
    BY <1>0, <2>1, <2>2
  <2>4. Alternate(m', msgs', Used(targetIds'))
    BY <1>0, <2>1, <2>2, <2>3, AlternatePop
  <2> QED
    BY <2>1, <2>4 DEF IdInv
<1> QED
  BY <1>1, <1>2, <1>3, <1>4 DEF TaskletStep

(* The messages of one command. *)
LEMMA AnswerTypes ==
  ASSUME NEW ids \in Seq(Ids), NEW k \in {"map", "unmap"}, NEW m \in Macs
  PROVE  LET new == [i \in 1..Len(ids) |-> [type |-> k, id |-> ids[i], mac |-> m]] IN
         /\ new \in Seq([type: {"map", "unmap"}, id: Ids, mac: Macs])
         /\ Len(new) = Len(ids)
         /\ \A i \in 1..Len(ids) : new[i].type = k /\ new[i].id = ids[i]
<1> DEFINE M == [type: {"map", "unmap"}, id: Ids, mac: Macs]
           new == [i \in 1..Len(ids) |-> [type |-> k, id |-> ids[i], mac |-> m]]
<1>1. Len(ids) \in Nat
  OBVIOUS
<1>2. \A i \in 1..Len(ids) : [type |-> k, id |-> ids[i], mac |-> m] \in M
  OBVIOUS
<1>3. /\ new \in [1..Len(ids) -> M]
      /\ \A i \in 1..Len(ids) : new[i].type = k /\ new[i].id = ids[i]
  BY <1>2
<1> HIDE DEF new, M
<1>4. new \in Seq(M) /\ Len(new) = Len(ids)
  BY <1>1, <1>3
<1> QED
  BY <1>3, <1>4 DEF new, M

(* The IDs of a new peer are different and nobody's. *)
LEMMA FreshIds ==
  ASSUME StateOK, TargetCreate
  PROVE  \E ids \in Seq(Ids) :
            /\ targetIds' = [targetIds EXCEPT ![Head(cmds).mac] = ids]
            /\ msgs' = msgs \o [i \in 1..Len(ids) |->
                                  [type |-> "map", id |-> ids[i], mac |-> Head(cmds).mac]]
            /\ \A k \in 1..Len(ids) : ids[k] \notin Used(targetIds)
            /\ \A k, l \in 1..Len(ids) : ids[k] = ids[l] => k = l
<1> DEFINE free == Ids \ UNION {ToSet(targetIds[n]) : n \in Macs}
           a == Min(free)
           b == Min(free \ {a})
           ids == IF IdsPerPeer = 1 THEN <<a>> ELSE <<a, b>>
           m == Head(cmds).mac
<1>1. /\ Cardinality(free) >= IdsPerPeer /\ targetIds' = [targetIds EXCEPT ![m] = ids]
      /\ msgs' = msgs \o [i \in 1..Len(ids) |-> [type |-> "map", id |-> ids[i], mac |-> m]]
  BY DEF TargetCreate
<1>2. /\ free \subseteq Ids /\ Ids \subseteq Nat /\ IsFiniteSet(free)
      /\ \A x \in free : x \notin Used(targetIds)
  BY ThreadsFinite, FS_Subset, PeerAssumption DEF Ids, Used
<1> HIDE DEF free
<1>3. free # {}
  <2> SUFFICES ASSUME free = {} PROVE FALSE
    OBVIOUS
  <2>1. Cardinality(free) = 0
    BY FS_EmptySet
  <2> QED
    BY <1>1, <2>1, PeerAssumption
<1>4. a \in free
  BY <1>2, <1>3, LeastNat
<1>5. IdsPerPeer # 1 => b \in free \ {a}
  <2> SUFFICES ASSUME IdsPerPeer # 1 PROVE b \in free \ {a}
    OBVIOUS
  <2>1. Cardinality(free) >= 2
    BY <1>1, PeerAssumption
  <2>2. Cardinality(free \ {a}) = Cardinality(free) - 1 /\ Cardinality(free) \in Nat
    BY <1>2, <1>4, FS_RemoveElement, FS_CardinalityType
  <2>3. free \ {a} # {}
    BY <2>1, <2>2, FS_EmptySet
  <2>4. free \ {a} \in SUBSET Nat
    BY <1>2
  <2> QED
    BY <1>2, <2>3, <2>4, LeastNat
<1> HIDE DEF a, b
<1>6. /\ ids \in Seq(Ids)
      /\ \A k \in 1..Len(ids) : ids[k] \in free
      /\ \A k, l \in 1..Len(ids) : ids[k] = ids[l] => k = l
  <2>1. CASE IdsPerPeer = 1
    <3>1. ids = <<a>>
      BY <2>1
    <3> HIDE DEF ids
    <3> QED
      BY <1>2, <1>4, <3>1
  <2>2. CASE IdsPerPeer # 1
    <3>1. ids = <<a, b>>
      BY <2>2
    <3>2. a \in Ids /\ b \in Ids /\ b \in free /\ a # b
      BY <1>2, <1>4, <1>5, <2>2
    <3> HIDE DEF ids
    <3> QED
      BY <1>4, <3>1, <3>2
  <2> QED
    BY <2>1, <2>2
<1> HIDE DEF ids
<1> QED
  BY <1>1, <1>2, <1>6

LEMMA TargetIds ==
  ASSUME PeerInv, IdInv, CreateFresh, TargetStep
  PROVE  IdInv'
<1> DEFINE C == [type: {"create", "delete"}, mac: Macs]
           M == [type: {"map", "unmap"}, id: Ids, mac: Macs]
<1>1. /\ cmds \in Seq(C) /\ cmds # <<>> /\ msgs \in Seq(M)
      /\ targetIds \in [Macs -> Seq(Ids)]
      /\ UNCHANGED <<pc, peer_id_to_obj_map>>
  BY DEF PeerInv, StateOK, TargetStep, TargetCreate, TargetDelete, threads
<1>2. PICK m \in Macs : m = Head(cmds).mac
  <2>1. Head(cmds) \in C
    <3> HIDE DEF C
    <3> QED
      BY <1>1
  <2> QED
    BY <2>1
<1>3. Alternate(peer_id_to_obj_map, msgs, Used(targetIds))
  BY DEF IdInv
<1>4. ASSUME NEW new \in Seq(M), msgs' = msgs \o new, pc[Tasklet] = "map"
      PROVE  Head(msgs') = Head(msgs)
  <2>1. msgs # <<>>
    BY <1>4 DEF PeerInv, OtherInv
  <2> HIDE DEF M
  <2> QED
    BY <1>1, <1>4, <2>1
<1>5. CASE TargetCreate
  <2>1. PICK ids \in Seq(Ids) :
            /\ targetIds' = [targetIds EXCEPT ![m] = ids]
            /\ msgs' = msgs \o [i \in 1..Len(ids) |->
                                  [type |-> "map", id |-> ids[i], mac |-> m]]
            /\ \A k \in 1..Len(ids) : ids[k] \notin Used(targetIds)
            /\ \A k, l \in 1..Len(ids) : ids[k] = ids[l] => k = l
    BY <1>2, <1>5, FreshIds DEF PeerInv
  <2>2. PICK new : new = [i \in 1..Len(ids) |-> [type |-> "map", id |-> ids[i], mac |-> m]]
    OBVIOUS
  <2>3. /\ new \in Seq(M) /\ Len(new) = Len(ids)
        /\ \A i \in 1..Len(ids) : new[i].type = "map" /\ new[i].id = ids[i]
    BY <2>2, AnswerTypes
  <2>4. targetIds[m] = <<>>
    BY <1>1, <1>2, <1>5 DEF CreateFresh, TargetCreate
  <2>5. /\ Used(targetIds) \subseteq Used(targetIds')
        /\ \A k \in 1..Len(ids) : ids[k] \in Used(targetIds')
    <3>1. targetIds'[m] = ids /\ \A n \in Macs : n # m => targetIds'[n] = targetIds[n]
      BY <1>1, <2>1
    <3>2. ToSet(targetIds[m]) = {}
      BY <2>4 DEF ToSet
    <3>3. \A k \in 1..Len(ids) : ids[k] \in ToSet(ids)
      BY DEF ToSet
    <3> QED
      BY <3>1, <3>2, <3>3 DEF Used
  <2>6. PICK now : now = Used(targetIds')
    OBVIOUS
  <2>7. Alternate(peer_id_to_obj_map, msgs \o new, now)
    <3>1. /\ \A k \in 1..Len(new) : new[k].id \notin Used(targetIds) /\ new[k].id \in now
          /\ \A k, l \in 1..Len(new) : new[k].id = new[l].id => k = l
          /\ Used(targetIds) \subseteq now
      <4>1. \A k \in 1..Len(new) : k \in 1..Len(ids) /\ new[k].id = ids[k]
        BY <2>3
      <4>2. \A k \in 1..Len(new) : new[k].id \notin Used(targetIds) /\ new[k].id \in now
        BY <2>1, <2>5, <2>6, <4>1
      <4>3. \A k, l \in 1..Len(new) : new[k].id = new[l].id => k = l
        BY <2>1, <4>1
      <4> QED
        BY <2>5, <2>6, <4>2, <4>3
    <3> HIDE DEF M
    <3> QED
      BY <1>1, <1>3, <2>3, <3>1, AlternateCreate
  <2> QED
    BY <1>1, <1>4, <2>1, <2>2, <2>3, <2>6, <2>7 DEF IdInv
<1>6. CASE TargetDelete
  <2>1. PICK ids \in Seq(Ids) : ids = targetIds[m]
    BY <1>1
  <2>2. PICK new : new = [i \in 1..Len(ids) |-> [type |-> "unmap", id |-> ids[i], mac |-> m]]
    OBVIOUS
  <2>3. /\ new \in Seq(M) /\ Len(new) = Len(ids)
        /\ \A i \in 1..Len(ids) : new[i].type = "unmap" /\ new[i].id = ids[i]
    BY <2>2, AnswerTypes
  <2>4. msgs' = msgs \o new /\ targetIds' = [targetIds EXCEPT ![m] = <<>>]
    BY <1>2, <1>6, <2>1, <2>2 DEF TargetDelete
  <2>5. PICK now : now = Used(targetIds')
    OBVIOUS
  <2>6. \A i \in Used(targetIds) \ now : \E k \in 1..Len(new) : new[k].id = i
    <3> SUFFICES ASSUME NEW i \in Used(targetIds), i \notin now
                 PROVE  \E k \in 1..Len(new) : new[k].id = i
      OBVIOUS
    <3>1. PICK n \in Macs : i \in ToSet(targetIds[n])
      BY DEF Used
    <3>2. n = m
      <4>1. n # m => targetIds'[n] = targetIds[n]
        BY <1>1, <2>4
      <4> QED
        BY <2>5, <3>1, <4>1 DEF Used
    <3>3. PICK k \in 1..Len(ids) : ids[k] = i
      BY <2>1, <3>1, <3>2 DEF ToSet
    <3> QED
      BY <2>3, <3>3
  <2>7. Alternate(peer_id_to_obj_map, msgs \o new, now)
    <3>1. \A k \in 1..Len(new) : new[k].type = "unmap"
      BY <2>3
    <3> HIDE DEF M
    <3> QED
      BY <1>1, <1>3, <2>3, <2>6, <3>1, AlternateDelete
  <2> QED
    BY <1>1, <1>4, <2>3, <2>4, <2>5, <2>7 DEF IdInv
<1> QED
  BY <1>5, <1>6 DEF TargetStep

LEMMA NextIds ==
  ASSUME PeerInv, IdInv, CreateFresh, [Next]_vars
  PROVE  IdInv'
<1>1. CASE TargetStep \/ TaskletStep
  BY <1>1, TargetIds, TaskletIds
<1>2. CASE ~(TargetStep \/ TaskletStep)
  <2>1. UNCHANGED <<peer_id_to_obj_map, msgs, targetIds>> /\ pc'[Tasklet] = pc[Tasklet]
    <3>1. {MC} \cup Peekers \subseteq {MC} \cup Users
      BY PeerAssumption
    <3> QED
      BY <1>2, <3>1, OthersKeepIds DEF Next
  <2> QED
    BY <2>1 DEF IdInv
<1> QED
  BY <1>1, <1>2

(* The hypothesis of CountsExact, from the commands: as long as WMA's      *)
(* create commands find no peer of their address in the target, which a    *)
(* lost delete command or a second attach of the address can spoil, no     *)
(* PEER_MAP is for an ID that ol_txrx_peer_find_add_id finds taken.        *)
THEOREM UnmappedFirst == Spec /\ []CreateFresh => []IdFree
<1>1. Init => IdInv
  <2> SUFFICES ASSUME Init PROVE IdInv
    OBVIOUS
  <2>1. /\ msgs = <<>> /\ Len(msgs) = 0 /\ pc[Tasklet] = "idle"
        /\ \A i \in Ids : peer_id_to_obj_map[i] = NoPeer
    BY ThreadsFinite DEF Init
  <2>2. Alternate(peer_id_to_obj_map, msgs, Used(targetIds))
    BY <2>1 DEF Alternate, Gives
  <2> QED
    BY <2>1, <2>2 DEF IdInv
<1>2. PeerInv /\ IdInv /\ CreateFresh /\ [Next]_vars => IdInv'
  BY NextIds
<1>3. PeerInv /\ IdInv => IdFree
  <2> SUFFICES ASSUME PeerInv, IdInv, pc[Tasklet] = "map", NEW i, i = Head(msgs).id,
                      peer_id_to_obj_map[i] # NoPeer
               PROVE  FALSE
    BY DEF IdFree
  <2>1. /\ msgs # <<>> /\ Head(msgs).type = "map" /\ i \in Ids
        /\ msgs \in Seq([type: {"map", "unmap"}, id: Ids, mac: Macs])
    BY HeadMsg, MsgTypes DEF PeerInv, OtherInv, IdInv
  <2>2. /\ Len(msgs) \in Nat /\ Len(msgs) >= 1 /\ msgs[1] = Head(msgs)
        /\ 0 \in 0..Len(msgs) /\ 1 \in 1..(Len(msgs) + 1) /\ 1 # Len(msgs) + 1
    BY <2>1
  <2>3. Gives(peer_id_to_obj_map, msgs, 0, i) /\ MayGive(peer_id_to_obj_map, msgs, Used(targetIds), 1, i)
    BY <2>1, <2>2 DEF Gives, MayGive
  <2>4. TakenBetween(msgs, 0, 1, i)
    BY <2>1, <2>2, <2>3 DEF IdInv, Alternate
  <2> QED
    BY <2>4 DEF TakenBetween
<1> QED
  BY <1>1, <1>2, <1>3, Invariance, PTL DEF Spec
=============================================================================
