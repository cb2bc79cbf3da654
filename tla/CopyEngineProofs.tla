-------------------------- MODULE CopyEngineProofs --------------------------
(***************************************************************************)
(* The copy engine, proved for rings of every length, sendlists of every   *)
(* length, and every threshold.                                            *)
(*                                                                         *)
(* That a ring is a queue rests on the order of its indices.  Going round  *)
(* from sw_index, one meets the target's read index no later than          *)
(* write_index (SrcInv, DestInv); without this, the distance modulo the    *)
(* length that CE_RING_DELTA computes would not be a number of             *)
(* descriptors.  The cached hw_index lies before the register, so that     *)
(* trusting it takes only finished sends, and lengths are found only in    *)
(* finished descriptors, so that a length tells a finished receive.        *)
(* ServiceInv says what the tasklet's position tells of its variables.     *)
(***************************************************************************)
EXTENDS CopyEngine, SequenceTheorems, TLAPS

-----------------------------------------------------------------------------
(* Ring arithmetic *)

LEMMA DeltaIs ==
  ASSUME NEW n \in Nat \ {0}, NEW a \in 0..(n - 1), NEW b \in 0..(n - 1)
  PROVE  /\ CE_RING_DELTA(n, a, b) = IF a <= b THEN b - a ELSE (b - a) + n
         /\ CE_RING_DELTA(n, a, b) \in 0..(n - 1)
<1>1. CASE a <= b
  <2>1. b - a \in 0..(n - 1)
    BY <1>1
  <2> QED
    BY <1>1, <2>1 DEF CE_RING_DELTA
<1>2. CASE ~(a <= b)
  <2>1. b - a \in (-n)..(-1)
    BY <1>2
  <2>2. (b - a) % n = (b - a) + n
    BY <2>1
  <2> QED
    BY <1>2, <2>1, <2>2 DEF CE_RING_DELTA
<1> QED
  BY <1>1, <1>2

LEMMA DeltaNat ==
  ASSUME NEW n \in Nat \ {0}, NEW a \in 0..(n - 1), NEW b \in 0..(n - 1)
  PROVE  /\ CE_RING_DELTA(n, a, b) \in Nat
         /\ a = b => CE_RING_DELTA(n, a, b) = 0
         /\ a # b => CE_RING_DELTA(n, a, b) # 0
<1>1. PICK d \in 0..(n - 1) : d = CE_RING_DELTA(n, a, b)
  BY DeltaIs
<1>2. d = IF a <= b THEN b - a ELSE (b - a) + n
  BY <1>1, DeltaIs
<1> QED
  BY <1>1, <1>2

LEMMA WrapIs ==
  ASSUME NEW n \in Nat \ {0}, NEW a \in 0..(n - 1), NEW k \in 0..(n - 1)
  PROVE  /\ (a + k) % n = IF a + k < n THEN a + k ELSE (a + k) - n
         /\ (a + k) % n \in 0..(n - 1)
<1>1. CASE a + k < n
  <2>1. a + k \in 0..(n - 1)
    BY <1>1
  <2> QED
    BY <1>1, <2>1
<1>2. CASE ~(a + k < n)
  <2>1. a + k \in n..(2 * n - 1)
    BY <1>2
  <2>2. (a + k) % n = (a + k) - n
    BY <2>1
  <2> QED
    BY <1>2, <2>1, <2>2
<1> QED
  BY <1>1, <1>2

(* The free entries: one entry stays empty. *)
LEMMA RoomIs ==
  ASSUME NEW n \in Nat \ {0}, NEW w \in 0..(n - 1), NEW sw \in 0..(n - 1)
  PROVE  /\ CE_RING_DELTA(n, w, sw - 1) = (n - 1) - CE_RING_DELTA(n, sw, w)
         /\ CE_RING_DELTA(n, w, sw - 1) \in 0..(n - 1)
<1>1. CASE sw - 1 >= w
  <2>1. (sw - 1) - w \in 0..(n - 1)
    BY <1>1
  <2>2. ((sw - 1) - w) % n = (sw - 1) - w
    BY <2>1
  <2>3. CE_RING_DELTA(n, sw, w) = (w - sw) + n
    BY <1>1, DeltaIs
  <2> QED
    BY <2>1, <2>2, <2>3 DEF CE_RING_DELTA
<1>2. CASE ~(sw - 1 >= w)
  <2>1. (sw - 1) - w \in (-n)..(-1)
    BY <1>2
  <2>2. ((sw - 1) - w) % n = ((sw - 1) - w) + n
    BY <2>1
  <2>3. CE_RING_DELTA(n, sw, w) = w - sw
    BY <1>2, DeltaIs
  <2> QED
    BY <2>1, <2>2, <2>3 DEF CE_RING_DELTA
<1> QED
  BY <1>1, <1>2

(* The indices of the outstanding entries, counted from the oldest. *)
LEMMA DeltaInverse ==
  ASSUME NEW n \in Nat \ {0}, NEW a \in 0..(n - 1), NEW k \in 0..(n - 1)
  PROVE  CE_RING_DELTA(n, a, (a + k) % n) = k
<1>1. PICK b : b = (a + k) % n
  OBVIOUS
<1>2. b = (IF a + k < n THEN a + k ELSE (a + k) - n) /\ b \in 0..(n - 1)
  BY <1>1, WrapIs
<1>3. CE_RING_DELTA(n, a, b) = IF a <= b THEN b - a ELSE (b - a) + n
  BY <1>2, DeltaIs
<1>4. CE_RING_DELTA(n, a, b) = k
  BY <1>2, <1>3
<1> QED
  BY <1>1, <1>4

-----------------------------------------------------------------------------
(* One ring *)

Ring(r, V) ==
    /\ r.nentries \in Nat \ {0}
    /\ r.sw_index \in Indices(r) /\ r.write_index \in Indices(r)
    /\ r.ctx \in [Indices(r) -> V]

LEMMA CountsAre ==
  ASSUME NEW V, NEW r, Ring(r, V), NEW read \in Indices(r)
  PROVE  /\ Outstanding(r) \in 0..(r.nentries - 1) /\ Unread(r, read) \in 0..(r.nentries - 1)
         /\ Flying(r, read) \in 0..Outstanding(r) /\ Finished(r, read) \in 0..Outstanding(r)
         /\ Flying(r, read) + Finished(r, read) = Outstanding(r)
         /\ Finished(r, read) = (IF Unread(r, read) < Outstanding(r)
                                 THEN Outstanding(r) - Unread(r, read) ELSE 0)
         /\ Outstanding(r) = IF r.sw_index <= r.write_index THEN r.write_index - r.sw_index
                             ELSE (r.write_index - r.sw_index) + r.nentries
         /\ Unread(r, read) = IF read <= r.write_index THEN r.write_index - read
                              ELSE (r.write_index - read) + r.nentries
<1> DEFINE n == r.nentries  o == Outstanding(r)  u == Unread(r, read)
<1>1. n \in Nat \ {0} /\ r.sw_index \in 0..(n - 1) /\ r.write_index \in 0..(n - 1) /\ read \in 0..(n - 1)
  BY DEF Ring, Indices
<1>2. /\ o \in 0..(n - 1)
      /\ o = IF r.sw_index <= r.write_index THEN r.write_index - r.sw_index
             ELSE (r.write_index - r.sw_index) + n
  BY <1>1, DeltaIs DEF Outstanding
<1>3. /\ u \in 0..(n - 1)
      /\ u = IF read <= r.write_index THEN r.write_index - read
             ELSE (r.write_index - read) + n
  BY <1>1, DeltaIs DEF Unread
<1>4. Flying(r, read) = (IF u < o THEN u ELSE o) /\ Finished(r, read) = o - Flying(r, read)
  BY DEF Flying, Finished
<1> HIDE DEF n, o, u
<1>5. /\ Flying(r, read) \in 0..o /\ Finished(r, read) \in 0..o
      /\ Flying(r, read) + Finished(r, read) = o
      /\ Finished(r, read) = IF u < o THEN o - u ELSE 0
  BY <1>1, <1>2, <1>3, <1>4
<1> QED
  BY <1>2, <1>3, <1>5 DEF n, o, u

(* While the target works: what it is done with lies between sw_index and  *)
(* its read index.                                                         *)
LEMMA DoneIsDelta ==
  ASSUME NEW V, NEW r, Ring(r, V), NEW read \in Indices(r), Unread(r, read) <= Outstanding(r)
  PROVE  Finished(r, read) = CE_RING_DELTA(r.nentries, r.sw_index, read)
<1> DEFINE n == r.nentries  o == Outstanding(r)  u == Unread(r, read)
<1>1. n \in Nat \ {0} /\ r.sw_index \in 0..(n - 1) /\ r.write_index \in 0..(n - 1) /\ read \in 0..(n - 1)
  BY DEF Ring, Indices
<1>2. CE_RING_DELTA(n, r.sw_index, read)
          = IF r.sw_index <= read THEN read - r.sw_index ELSE (read - r.sw_index) + n
  BY <1>1, DeltaIs
<1>3. /\ Finished(r, read) = (IF u < o THEN o - u ELSE 0)
      /\ o = (IF r.sw_index <= r.write_index THEN r.write_index - r.sw_index
              ELSE (r.write_index - r.sw_index) + n)
      /\ u = IF read <= r.write_index THEN r.write_index - read
             ELSE (r.write_index - read) + n
  BY CountsAre
<1>4. u <= o
  OBVIOUS
<1> HIDE DEF n, o, u
<1>5. Finished(r, read) = CE_RING_DELTA(n, r.sw_index, read)
  BY <1>1, <1>2, <1>3, <1>4
<1> QED
  BY <1>5 DEF n

LEMMA EntriesAre ==
  ASSUME NEW V, NEW r, Ring(r, V), NEW read \in Indices(r)
  PROVE  /\ \A k \in 1..r.nentries : Entry(r, k) \in V
         /\ Done(r, read) \in Seq(V) /\ Len(Done(r, read)) = Finished(r, read)
         /\ Fly(r, read) \in Seq(V) /\ Len(Fly(r, read)) = Flying(r, read)
         /\ \A k \in 1..Finished(r, read) : Done(r, read)[k] = Entry(r, k)
         /\ \A k \in 1..Flying(r, read) : Fly(r, read)[k] = Entry(r, Finished(r, read) + k)
<1> DEFINE n == r.nentries  d == Finished(r, read)  f == Flying(r, read)
<1>1. n \in Nat \ {0} /\ r.sw_index \in 0..(n - 1) /\ r.ctx \in [0..(n - 1) -> V]
  BY DEF Ring, Indices
<1>2. ASSUME NEW k \in 1..n PROVE Entry(r, k) \in V
  <2>1. k - 1 \in 0..(n - 1)
    BY <1>1
  <2>2. (r.sw_index + (k - 1)) % n \in 0..(n - 1)
    BY <1>1, <2>1, WrapIs
  <2>3. (r.sw_index + k) - 1 = r.sw_index + (k - 1)
    BY <1>1
  <2> QED
    BY <1>1, <2>2, <2>3 DEF Entry
<1>3. d \in Nat /\ f \in Nat /\ d + f <= n
  BY <1>1, CountsAre
<1>4. Done(r, read) = [k \in 1..d |-> Entry(r, k)] /\ Fly(r, read) = [k \in 1..f |-> Entry(r, d + k)]
  BY DEF Done, Fly
<1> HIDE DEF n, d, f
<1>5. \A k \in 1..d : k \in 1..n
  BY <1>1, <1>3
<1>6. \A k \in 1..f : d + k \in 1..n
  BY <1>1, <1>3
<1>7. Done(r, read) \in [1..d -> V] /\ Fly(r, read) \in [1..f -> V]
  BY <1>2, <1>4, <1>5, <1>6
<1>8. /\ Done(r, read) \in Seq(V) /\ Len(Done(r, read)) = d
      /\ Fly(r, read) \in Seq(V) /\ Len(Fly(r, read)) = f
  BY <1>3, <1>7
<1>9. /\ \A k \in 1..d : Done(r, read)[k] = Entry(r, k)
      /\ \A k \in 1..f : Fly(r, read)[k] = Entry(r, d + k)
  BY <1>4
<1> QED
  BY <1>2, <1>8, <1>9 DEF n, d, f

LEMMA SameSeq ==
  ASSUME NEW V, NEW s \in Seq(V), NEW t \in Seq(V), Len(s) = Len(t),
         \A k \in 1..Len(s) : s[k] = t[k]
  PROVE  s = t
BY SeqEqual

LEMMA TailIs ==
  ASSUME NEW V, NEW s \in Seq(V), Len(s) # 0
  PROVE  /\ s # <<>> /\ Tail(s) \in Seq(V) /\ Len(Tail(s)) = Len(s) - 1
         /\ Head(s) = s[1] /\ \A k \in 1..(Len(s) - 1) : Tail(s)[k] = s[k + 1]
OBVIOUS

LEMMA DeltaShrinks ==
  ASSUME NEW n \in Nat \ {0}, NEW a \in 0..(n - 1), NEW b \in 0..(n - 1), a # b
  PROVE  /\ CE_RING_IDX_INCR(n, a) \in 0..(n - 1)
         /\ CE_RING_DELTA(n, CE_RING_IDX_INCR(n, a), b) = CE_RING_DELTA(n, a, b) - 1
         /\ CE_RING_DELTA(n, a, b) # 0
<1>1. 1 \in 0..(n - 1)
  OBVIOUS
<1>2. PICK a2 \in 0..(n - 1) : a2 = CE_RING_IDX_INCR(n, a)
  BY <1>1, WrapIs DEF CE_RING_IDX_INCR
<1>3. a2 = IF a + 1 < n THEN a + 1 ELSE (a + 1) - n
  BY <1>1, <1>2, WrapIs DEF CE_RING_IDX_INCR
<1>4. /\ CE_RING_DELTA(n, a, b) = (IF a <= b THEN b - a ELSE (b - a) + n)
      /\ CE_RING_DELTA(n, a2, b) = (IF a2 <= b THEN b - a2 ELSE (b - a2) + n)
  BY DeltaIs
<1> QED
  BY <1>2, <1>3, <1>4

(* Entry k after the oldest was taken is entry k + 1 before. *)
LEMMA NextEntry ==
  ASSUME NEW n \in Nat \ {0}, NEW a \in 0..(n - 1), NEW k \in 1..(n - 1), NEW r, NEW r2,
         r.nentries = n, r.sw_index = a, r2.nentries = n, r2.sw_index = CE_RING_IDX_INCR(n, a),
         \A i \in 0..(n - 1) : i # a => r2.ctx[i] = r.ctx[i]
  PROVE  Entry(r2, k) = Entry(r, k + 1)
<1>1. 1 \in 0..(n - 1) /\ k \in 0..(n - 1) /\ k - 1 \in 0..(n - 1)
  OBVIOUS
<1>2. PICK b \in 0..(n - 1) : b = CE_RING_IDX_INCR(n, a)
  BY <1>1, WrapIs DEF CE_RING_IDX_INCR
<1>3. b = IF a + 1 < n THEN a + 1 ELSE (a + 1) - n
  BY <1>1, <1>2, WrapIs DEF CE_RING_IDX_INCR
<1>4. PICK x \in 0..(n - 1) : x = (a + k) % n
  BY <1>1, WrapIs
<1>5. x = IF a + k < n THEN a + k ELSE (a + k) - n
  BY <1>1, <1>4, WrapIs
<1>6. PICK y \in 0..(n - 1) : y = (b + (k - 1)) % n
  BY <1>1, WrapIs
<1>7. y = IF b + (k - 1) < n THEN b + (k - 1) ELSE (b + (k - 1)) - n
  BY <1>1, <1>6, WrapIs
<1>8. x = y /\ x # a
  BY <1>3, <1>5, <1>7
<1>9. (b + k) - 1 = b + (k - 1) /\ (a + (k + 1)) - 1 = a + k
  OBVIOUS
<1>10. Entry(r2, k) = r2.ctx[x]
  BY <1>2, <1>6, <1>8, <1>9 DEF Entry
<1>11. Entry(r, k + 1) = r.ctx[x]
  BY <1>4, <1>9 DEF Entry
<1> QED
  BY <1>8, <1>10, <1>11

(* The oldest transfer is taken from the ring. *)
LEMMA TakenFromRing ==
  ASSUME NEW V, NEW r, NEW r2, Ring(r, V), Ring(r2, V), NEW read \in Indices(r),
         Outstanding(r) # 0,
         r2.nentries = r.nentries, r2.write_index = r.write_index,
         r2.sw_index = CE_RING_IDX_INCR(r.nentries, r.sw_index),
         \A i \in Indices(r) : i # r.sw_index => r2.ctx[i] = r.ctx[i]
  PROVE  /\ Outstanding(r2) = Outstanding(r) - 1 /\ Unread(r2, read) = Unread(r, read)
         /\ Finished(r, read) # 0 =>
                /\ Finished(r2, read) = Finished(r, read) - 1
                /\ Unread(r2, read) <= Outstanding(r2)
                /\ Done(r, read) # <<>> /\ Done(r2, read) = Tail(Done(r, read))
                /\ Fly(r2, read) = Fly(r, read)
         /\ Finished(r, read) = 0 =>
                /\ Done(r, read) = <<>> /\ Done(r2, read) = Done(r, read)
                /\ Fly(r, read) # <<>> /\ Fly(r2, read) = Tail(Fly(r, read))
<1> DEFINE n == r.nentries  sw == r.sw_index  w == r.write_index
           o == Outstanding(r)  u == Unread(r, read)
           d == Finished(r, read)  f == Flying(r, read)
           d2 == Finished(r2, read)  f2 == Flying(r2, read)
<1>1. /\ n \in Nat \ {0} /\ sw \in 0..(n - 1) /\ w \in 0..(n - 1) /\ read \in 0..(n - 1)
      /\ Indices(r) = 0..(n - 1) /\ read \in Indices(r2)
  BY DEF Ring, Indices
<1>2. /\ o \in 0..(n - 1) /\ u \in 0..(n - 1) /\ o # 0
      /\ d = (IF u < o THEN o - u ELSE 0) /\ f + d = o /\ d \in 0..o /\ f \in 0..o
      /\ o = (IF sw <= w THEN w - sw ELSE (w - sw) + n)
  BY CountsAre
<1>5. /\ Unread(r2, read) = u
      /\ d2 = (IF u < Outstanding(r2) THEN Outstanding(r2) - u ELSE 0)
      /\ d2 + f2 = Outstanding(r2) /\ d2 \in Nat /\ f2 \in Nat
      /\ Outstanding(r2) = (IF r2.sw_index <= w THEN w - r2.sw_index ELSE (w - r2.sw_index) + n)
  BY <1>1, CountsAre DEF Unread
<1>6. ASSUME NEW k \in 1..(o - 1) PROVE Entry(r2, k) = Entry(r, k + 1)
  <2>1. PICK N \in Nat \ {0} : N = n
    BY <1>1
  <2>2. PICK a \in 0..(N - 1) : a = sw
    BY <1>1, <2>1
  <2>3. PICK p \in 0..(N - 1) : p = o
    BY <1>2, <2>1
  <2>4. k \in 1..(p - 1)
    BY <2>3
  <2>5. k \in 1..(N - 1)
    BY <2>4
  <2> QED
    <3>1. /\ r.nentries = N /\ r.sw_index = a /\ r2.nentries = N
          /\ r2.sw_index = CE_RING_IDX_INCR(N, a)
      BY <2>1, <2>2
    <3>2. \A i \in 0..(N - 1) : i # a => r2.ctx[i] = r.ctx[i]
      BY <1>1, <2>1, <2>2
    <3> HIDE DEF n, sw, w, o, u, d, f, d2, f2
    <3> QED
      BY <2>5, <3>1, <3>2, NextEntry
<1>7. /\ Done(r, read) \in Seq(V) /\ Len(Done(r, read)) = d
      /\ Fly(r, read) \in Seq(V) /\ Len(Fly(r, read)) = f
      /\ \A k \in 1..d : Done(r, read)[k] = Entry(r, k)
      /\ \A k \in 1..f : Fly(r, read)[k] = Entry(r, d + k)
  BY EntriesAre
<1>8. /\ Done(r2, read) \in Seq(V) /\ Len(Done(r2, read)) = d2
      /\ Fly(r2, read) \in Seq(V) /\ Len(Fly(r2, read)) = f2
      /\ \A k \in 1..d2 : Done(r2, read)[k] = Entry(r2, k)
      /\ \A k \in 1..f2 : Fly(r2, read)[k] = Entry(r2, d2 + k)
  <2>1. Ring(r2, V) /\ read \in Indices(r2)
    BY <1>1
  <2>2. /\ Done(r2, read) \in Seq(V) /\ Len(Done(r2, read)) = Finished(r2, read)
        /\ Fly(r2, read) \in Seq(V) /\ Len(Fly(r2, read)) = Flying(r2, read)
        /\ \A k \in 1..Finished(r2, read) : Done(r2, read)[k] = Entry(r2, k)
        /\ \A k \in 1..Flying(r2, read) : Fly(r2, read)[k] = Entry(r2, Finished(r2, read) + k)
    <3> HIDE DEF n, sw, w, o, u, d, f, d2, f2
    <3> QED
      BY <2>1, EntriesAre
  <2> QED
    BY <2>2
<1>9. Outstanding(r2) = o - 1
  <2>1. sw # w
    BY <1>1, <1>2, DeltaNat DEF Outstanding
  <2> QED
    BY <1>1, <2>1, DeltaShrinks DEF Outstanding
<1> HIDE DEF n, sw, w, o, u, d, f, d2, f2
<1>10. CASE d # 0
  <2>1. d2 = d - 1 /\ f2 = f
    BY <1>2, <1>5, <1>9, <1>10
  <2>7. Unread(r2, read) <= Outstanding(r2)
    BY <1>2, <1>5, <1>9, <1>10
  <2>2. Done(r, read) # <<>> /\ Tail(Done(r, read)) \in Seq(V) /\ Len(Tail(Done(r, read))) = d - 1
        /\ \A k \in 1..(d - 1) : Tail(Done(r, read))[k] = Done(r, read)[k + 1]
    BY <1>7, <1>10, TailIs
  <2>3. ASSUME NEW k \in 1..(d - 1) PROVE Done(r2, read)[k] = Tail(Done(r, read))[k]
    <3>1. k \in 1..d2 /\ k + 1 \in 1..d /\ k \in 1..(o - 1)
      BY <1>2, <2>1
    <3> QED
      BY <1>6, <1>7, <1>8, <2>2, <3>1
  <2>4. Done(r2, read) = Tail(Done(r, read))
    BY <1>8, <2>1, <2>2, <2>3, SameSeq
  <2>5. ASSUME NEW k \in 1..f PROVE Fly(r2, read)[k] = Fly(r, read)[k]
    <3>1. k \in 1..f2 /\ d2 + k \in 1..(o - 1) /\ (d2 + k) + 1 = d + k
      BY <1>2, <1>10, <2>1
    <3> QED
      BY <1>6, <1>7, <1>8, <3>1
  <2>6. Fly(r2, read) = Fly(r, read)
    BY <1>7, <1>8, <2>1, <2>5, SameSeq
  <2> QED
    BY <1>5, <1>9, <1>10, <2>1, <2>2, <2>4, <2>6, <2>7 DEF o, u, d, d2
<1>11. CASE d = 0
  <2>1. d2 = 0 /\ f2 = f - 1 /\ f = o
    BY <1>2, <1>5, <1>9, <1>11
  <2>2. Done(r, read) = <<>> /\ Done(r2, read) = <<>>
    BY <1>7, <1>8, <1>11, <2>1
  <2>3. Fly(r, read) # <<>> /\ Tail(Fly(r, read)) \in Seq(V) /\ Len(Tail(Fly(r, read))) = f - 1
        /\ \A k \in 1..(f - 1) : Tail(Fly(r, read))[k] = Fly(r, read)[k + 1]
    BY <1>2, <1>7, <2>1, TailIs
  <2>4. ASSUME NEW k \in 1..(f - 1) PROVE Fly(r2, read)[k] = Tail(Fly(r, read))[k]
    <3>1. k \in 1..f2 /\ k + 1 \in 1..f /\ k \in 1..(o - 1) /\ d2 + k = k /\ d + (k + 1) = k + 1
      BY <1>2, <1>11, <2>1
    <3> QED
      BY <1>6, <1>7, <1>8, <2>3, <3>1
  <2>5. Fly(r2, read) = Tail(Fly(r, read))
    BY <1>8, <2>1, <2>3, <2>4, SameSeq
  <2> QED
    BY <1>5, <1>9, <1>11, <2>2, <2>3, <2>5 DEF o, u, d
<1> QED
  BY <1>10, <1>11

(* The distance grows with the index. *)
LEMMA DeltaMove ==
  ASSUME NEW n \in Nat \ {0}, NEW a \in 0..(n - 1), NEW w \in 0..(n - 1), NEW m \in 0..(n - 1),
         CE_RING_DELTA(n, a, w) + m <= n - 1
  PROVE  CE_RING_DELTA(n, a, (w + m) % n) = CE_RING_DELTA(n, a, w) + m
<1>1. PICK w2 \in 0..(n - 1) : w2 = (w + m) % n
  BY WrapIs
<1>2. w2 = IF w + m < n THEN w + m ELSE (w + m) - n
  BY <1>1, WrapIs
<1>3. PICK c \in 0..(n - 1) : c = CE_RING_DELTA(n, a, w)
  BY DeltaIs
<1>4. c = IF a <= w THEN w - a ELSE (w - a) + n
  BY <1>3, DeltaIs
<1>5. CE_RING_DELTA(n, a, w2) = IF a <= w2 THEN w2 - a ELSE (w2 - a) + n
  BY DeltaIs
<1>6. c + m <= n - 1
  BY <1>3
<1>7. CE_RING_DELTA(n, a, w2) = c + m
  BY <1>2, <1>4, <1>5, <1>6
<1> QED
  BY <1>1, <1>3, <1>7

(* The target is done with one more transfer. *)
LEMMA FinishedByTarget ==
  ASSUME NEW V, NEW r, Ring(r, V), NEW read \in Indices(r),
         Unread(r, read) <= Outstanding(r), read # r.write_index,
         NEW read2, read2 = CE_RING_IDX_INCR(r.nentries, read)
  PROVE  /\ read2 \in Indices(r) /\ Unread(r, read2) <= Outstanding(r)
         /\ Finished(r, read2) = Finished(r, read) + 1
         /\ Fly(r, read) # <<>> /\ Fly(r, read2) = Tail(Fly(r, read))
         /\ Done(r, read2) = Append(Done(r, read), Head(Fly(r, read)))
         /\ Finished(r, read) + 1 <= r.nentries
         /\ Head(Fly(r, read)) = r.ctx[read]
<1> DEFINE n == r.nentries  sw == r.sw_index  w == r.write_index
           o == Outstanding(r)  u == Unread(r, read)  u2 == Unread(r, read2)
           d == Finished(r, read)  f == Flying(r, read)
           d2 == Finished(r, read2)  f2 == Flying(r, read2)
<1>1. /\ n \in Nat \ {0} /\ sw \in 0..(n - 1) /\ w \in 0..(n - 1) /\ read \in 0..(n - 1)
      /\ Indices(r) = 0..(n - 1)
  BY DEF Ring, Indices
<1>2. /\ o \in 0..(n - 1) /\ u \in 0..(n - 1) /\ u <= o
      /\ d = (IF u < o THEN o - u ELSE 0) /\ f + d = o /\ d \in 0..o /\ f \in 0..o
      /\ u = (IF read <= w THEN w - read ELSE (w - read) + n)
      /\ o = (IF sw <= w THEN w - sw ELSE (w - sw) + n)
  BY CountsAre
<1>3. n # 1 /\ 1 \in 0..(n - 1)
  BY <1>1
<1>4. read2 = (IF read + 1 < n THEN read + 1 ELSE (read + 1) - n) /\ read2 \in 0..(n - 1)
  BY <1>1, <1>3, WrapIs DEF CE_RING_IDX_INCR
<1>5. /\ u2 \in 0..(n - 1)
      /\ d2 = (IF u2 < o THEN o - u2 ELSE 0) /\ f2 + d2 = o /\ d2 \in 0..o /\ f2 \in 0..o
      /\ u2 = (IF read2 <= w THEN w - read2 ELSE (w - read2) + n)
  BY <1>1, <1>4, CountsAre
<1>6. /\ Done(r, read) \in Seq(V) /\ Len(Done(r, read)) = d
      /\ Fly(r, read) \in Seq(V) /\ Len(Fly(r, read)) = f
      /\ \A k \in 1..d : Done(r, read)[k] = Entry(r, k)
      /\ \A k \in 1..f : Fly(r, read)[k] = Entry(r, d + k)
  BY EntriesAre
<1>7. /\ Done(r, read2) \in Seq(V) /\ Len(Done(r, read2)) = d2
      /\ Fly(r, read2) \in Seq(V) /\ Len(Fly(r, read2)) = f2
      /\ \A k \in 1..d2 : Done(r, read2)[k] = Entry(r, k)
      /\ \A k \in 1..f2 : Fly(r, read2)[k] = Entry(r, d2 + k)
  <2>1. Ring(r, V) /\ read2 \in Indices(r)
    BY <1>1, <1>4
  <2>2. /\ Done(r, read2) \in Seq(V) /\ Len(Done(r, read2)) = Finished(r, read2)
        /\ Fly(r, read2) \in Seq(V) /\ Len(Fly(r, read2)) = Flying(r, read2)
        /\ \A k \in 1..Finished(r, read2) : Done(r, read2)[k] = Entry(r, k)
        /\ \A k \in 1..Flying(r, read2) : Fly(r, read2)[k] = Entry(r, Finished(r, read2) + k)
    <3> HIDE DEF n, sw, w, o, u, d, f, u2, d2, f2
    <3> QED
      BY <2>1, EntriesAre
  <2> QED
    BY <2>2
<1>8. d = CE_RING_DELTA(n, sw, read)
  BY DoneIsDelta
<1>10. Len(Done(r, read)) = d /\ Len(Fly(r, read)) = f /\ u = Unread(r, read) /\ w = r.write_index
  BY <1>6
<1> HIDE DEF n, sw, w, o, u, d, f, u2, d2, f2
<1>11. Entry(r, d + 1) = r.ctx[read]
  <2>1. d = IF sw <= read THEN read - sw ELSE (read - sw) + n
    BY <1>1, <1>8, DeltaIs
  <2>2. d \in 0..(n - 1)
    BY <1>1, <1>2
  <2>3. (sw + d) % n = IF sw + d < n THEN sw + d ELSE (sw + d) - n
    BY <1>1, <2>2, WrapIs
  <2>4. (sw + d) % n = read
    BY <1>1, <2>1, <2>2, <2>3
  <2>5. (sw + (d + 1)) - 1 = sw + d
    BY <1>1, <2>2
  <2> QED
    BY <1>1, <2>2, <2>4, <2>5 DEF Entry, n, sw
<1>12. d2 = d + 1 /\ f2 = f - 1 /\ f # 0 /\ d + 1 <= n /\ u2 <= o
  <2>1. u # 0
    <3>1. /\ u = (IF read <= w THEN w - read ELSE (w - read) + n) /\ read # w
          /\ read \in Nat /\ w \in Nat /\ n \in Nat /\ read < n
      BY <1>1, <1>2, <1>10
    <3> QED
      BY <3>1
  <2>2. u2 = u - 1
    BY <1>1, <1>2, <1>4, <1>5, <2>1
  <2>3. /\ u \in Nat /\ u2 \in Nat /\ d \in Nat /\ f \in Nat /\ d2 \in Nat /\ f2 \in Nat /\ o \in Nat
        /\ n \in Nat /\ o <= n - 1
    BY <1>1, <1>2, <1>5
  <2> QED
    <3>1. PICK N \in Nat, O \in Nat, U \in Nat, U2 \in Nat : N = n /\ O = o /\ U = u /\ U2 = u2
      BY <2>3
    <3>2. PICK D \in Nat, D2 \in Nat, F \in Nat, F2 \in Nat : D = d /\ D2 = d2 /\ F = f /\ F2 = f2
      BY <2>3
    <3>3. /\ U <= O /\ U # 0 /\ D = (IF U < O THEN O - U ELSE 0) /\ F + D = O
          /\ D2 = (IF U2 < O THEN O - U2 ELSE 0) /\ F2 + D2 = O
      BY <1>2, <1>5, <2>1, <3>1, <3>2
    <3>4. U2 = U - 1 /\ O <= N - 1
      BY <2>2, <2>3, <3>1
    <3>5. D2 = D + 1 /\ F2 = F - 1 /\ F # 0 /\ D + 1 <= N /\ U2 <= O
      BY <3>3, <3>4
    <3> QED
      BY <3>1, <3>2, <3>5
<1>13. /\ Fly(r, read) # <<>> /\ Tail(Fly(r, read)) \in Seq(V) /\ Len(Tail(Fly(r, read))) = f - 1
       /\ Head(Fly(r, read)) = Fly(r, read)[1]
       /\ \A k \in 1..(f - 1) : Tail(Fly(r, read))[k] = Fly(r, read)[k + 1]
  BY <1>6, <1>12, TailIs
<1>14. ASSUME NEW k \in 1..(f - 1) PROVE Fly(r, read2)[k] = Tail(Fly(r, read))[k]
  <2>1. k \in 1..f2 /\ k + 1 \in 1..f /\ d2 + k = d + (k + 1)
    BY <1>2, <1>12
  <2> QED
    BY <1>6, <1>7, <1>13, <2>1
<1>15. Fly(r, read2) = Tail(Fly(r, read))
  BY <1>7, <1>12, <1>13, <1>14, SameSeq
<1>16. PICK h : h = Head(Fly(r, read))
  OBVIOUS
<1>17. 1 \in 1..f
  BY <1>2, <1>12
<1>18. h = Entry(r, d + 1) /\ h \in V
  BY <1>6, <1>13, <1>16, <1>17
<1>19. PICK s : s = Append(Done(r, read), h)
  OBVIOUS
<1>20. /\ s \in Seq(V) /\ Len(s) = d + 1 /\ s[d + 1] = h
       /\ \A k \in 1..d : s[k] = Done(r, read)[k]
  BY <1>6, <1>18, <1>19
<1>21. ASSUME NEW k \in 1..(d + 1) PROVE Done(r, read2)[k] = s[k]
  <2>1. k \in 1..d2 /\ (k \in 1..d \/ k = d + 1)
    BY <1>2, <1>12
  <2> QED
    BY <1>6, <1>7, <1>18, <1>20, <2>1
<1>22. Done(r, read2) = s
  BY <1>7, <1>12, <1>20, <1>21, SameSeq
<1> QED
  <2>1. read2 \in Indices(r) /\ Unread(r, read2) <= Outstanding(r)
    BY <1>1, <1>4, <1>12 DEF o, u2
  <2>2. Finished(r, read2) = Finished(r, read) + 1 /\ Finished(r, read) + 1 <= r.nentries
    BY <1>12 DEF d, d2, n
  <2> QED
    BY <1>11, <1>13, <1>15, <1>16, <1>18, <1>19, <1>22, <2>1, <2>2

Posted(r, r2, s) ==
    /\ CE_RING_DELTA(r.nentries, r.write_index, r.sw_index - 1) >= Len(s)
    /\ r2.nentries = r.nentries /\ r2.sw_index = r.sw_index
    /\ r2.write_index = (r.write_index + Len(s)) % r.nentries
    /\ \A i \in Indices(r) :
           r2.ctx[i] = IF CE_RING_DELTA(r.nentries, r.write_index, i) < Len(s)
                       THEN s[CE_RING_DELTA(r.nentries, r.write_index, i) + 1] ELSE r.ctx[i]

(* The transfers of s are posted behind the others. *)
LEMMA PostedToRing ==
  ASSUME NEW V, NEW r, NEW r2, Ring(r, V), Ring(r2, V), NEW read \in Indices(r),
         Unread(r, read) <= Outstanding(r),
         NEW s \in Seq(V), Len(s) # 0, Posted(r, r2, s)
  PROVE  /\ Unread(r2, read) <= Outstanding(r2)
         /\ Finished(r2, read) = Finished(r, read)
         /\ Len(Done(r, read)) + Len(Fly(r, read)) + Len(s) <= r.nentries - 1
         /\ Fly(r2, read) = Fly(r, read) \o s
         /\ Done(r2, read) = Done(r, read)
         /\ \A k \in 1..Outstanding(r) : Entry(r2, k) = Entry(r, k)
<1> DEFINE n == r.nentries  sw == r.sw_index  w == r.write_index  m == Len(s)
           o == Outstanding(r)  u == Unread(r, read)  o2 == Outstanding(r2)  u2 == Unread(r2, read)
           d == Finished(r, read)  f == Flying(r, read)
           d2 == Finished(r2, read)  f2 == Flying(r2, read)
<1>1. /\ n \in Nat \ {0} /\ sw \in 0..(n - 1) /\ w \in 0..(n - 1) /\ read \in 0..(n - 1)
      /\ Indices(r) = 0..(n - 1) /\ read \in Indices(r2) /\ m \in Nat \ {0}
      /\ r2.write_index = (w + m) % n /\ r2.nentries = n /\ r2.sw_index = sw
  BY DEF Ring, Indices, Posted
<1>2. /\ o \in 0..(n - 1) /\ u \in 0..(n - 1) /\ u <= o
      /\ d = (IF u < o THEN o - u ELSE 0) /\ f + d = o /\ d \in 0..o /\ f \in 0..o
      /\ u = (IF read <= w THEN w - read ELSE (w - read) + n)
      /\ o = (IF sw <= w THEN w - sw ELSE (w - sw) + n)
  BY CountsAre
<1>3. o + m <= n - 1
  <2>1. o = CE_RING_DELTA(n, sw, w)
    BY DEF Outstanding
  <2>2. CE_RING_DELTA(n, w, sw - 1) = (n - 1) - CE_RING_DELTA(n, sw, w)
    BY <1>1, RoomIs
  <2>3. CE_RING_DELTA(n, w, sw - 1) >= m
    BY DEF Posted
  <2> HIDE DEF n, sw, w, m, o, u, d, f
  <2>4. n \in Nat /\ m \in Nat /\ o \in Nat
    BY <1>1, <1>2
  <2>5. PICK x \in Int : x = CE_RING_DELTA(n, w, sw - 1) /\ x = (n - 1) - o
    BY <2>1, <2>2, <2>4
  <2> QED
    BY <2>3, <2>4, <2>5
<1>4. /\ u2 \in 0..(n - 1) /\ o2 \in 0..(n - 1)
      /\ d2 = (IF u2 < o2 THEN o2 - u2 ELSE 0) /\ f2 + d2 = o2 /\ d2 \in 0..o2 /\ f2 \in 0..o2
      /\ u2 = (IF read <= r2.write_index THEN r2.write_index - read ELSE (r2.write_index - read) + n)
      /\ o2 = (IF sw <= r2.write_index THEN r2.write_index - sw ELSE (r2.write_index - sw) + n)
  BY <1>1, CountsAre
<1>5. /\ Done(r, read) \in Seq(V) /\ Len(Done(r, read)) = d
      /\ Fly(r, read) \in Seq(V) /\ Len(Fly(r, read)) = f
      /\ \A k \in 1..d : Done(r, read)[k] = Entry(r, k)
      /\ \A k \in 1..f : Fly(r, read)[k] = Entry(r, d + k)
  BY EntriesAre
<1>6. /\ Done(r2, read) \in Seq(V) /\ Len(Done(r2, read)) = d2
      /\ Fly(r2, read) \in Seq(V) /\ Len(Fly(r2, read)) = f2
      /\ \A k \in 1..d2 : Done(r2, read)[k] = Entry(r2, k)
      /\ \A k \in 1..f2 : Fly(r2, read)[k] = Entry(r2, d2 + k)
  BY <1>1, EntriesAre
<1>7. ASSUME NEW k \in 1..(n - 1)
      PROVE  /\ k <= o => Entry(r2, k) = Entry(r, k)
             /\ o < k /\ k <= o + m => Entry(r2, k) = s[k - o]
  <2>0. k \in 1..(n - 1)
    BY <1>7
  <2>1. \A i \in 0..(n - 1) : r2.ctx[i] = IF CE_RING_DELTA(n, w, i) < m
                                          THEN s[CE_RING_DELTA(n, w, i) + 1] ELSE r.ctx[i]
    BY <1>1 DEF Posted
  <2>2. PICK b : b = (sw + (k - 1)) % n
    OBVIOUS
  <2>3. Entry(r2, k) = r2.ctx[b] /\ Entry(r, k) = r.ctx[b]
    <3>1. (sw + k) - 1 = sw + (k - 1)
      BY <1>1, <2>0
    <3> QED
      BY <1>1, <2>2, <3>1 DEF Entry
  <2> HIDE DEF n, sw, w, m, o, u
  <2>4. k - 1 \in 0..(n - 1)
    BY <1>1, <2>0
  <2>5. b \in 0..(n - 1) /\ b = IF sw + (k - 1) < n THEN sw + (k - 1) ELSE (sw + (k - 1)) - n
    BY <1>1, <2>2, <2>4, WrapIs
  <2>6. PICK e : e = CE_RING_DELTA(n, w, b)
    OBVIOUS
  <2>7. e = IF w <= b THEN b - w ELSE (b - w) + n
    BY <1>1, <2>5, <2>6, DeltaIs
  <2>8. k <= o => ~(e < m)
    BY <1>1, <1>2, <1>3, <2>0, <2>5, <2>7
  <2>9. o < k /\ k <= o + m => e = (k - 1) - o
    BY <1>1, <1>2, <1>3, <2>0, <2>5, <2>7
  <2>10. o < k /\ k <= o + m => e < m /\ e + 1 = k - o
    <3>1. k \in Int /\ o \in Int /\ m \in Int
      BY <1>1, <1>2, <2>0
    <3> QED
      BY <2>9, <3>1
  <2>11. r2.ctx[b] = IF e < m THEN s[e + 1] ELSE r.ctx[b]
    BY <2>1, <2>5, <2>6
  <2> QED
    BY <2>3, <2>8, <2>10, <2>11
<1> HIDE DEF n, sw, w, m, o, u, o2, u2, d, f, d2, f2
<1>8. m \in 0..(n - 1)
  BY <1>1, <1>2, <1>3
<1>10. o2 = o + m /\ u2 = u + m
  <2>1. u + m <= n - 1
    BY <1>1, <1>2, <1>3
  <2>2. /\ o = CE_RING_DELTA(n, sw, w) /\ o2 = CE_RING_DELTA(n, sw, (w + m) % n)
        /\ u = CE_RING_DELTA(n, read, w) /\ u2 = CE_RING_DELTA(n, read, (w + m) % n)
    BY <1>1 DEF o, o2, u, u2, n, sw, w, Outstanding, Unread
  <2>3. o2 = o + m
    BY <1>1, <1>3, <1>8, <2>2, DeltaMove
  <2>4. u2 = u + m
    BY <1>1, <1>8, <2>1, <2>2, DeltaMove
  <2> QED
    BY <2>3, <2>4
<1>11. d \in Nat /\ f \in Nat /\ d2 \in Nat /\ f2 \in Nat /\ o2 \in Nat /\ u2 \in Nat /\ o \in Nat /\ d <= o
  BY <1>1, <1>2, <1>4
<1>12. d2 = d /\ f2 = f + m /\ (d + f) + m <= n - 1 /\ u2 <= o2
  <2>1. PICK N \in Nat : N = n /\ N # 0
    BY <1>1
  <2>2. PICK O \in Nat, U \in Nat : O = o /\ U = u
    BY <1>2
  <2>3. PICK D \in Nat, D2 \in Nat, F \in Nat, F2 \in Nat, M \in Nat :
            D = d /\ D2 = d2 /\ F = f /\ F2 = f2 /\ M = m
    BY <1>1, <1>11
  <2>4. /\ U <= O /\ D = (IF U < O THEN O - U ELSE 0) /\ F + D = O /\ O + M <= N - 1
        /\ D2 = (IF U + M < O + M THEN (O + M) - (U + M) ELSE 0) /\ F2 + D2 = O + M
    BY <1>2, <1>3, <1>4, <1>10, <2>1, <2>2, <2>3
  <2>5. D2 = D /\ F2 = F + M /\ (D + F) + M <= N - 1 /\ U + M <= O + M
    BY <2>4
  <2> QED
    BY <1>10, <2>1, <2>2, <2>3, <2>5
<1>13. \A k \in 1..o : Entry(r2, k) = Entry(r, k)
  <2>1. \A k \in 1..o : k \in 1..(n - 1) /\ k <= o
    BY <1>1, <1>2
  <2> QED
    BY <1>7, <2>1
<1>14. ASSUME NEW k \in 1..d PROVE Done(r2, read)[k] = Done(r, read)[k]
  <2>1. k \in 1..d2 /\ k \in 1..o
    BY <1>11, <1>12
  <2> QED
    BY <1>5, <1>6, <1>13, <2>1
<1>15. Done(r2, read) = Done(r, read)
  BY <1>5, <1>6, <1>12, <1>14, SameSeq
<1>16. PICK t : t = Fly(r, read) \o s
  OBVIOUS
<1>17. /\ t \in Seq(V) /\ Len(t) = f + m
       /\ \A k \in 1..(f + m) : t[k] = IF k <= f THEN Fly(r, read)[k] ELSE s[k - f]
  <2>1. t \in Seq(V) /\ Len(t) = Len(Fly(r, read)) + Len(s)
        /\ \A k \in 1..(Len(Fly(r, read)) + Len(s)) :
              t[k] = IF k <= Len(Fly(r, read)) THEN Fly(r, read)[k] ELSE s[k - Len(Fly(r, read))]
    BY <1>5, <1>16, ConcatProperties
  <2> QED
    BY <1>5, <2>1 DEF m
<1>18. ASSUME NEW k \in 1..(f + m) PROVE Fly(r2, read)[k] = t[k]
  <2>1. k \in 1..f2 /\ d2 + k \in 1..(n - 1) /\ d2 = d
    BY <1>1, <1>2, <1>12
  <2>2. CASE k <= f
    <3>1. k \in 1..f /\ d + k \in 1..o
      <4>1. f \in Nat /\ d \in Nat /\ o \in Nat /\ f + d = o
        BY <1>2
      <4> QED
        BY <2>2, <4>1
    <3>2. t[k] = Fly(r, read)[k]
      BY <1>17, <2>2
    <3> QED
      BY <1>5, <1>6, <1>13, <2>1, <3>1, <3>2
  <2>3. CASE ~(k <= f)
    <3>1. o < d + k /\ d + k <= o + m /\ (d + k) - o = k - f
      BY <1>1, <1>2, <2>3
    <3> QED
      BY <1>6, <1>7, <1>17, <2>1, <2>3, <3>1
  <2> QED
    BY <2>2, <2>3
<1>19. Fly(r2, read) = t
  BY <1>6, <1>12, <1>17, <1>18, SameSeq
<1> QED
  BY <1>5, <1>12, <1>13, <1>15, <1>16, <1>19 DEF o2, u2, d, d2, m, n, o

-----------------------------------------------------------------------------
(* The inductive invariant *)

SrcValues  == Contexts \cup {NoContext, CE_SENDLIST_ITEM_CTXT}
DestValues == Contexts \cup {NoContext}

SrcType ==
    /\ src_ring = [nentries |-> src_ring.nentries, sw_index |-> src_ring.sw_index,
                   hw_index |-> src_ring.hw_index, write_index |-> src_ring.write_index,
                   ctx |-> src_ring.ctx]
    /\ Ring(src_ring, SrcValues) /\ src_ring.hw_index \in Indices(src_ring)
    /\ srcReg = [write |-> src_ring.write_index, read |-> srcReg.read]
    /\ srcReg.read \in Indices(src_ring)

DestType ==
    /\ dest_ring = [nentries |-> dest_ring.nentries, sw_index |-> dest_ring.sw_index,
                    write_index |-> dest_ring.write_index, ctx |-> dest_ring.ctx]
    /\ Ring(dest_ring, DestValues)
    /\ destReg \in Indices(dest_ring) /\ nbytes \subseteq Indices(dest_ring)

SizeInv == [src |-> src_ring.nentries, dest |-> dest_ring.nentries] \in RingSizes

(* The target never overtakes write_index, the host never the target; the  *)
(* cached index is not ahead of the register, and a length is written only *)
(* into descriptors the target is done with.                               *)
SrcInv == hif = "up" =>
    /\ Unread(src_ring, srcReg.read) <= Outstanding(src_ring)
    /\ CE_RING_DELTA(src_ring.nentries, src_ring.sw_index, src_ring.hw_index)
           <= Finished(src_ring, srcReg.read)

DestInv == hif = "up" =>
    /\ Unread(dest_ring, destReg) <= Outstanding(dest_ring)
    /\ \A i \in nbytes : CE_RING_DELTA(dest_ring.nentries, dest_ring.sw_index, i)
                             < Finished(dest_ring, destReg)

FlagsInv ==
    {enabled, scheduled, tasklet_from_intr, logged, in_progress, gaveUp, reset} \subseteq BOOLEAN

CountsInv ==
    /\ receive_count \in 0..(MAX_NUM_OF_RECEIVES + 1)
    /\ more_comp_cnt \in 0..CE_TXRX_COMP_CHECK_THRESHOLD
    /\ foreign \in 0..MaxForeign
    /\ pc # "break" => receive_count <= MAX_NUM_OF_RECEIVES

ControlInv ==
    /\ status \subseteq Engines /\ rx_pending \subseteq Engines /\ todo \subseteq Engines
    /\ ce \in Engines
    /\ pc \in {"idle", "next", "recv", "break", "send", "clear", "recheck", "enable"}
    /\ hif \in {"up", "cleanup"}
    /\ pc \in {"recv", "break"} => ce = "dest"
    /\ pc = "send" => ce = "src"
    /\ pc \in {"idle", "enable"} => todo = {}
    /\ pc = "enable" => rx_pending = {}
    /\ hif = "cleanup" => pc = "idle" /\ ~scheduled

ServiceInv == FlagsInv /\ CountsInv /\ ControlInv

Inv == SrcType /\ DestType /\ SizeInv /\ SrcInv /\ DestInv /\ ServiceInv

(* The ways the source ring and the destination ring change. *)
SrcSame  == UNCHANGED <<src_ring, srcReg>>
DestSame == UNCHANGED <<dest_ring, destReg, nbytes>>

SrcTaken(hw) ==
    /\ src_ring' = [src_ring EXCEPT !.ctx[src_ring.sw_index] = NoContext, !.hw_index = hw,
                        !.sw_index = CE_RING_IDX_INCR(src_ring.nentries, src_ring.sw_index)]
    /\ UNCHANGED srcReg

DestTaken ==
    dest_ring' = [dest_ring EXCEPT !.ctx[dest_ring.sw_index] = NoContext,
                      !.sw_index = CE_RING_IDX_INCR(dest_ring.nentries, dest_ring.sw_index)]

SrcServed ==
    /\ hif = "up" /\ pc = "send"
    /\ \E hw : /\ hw = IF src_ring.hw_index = src_ring.sw_index THEN srcReg.read ELSE src_ring.hw_index
               /\ hw # src_ring.sw_index
               /\ SrcTaken(hw)

DestServed ==
    /\ hif = "up" /\ pc = "recv" /\ dest_ring.sw_index \in nbytes
    /\ DestTaken /\ UNCHANGED destReg /\ nbytes' = nbytes \ {dest_ring.sw_index}

LEMMA SrcCases ==
  ASSUME ServiceInv, [Next]_vars
  PROVE  \/ SrcSame
         \/ \E n \in 1..MaxItems : CE_sendlist_send(n)
         \/ TargetSent
         \/ SrcServed
         \/ CE_cancel_send_next
<1>1. UNCHANGED vars => SrcSame
  BY DEF vars, rings, SrcSame
<1>2. CE_recv_buf_enqueue \/ TargetReceived \/ TargetWrites \/ CE_revoke_recv_next => SrcSame
  BY DEF CE_recv_buf_enqueue, TargetReceived, TargetWrites, CE_revoke_recv_next, SrcSame
<1>3. Interrupt \/ SharedInterrupt => SrcSame
  BY DEF Interrupt, SharedInterrupt, hif_pci_interrupt_handler, rings, SrcSame
<1>4. CE_per_engine_service_any \/ StartService \/ ForceBreak \/ LoadRestartOrUnload \/ HIFStop => SrcSame
  BY DEF CE_per_engine_service_any, StartService, ForceBreak, LoadRestartOrUnload, HIFStop, rings, SrcSame
<1>5. CE_ENGINE_INT_STATUS_CLEAR \/ Recheck \/ EndService \/ EnableInterrupts => SrcSame
  BY DEF CE_ENGINE_INT_STATUS_CLEAR, Recheck, EndService, EnableInterrupts, rings, SrcSame
<1>6. CE_completed_recv_next => SrcSame
  BY DEF CE_completed_recv_next, rings, SrcSame
<1>7. CE_completed_send_next => SrcSame \/ SrcServed
  BY DEF CE_completed_send_next, rings, SrcSame, SrcServed, SrcTaken, ServiceInv, ControlInv
<1> QED
  BY <1>1, <1>2, <1>3, <1>4, <1>5, <1>6, <1>7 DEF Next, Target, Tasklet, Cleanup

LEMMA DestCases ==
  ASSUME ServiceInv, [Next]_vars
  PROVE  \/ DestSame
         \/ CE_recv_buf_enqueue
         \/ TargetReceived
         \/ TargetWrites
         \/ DestServed
         \/ CE_revoke_recv_next
<1>1. UNCHANGED vars => DestSame
  BY DEF vars, rings, DestSame
<1>2. (\E n \in 1..MaxItems : CE_sendlist_send(n)) \/ TargetSent \/ CE_cancel_send_next => DestSame
  BY DEF CE_sendlist_send, TargetSent, CE_cancel_send_next, DestSame
<1>3. Interrupt \/ SharedInterrupt => DestSame
  BY DEF Interrupt, SharedInterrupt, hif_pci_interrupt_handler, rings, DestSame
<1>4. CE_per_engine_service_any \/ StartService \/ ForceBreak \/ LoadRestartOrUnload \/ HIFStop => DestSame
  BY DEF CE_per_engine_service_any, StartService, ForceBreak, LoadRestartOrUnload, HIFStop, rings, DestSame
<1>5. CE_ENGINE_INT_STATUS_CLEAR \/ Recheck \/ EndService \/ EnableInterrupts => DestSame
  BY DEF CE_ENGINE_INT_STATUS_CLEAR, Recheck, EndService, EnableInterrupts, rings, DestSame
<1>6. CE_completed_send_next => DestSame
  BY DEF CE_completed_send_next, rings, DestSame
<1>7. CE_completed_recv_next => DestSame \/ DestServed
  BY DEF CE_completed_recv_next, rings, DestSame, DestServed, DestTaken, ServiceInv, ControlInv
<1> QED
  BY <1>1, <1>2, <1>3, <1>4, <1>5, <1>6, <1>7 DEF Next, Target, Tasklet, Cleanup

(* HIFStop is the last step of the target's and the tasklet's world. *)
LEMMA UpBefore ==
  ASSUME ServiceInv, [Next]_vars, hif' = "up"
  PROVE  hif = "up"
BY DEF ServiceInv, ControlInv, Next, vars, ghosts, Target, Tasklet, Cleanup, CE_sendlist_send, CE_recv_buf_enqueue,
       TargetSent, TargetReceived, TargetWrites, Interrupt, SharedInterrupt, hif_pci_interrupt_handler,
       CE_per_engine_service_any, StartService, CE_completed_recv_next, ForceBreak,
       CE_completed_send_next, CE_ENGINE_INT_STATUS_CLEAR, Recheck, EndService, EnableInterrupts,
       LoadRestartOrUnload, HIFStop, CE_revoke_recv_next, CE_cancel_send_next

LEMMA RingContexts ==
  ASSUME SizeInv
  PROVE  /\ \A i \in 0..(src_ring.nentries - 1) : Buffer(i) \in Contexts
         /\ \A i \in 0..(dest_ring.nentries - 1) : Buffer(i) \in Contexts
         /\ src_ring.nentries \in Nat \ {0} /\ dest_ring.nentries \in Nat \ {0}
<1>1. PICK z \in RingSizes : z = [src |-> src_ring.nentries, dest |-> dest_ring.nentries]
  BY DEF SizeInv
<1>2. z.src = src_ring.nentries /\ z.dest = dest_ring.nentries
  BY <1>1
<1>3. z \in [src: Nat \ {0}, dest: Nat \ {0}]
  BY RingAssumption
<1>4. z.src \in Nat \ {0} /\ z.dest \in Nat \ {0}
  BY <1>3
<1>5. \A i \in 0..(z.src - 1) : i + 1 \in 1..z.src
  BY <1>4
<1>6. \A i \in 0..(z.dest - 1) : i + 1 \in 1..z.dest
  BY <1>4
<1>7. (1..z.src) \cup (1..z.dest) \subseteq Contexts
  BY DEF Contexts
<1> QED
  BY <1>2, <1>4, <1>5, <1>6, <1>7 DEF Buffer

-----------------------------------------------------------------------------
(* The steps of the source ring *)

LEMMA SendlistIs ==
  ASSUME NEW m \in Nat \ {0}, NEW c \in Contexts
  PROVE  /\ Sendlist(m, c) \in Seq(SrcValues) /\ Len(Sendlist(m, c)) = m
         /\ \A k \in 1..m : Sendlist(m, c)[k] = IF k = m THEN c ELSE CE_SENDLIST_ITEM_CTXT
<1>1. Sendlist(m, c) \in [1..m -> SrcValues]
  BY DEF Sendlist, SrcValues
<1>2. Sendlist(m, c) \in Seq(SrcValues) /\ Len(Sendlist(m, c)) = m
  BY <1>1
<1> QED
  BY <1>2 DEF Sendlist

LEMMA SrcPosted ==
  ASSUME Inv, NEW m \in 1..MaxItems, CE_sendlist_send(m)
  PROVE  /\ SrcType' /\ SrcInv'
         /\ src_ring'.nentries = src_ring.nentries
         /\ SrcRing!Post
         /\ Done(src_ring, srcReg.read)' = Done(src_ring, srcReg.read)
<1> DEFINE n == src_ring.nentries  w == src_ring.write_index  sw == src_ring.sw_index
           ctx2 == [i \in DOMAIN src_ring.ctx |-> CE_send_nolock(m, i)]
<1>1. /\ n \in Nat \ {0} /\ w \in 0..(n - 1) /\ sw \in 0..(n - 1) /\ Indices(src_ring) = 0..(n - 1)
      /\ src_ring.ctx \in [0..(n - 1) -> SrcValues] /\ src_ring.hw_index \in 0..(n - 1)
      /\ srcReg.read \in 0..(n - 1) /\ Ring(src_ring, SrcValues)
  BY DEF Inv, SrcType, Ring, Indices
<1>2. m \in Nat \ {0}
  BY RingAssumption
<1>3. CE_RING_DELTA(n, w, sw - 1) >= m /\ hif = "up" /\ hif' = hif
  BY DEF CE_sendlist_send, SrcRoom, Started, Inv, ServiceInv, ControlInv, ghosts
<1>4. m \in 0..(n - 1) /\ m - 1 \in 0..(n - 1)
  <2>1. PICK x \in 0..(n - 1) : x = CE_RING_DELTA(n, w, sw - 1)
    BY <1>1, RoomIs
  <2> QED
    BY <1>1, <1>2, <1>3, <2>1
<1>5. PICK w2 \in 0..(n - 1) : w2 = (w + m) % n
  BY <1>1, <1>4, WrapIs
<1>6. PICK last \in 0..(n - 1) : last = (w + (m - 1)) % n
  BY <1>1, <1>4, WrapIs
<1>7. PICK c \in Contexts : c = Buffer(last)
  BY RingContexts DEF Inv
<1>8. PICK s : s = Sendlist(m, c)
  OBVIOUS
<1>9. /\ s \in Seq(SrcValues) /\ Len(s) = m
      /\ \A k \in 1..m : s[k] = IF k = m THEN c ELSE CE_SENDLIST_ITEM_CTXT
  BY <1>2, <1>8, SendlistIs
<1>10. /\ src_ring' = [nentries |-> n, sw_index |-> sw, hw_index |-> src_ring.hw_index,
                       write_index |-> w2, ctx |-> ctx2]
       /\ srcReg' = [write |-> w2, read |-> srcReg.read]
  BY <1>5 DEF CE_sendlist_send, Inv, SrcType
<1>11. /\ src_ring'.nentries = n /\ src_ring'.sw_index = sw /\ src_ring'.hw_index = src_ring.hw_index
       /\ src_ring'.write_index = w2 /\ src_ring'.ctx = ctx2
       /\ srcReg'.read = srcReg.read /\ srcReg'.write = w2
  BY <1>10
<1>12. ASSUME NEW i \in 0..(n - 1)
       PROVE  ctx2[i] = IF CE_RING_DELTA(n, w, i) < m THEN s[CE_RING_DELTA(n, w, i) + 1]
                        ELSE src_ring.ctx[i]
  <2>1. PICK e \in 0..(n - 1) : e = CE_RING_DELTA(n, w, i)
    BY <1>1, DeltaIs
  <2>2. ctx2[i] = CE_send_nolock(m, i)
    BY <1>1
  <2>3. CE_send_nolock(m, i) = IF e < m - 1 THEN CE_SENDLIST_ITEM_CTXT
                               ELSE IF e = m - 1 THEN Buffer(i) ELSE src_ring.ctx[i]
    BY <2>1 DEF CE_send_nolock
  <2>4. e = m - 1 => i = last
    <3> SUFFICES ASSUME e = m - 1 PROVE i = last
      OBVIOUS
    <3>1. e = IF w <= i THEN i - w ELSE (i - w) + n
      BY <1>1, <2>1, DeltaIs
    <3>2. last = IF w + (m - 1) < n THEN w + (m - 1) ELSE (w + (m - 1)) - n
      BY <1>1, <1>4, <1>6, WrapIs
    <3>3. PICK N \in Nat, W \in Nat, K \in Nat : N = n /\ W = w /\ K = m - 1 /\ W < N
      BY <1>1, <1>2, SMTT(30)
    <3>4. e = (IF W <= i THEN i - W ELSE (i - W) + N) /\ last = (IF W + K < N THEN W + K ELSE (W + K) - N)
          /\ e = K /\ i \in Nat /\ i < N /\ e \in Nat
      BY <1>1, <3>1, <3>2, <3>3, SMTT(30)
    <3> QED
      BY <3>3, <3>4
  <2>5. CASE e < m - 1
    <3>1. e + 1 \in 1..m /\ e + 1 # m /\ e < m
      BY <1>2, <2>5
    <3> QED
      BY <1>9, <2>1, <2>2, <2>3, <2>5, <3>1
  <2>6. CASE e = m - 1
    <3>1. e + 1 = m /\ m \in 1..m /\ e < m /\ ~(e < m - 1)
      BY <1>2, <2>6
    <3> QED
      BY <1>7, <1>9, <2>1, <2>2, <2>3, <2>4, <2>6, <3>1
  <2>7. CASE ~(e < m - 1) /\ e # m - 1
    <3>1. ~(e < m)
      BY <1>2, <2>7
    <3> QED
      BY <2>1, <2>2, <2>3, <2>7, <3>1
  <2> QED
    BY <2>5, <2>6, <2>7
<1>13. ctx2 \in [0..(n - 1) -> SrcValues]
  <2>1. ASSUME NEW i \in 0..(n - 1) PROVE ctx2[i] \in SrcValues
    <3>1. PICK e \in 0..(n - 1) : e = CE_RING_DELTA(n, w, i)
      BY <1>1, DeltaIs
    <3>2. e < m => e + 1 \in 1..m
      BY <1>2
    <3>3. \A k \in 1..m : s[k] \in SrcValues
      BY <1>9
    <3> QED
      BY <1>1, <1>12, <3>1, <3>2, <3>3
  <2>2. DOMAIN src_ring.ctx = 0..(n - 1)
    BY <1>1
  <2> QED
    BY <2>1, <2>2
<1> HIDE DEF ctx2
<1>14. PICK r2 : r2 = src_ring'
  OBVIOUS
<1>15. Ring(r2, SrcValues) /\ Indices(r2) = Indices(src_ring)
  BY <1>1, <1>11, <1>13, <1>14 DEF Ring, Indices
<1>16. Unread(src_ring, srcReg.read) <= Outstanding(src_ring)
  BY <1>3 DEF Inv, SrcInv
<1>17. /\ Unread(r2, srcReg.read) <= Outstanding(r2)
       /\ Finished(r2, srcReg.read) = Finished(src_ring, srcReg.read)
       /\ Len(Done(src_ring, srcReg.read)) + Len(Fly(src_ring, srcReg.read)) + Len(s) <= n - 1
       /\ Fly(r2, srcReg.read) = Fly(src_ring, srcReg.read) \o s
       /\ Done(r2, srcReg.read) = Done(src_ring, srcReg.read)
  <2>1. Len(s) # 0 /\ CE_RING_DELTA(n, w, sw - 1) >= Len(s)
    BY <1>2, <1>3, <1>9
  <2>2. r2.nentries = n /\ r2.sw_index = sw /\ r2.write_index = (w + Len(s)) % n
    BY <1>5, <1>9, <1>11, <1>14
  <2>3. \A i \in Indices(src_ring) :
            r2.ctx[i] = IF CE_RING_DELTA(n, w, i) < Len(s) THEN s[CE_RING_DELTA(n, w, i) + 1]
                        ELSE src_ring.ctx[i]
    BY <1>1, <1>9, <1>11, <1>12, <1>14
  <2>4. Posted(src_ring, r2, s)
    BY <2>1, <2>2, <2>3 DEF Posted
  <2>5. srcReg.read \in Indices(src_ring) /\ Ring(src_ring, SrcValues) /\ Ring(r2, SrcValues)
    BY <1>1, <1>15
  <2>6. s \in Seq(SrcValues) /\ Len(s) # 0
    BY <1>9, <2>1
  <2> QED
    BY <1>16, <2>4, <2>5, <2>6, PostedToRing
<1>18. SrcType'
  BY <1>1, <1>10, <1>11, <1>14, <1>15 DEF SrcType
<1>19. SrcInv'
  BY <1>3, <1>11, <1>14, <1>17 DEF SrcInv, Inv
<1>20. SrcRing!Post
  <2>1. s \in SrcLists
    BY <1>7, <1>8 DEF SrcLists
  <2>2. Fly(src_ring, srcReg.read)' = Fly(src_ring, srcReg.read) \o s
    BY <1>11, <1>14, <1>17
  <2>3. UNCHANGED Done(src_ring, srcReg.read)
    BY <1>11, <1>14, <1>17
  <2> QED
    BY <1>17, <2>1, <2>2, <2>3 DEF SrcRing!Post
<1> QED
  BY <1>11, <1>14, <1>17, <1>18, <1>19, <1>20

LEMMA SrcFacts ==
  ASSUME Inv
  PROVE  /\ src_ring.nentries \in Nat \ {0} /\ Indices(src_ring) = 0..(src_ring.nentries - 1)
         /\ Ring(src_ring, SrcValues)
         /\ {src_ring.sw_index, src_ring.write_index, src_ring.hw_index, srcReg.read}
                \subseteq 0..(src_ring.nentries - 1)
         /\ src_ring.ctx \in [0..(src_ring.nentries - 1) -> SrcValues]
         /\ srcReg.write = src_ring.write_index
         /\ srcReg.read \in Indices(src_ring)
         /\ hif = "up" =>
                /\ Unread(src_ring, srcReg.read) <= Outstanding(src_ring)
                /\ Finished(src_ring, srcReg.read)
                       = CE_RING_DELTA(src_ring.nentries, src_ring.sw_index, srcReg.read)
<1>1. /\ SrcType /\ Ring(src_ring, SrcValues) /\ srcReg.read \in Indices(src_ring)
      /\ hif = "up" => Unread(src_ring, srcReg.read) <= Outstanding(src_ring)
  BY DEF Inv, SrcType, SrcInv
<1>2. hif = "up" => Finished(src_ring, srcReg.read)
                       = CE_RING_DELTA(src_ring.nentries, src_ring.sw_index, srcReg.read)
  BY <1>1, DoneIsDelta
<1> QED
  BY <1>1, <1>2 DEF SrcType, Ring, Indices

LEMMA SrcSent ==
  ASSUME Inv, TargetSent
  PROVE  /\ SrcType' /\ SrcInv'
         /\ src_ring' = src_ring
         /\ SrcRing!Finish
         /\ Head(Fly(src_ring, srcReg.read)) = src_ring.ctx[srcReg.read]
<1>1. /\ src_ring' = src_ring /\ hif = "up" /\ hif' = hif
      /\ srcReg' = [write |-> src_ring.write_index,
                    read |-> CE_RING_IDX_INCR(src_ring.nentries, srcReg.read)]
      /\ srcReg.read # src_ring.write_index
  BY DEF TargetSent, Started, ghosts, Inv, SrcType, ServiceInv, ControlInv
<1>2. PICK read2 : read2 = CE_RING_IDX_INCR(src_ring.nentries, srcReg.read)
  OBVIOUS
<1>3. srcReg'.read = read2 /\ srcReg'.write = src_ring.write_index
  BY <1>1, <1>2
<1>4. /\ Ring(src_ring, SrcValues) /\ srcReg.read \in Indices(src_ring)
      /\ Unread(src_ring, srcReg.read) <= Outstanding(src_ring)
  BY <1>1, SrcFacts
<1>5. /\ read2 \in Indices(src_ring) /\ Unread(src_ring, read2) <= Outstanding(src_ring)
      /\ Finished(src_ring, read2) = Finished(src_ring, srcReg.read) + 1
      /\ Fly(src_ring, srcReg.read) # <<>> /\ Fly(src_ring, read2) = Tail(Fly(src_ring, srcReg.read))
      /\ Done(src_ring, read2) = Append(Done(src_ring, srcReg.read), Head(Fly(src_ring, srcReg.read)))
      /\ Head(Fly(src_ring, srcReg.read)) = src_ring.ctx[srcReg.read]
  BY <1>1, <1>2, <1>4, FinishedByTarget
<1>6. SrcType'
  BY <1>1, <1>2, <1>3, <1>5 DEF SrcType, Inv
<1>7. SrcInv'
  <2>1. PICK d \in Nat : d = Finished(src_ring, srcReg.read)
    BY <1>4, CountsAre
  <2>2. PICK h \in Nat : h = CE_RING_DELTA(src_ring.nentries, src_ring.sw_index, src_ring.hw_index)
    BY SrcFacts, DeltaNat
  <2>3. h <= d
    BY <1>1, <2>1, <2>2 DEF Inv, SrcInv
  <2>4. h <= d + 1
    BY <2>3
  <2> QED
    BY <1>1, <1>3, <1>5, <2>1, <2>2, <2>4 DEF SrcInv
<1>8. SrcRing!Finish
  BY <1>1, <1>3, <1>5 DEF SrcRing!Finish
<1> QED
  BY <1>1, <1>5, <1>6, <1>7, <1>8

(* One transfer less in the source ring; the new record and its type. *)
LEMMA SrcTakenIs ==
  ASSUME Inv, NEW hw \in Indices(src_ring), SrcTaken(hw), src_ring.sw_index # src_ring.write_index
  PROVE  /\ SrcType' /\ Ring(src_ring', SrcValues) /\ srcReg' = srcReg
         /\ src_ring'.nentries = src_ring.nentries /\ src_ring'.write_index = src_ring.write_index
         /\ src_ring'.sw_index = CE_RING_IDX_INCR(src_ring.nentries, src_ring.sw_index)
         /\ src_ring'.hw_index = hw
         /\ \A i \in Indices(src_ring) : i # src_ring.sw_index => src_ring'.ctx[i] = src_ring.ctx[i]
         /\ Outstanding(src_ring) # 0
<1> DEFINE n == src_ring.nentries  sw == src_ring.sw_index
           ctx2 == [src_ring.ctx EXCEPT ![sw] = NoContext]
<1>1. /\ n \in Nat \ {0} /\ Indices(src_ring) = 0..(n - 1) /\ Ring(src_ring, SrcValues)
      /\ sw \in 0..(n - 1) /\ src_ring.write_index \in 0..(n - 1) /\ srcReg.read \in Indices(src_ring)
      /\ src_ring.ctx \in [0..(n - 1) -> SrcValues]
  BY SrcFacts
<1>2. PICK sw2 \in 0..(n - 1) : sw2 = CE_RING_IDX_INCR(n, sw)
  BY <1>1, DeltaShrinks
<1>3. /\ src_ring' = [nentries |-> n, sw_index |-> sw2, hw_index |-> hw,
                      write_index |-> src_ring.write_index, ctx |-> ctx2]
      /\ srcReg' = srcReg
  BY <1>2 DEF SrcTaken, Inv, SrcType
<1>4. ctx2 \in [0..(n - 1) -> SrcValues] /\ \A i \in 0..(n - 1) : i # sw => ctx2[i] = src_ring.ctx[i]
  BY <1>1 DEF SrcValues
<1> HIDE DEF ctx2
<1>5. /\ src_ring'.nentries = n /\ src_ring'.sw_index = sw2 /\ src_ring'.hw_index = hw
      /\ src_ring'.write_index = src_ring.write_index /\ src_ring'.ctx = ctx2
  BY <1>3
<1>6. Ring(src_ring', SrcValues) /\ Indices(src_ring') = Indices(src_ring)
  BY <1>1, <1>4, <1>5 DEF Ring, Indices
<1>7. SrcType'
  <2>1. srcReg = [write |-> src_ring.write_index, read |-> srcReg.read]
    BY DEF Inv, SrcType
  <2> QED
    BY <1>1, <1>3, <1>5, <1>6, <2>1 DEF SrcType
<1>8. Outstanding(src_ring) # 0
  BY <1>1, DeltaShrinks DEF Outstanding
<1> QED
  BY <1>1, <1>2, <1>3, <1>4, <1>5, <1>6, <1>7, <1>8

LEMMA SrcGivenBack ==
  ASSUME Inv, SrcServed, hif' \in {"up", "cleanup"}
  PROVE  /\ SrcType' /\ SrcInv'
         /\ src_ring'.nentries = src_ring.nentries
         /\ SrcRing!GiveBack
<1> DEFINE n == src_ring.nentries  sw == src_ring.sw_index  read == srcReg.read
<1>1. /\ n \in Nat \ {0} /\ Indices(src_ring) = 0..(n - 1) /\ Ring(src_ring, SrcValues)
      /\ sw \in 0..(n - 1) /\ src_ring.write_index \in 0..(n - 1) /\ read \in 0..(n - 1)
      /\ src_ring.hw_index \in 0..(n - 1)
  BY SrcFacts
<1>2. PICK hw : /\ hw = IF src_ring.hw_index = sw THEN read ELSE src_ring.hw_index
                /\ hw # sw /\ SrcTaken(hw)
  BY DEF SrcServed
<1>3. hw \in 0..(n - 1) /\ hw \in Indices(src_ring)
  BY <1>1, <1>2
<1>4. /\ Unread(src_ring, read) <= Outstanding(src_ring)
      /\ Finished(src_ring, read) = CE_RING_DELTA(n, sw, read)
  BY SrcFacts DEF SrcServed
<1>5. CE_RING_DELTA(n, sw, hw) <= Finished(src_ring, read)
  <2>1. CASE src_ring.hw_index = sw
    <3>1. CE_RING_DELTA(n, sw, read) \in Nat
      BY <1>1, DeltaNat
    <3> QED
      BY <1>2, <1>4, <2>1, <3>1
  <2>2. CASE src_ring.hw_index # sw
    BY <1>2, <2>2 DEF Inv, SrcInv, SrcServed
  <2> QED
    BY <2>1, <2>2
<1>6. PICK d \in Nat : d = Finished(src_ring, read)
  BY <1>1, CountsAre
<1>7. PICK h \in Nat : h = CE_RING_DELTA(n, sw, hw)
  BY <1>1, <1>3, DeltaNat
<1>8. h # 0 /\ h <= d
  BY <1>1, <1>2, <1>3, <1>5, <1>6, <1>7, DeltaShrinks
<1>9. d # 0
  BY <1>8
<1>10. sw # src_ring.write_index
  <2>1. Outstanding(src_ring) # 0
    BY <1>1, <1>6, <1>9, CountsAre
  <2>2. CE_RING_DELTA(n, sw, sw) = 0
    BY <1>1, DeltaNat
  <2> QED
    BY <2>1, <2>2 DEF Outstanding
<1>11. /\ SrcType' /\ Ring(src_ring', SrcValues) /\ srcReg' = srcReg
       /\ src_ring'.nentries = src_ring.nentries /\ src_ring'.write_index = src_ring.write_index
       /\ src_ring'.sw_index = CE_RING_IDX_INCR(src_ring.nentries, src_ring.sw_index)
       /\ src_ring'.hw_index = hw
       /\ \A i \in Indices(src_ring) : i # src_ring.sw_index => src_ring'.ctx[i] = src_ring.ctx[i]
       /\ Outstanding(src_ring) # 0
  BY <1>2, <1>3, <1>10, SrcTakenIs
<1>12. PICK r2 : r2 = src_ring'
  OBVIOUS
<1>13. /\ Finished(r2, read) = d - 1
       /\ Unread(r2, read) <= Outstanding(r2)
       /\ Done(src_ring, read) # <<>> /\ Done(r2, read) = Tail(Done(src_ring, read))
       /\ Fly(r2, read) = Fly(src_ring, read)
  BY <1>1, <1>6, <1>9, <1>11, <1>12, TakenFromRing, SMTT(30)
<1>14. CE_RING_DELTA(n, r2.sw_index, r2.hw_index) = h - 1
  BY <1>1, <1>2, <1>3, <1>7, <1>11, <1>12, DeltaShrinks
<1>15. h - 1 <= d - 1
  BY <1>8
<1>16. SrcInv'
  BY <1>11, <1>12, <1>13, <1>14, <1>15 DEF SrcInv
<1>17. SrcRing!GiveBack
  BY <1>11, <1>12, <1>13 DEF SrcRing!GiveBack
<1> QED
  BY <1>11, <1>16, <1>17

LEMMA SrcCancelled ==
  ASSUME Inv, CE_cancel_send_next
  PROVE  /\ SrcType' /\ SrcInv'
         /\ src_ring'.nentries = src_ring.nentries
         /\ SrcRing!GiveBack \/ SrcRing!Revoke
<1> DEFINE read == srcReg.read  hw == src_ring.hw_index
<1>1. /\ Indices(src_ring) = 0..(src_ring.nentries - 1) /\ Ring(src_ring, SrcValues)
      /\ read \in Indices(src_ring) /\ hw \in Indices(src_ring)
  BY SrcFacts
<1>2. SrcTaken(hw) /\ src_ring.sw_index # src_ring.write_index /\ hif' = "cleanup"
  BY DEF CE_cancel_send_next, SrcTaken, ghosts, Inv, SrcType
<1>3. /\ SrcType' /\ Ring(src_ring', SrcValues) /\ srcReg' = srcReg
      /\ src_ring'.nentries = src_ring.nentries /\ src_ring'.write_index = src_ring.write_index
      /\ src_ring'.sw_index = CE_RING_IDX_INCR(src_ring.nentries, src_ring.sw_index)
      /\ \A i \in Indices(src_ring) : i # src_ring.sw_index => src_ring'.ctx[i] = src_ring.ctx[i]
      /\ Outstanding(src_ring) # 0
  BY <1>1, <1>2, SrcTakenIs
<1>4. PICK r2 : r2 = src_ring'
  OBVIOUS
<1>5. /\ Finished(src_ring, read) # 0 =>
                /\ Done(src_ring, read) # <<>> /\ Done(r2, read) = Tail(Done(src_ring, read))
                /\ Fly(r2, read) = Fly(src_ring, read)
      /\ Finished(src_ring, read) = 0 =>
                /\ Done(src_ring, read) = <<>> /\ Done(r2, read) = Done(src_ring, read)
                /\ Fly(src_ring, read) # <<>> /\ Fly(r2, read) = Tail(Fly(src_ring, read))
  <2>1. /\ Ring(src_ring, SrcValues) /\ Ring(r2, SrcValues) /\ read \in Indices(src_ring)
        /\ Outstanding(src_ring) # 0 /\ r2.nentries = src_ring.nentries
        /\ r2.write_index = src_ring.write_index
        /\ r2.sw_index = CE_RING_IDX_INCR(src_ring.nentries, src_ring.sw_index)
        /\ \A i \in Indices(src_ring) : i # src_ring.sw_index => r2.ctx[i] = src_ring.ctx[i]
    BY <1>1, <1>3, <1>4
  <2> QED
    BY <2>1, TakenFromRing
<1>6. SrcRing!GiveBack \/ SrcRing!Revoke
  BY <1>3, <1>4, <1>5 DEF SrcRing!GiveBack, SrcRing!Revoke
<1> QED
  BY <1>2, <1>3, <1>6 DEF SrcInv

-----------------------------------------------------------------------------
(* The steps of the destination ring *)

LEMMA DestFacts ==
  ASSUME Inv
  PROVE  /\ dest_ring.nentries \in Nat \ {0} /\ Indices(dest_ring) = 0..(dest_ring.nentries - 1)
         /\ Ring(dest_ring, DestValues)
         /\ {dest_ring.sw_index, dest_ring.write_index, destReg} \subseteq 0..(dest_ring.nentries - 1)
         /\ nbytes \subseteq 0..(dest_ring.nentries - 1)
         /\ dest_ring.ctx \in [0..(dest_ring.nentries - 1) -> DestValues]
         /\ destReg \in Indices(dest_ring)
         /\ hif = "up" =>
                /\ Unread(dest_ring, destReg) <= Outstanding(dest_ring)
                /\ Finished(dest_ring, destReg)
                       = CE_RING_DELTA(dest_ring.nentries, dest_ring.sw_index, destReg)
<1>1. /\ DestType /\ Ring(dest_ring, DestValues) /\ destReg \in Indices(dest_ring)
      /\ hif = "up" => Unread(dest_ring, destReg) <= Outstanding(dest_ring)
  BY DEF Inv, DestType, DestInv
<1>2. hif = "up" => Finished(dest_ring, destReg)
                       = CE_RING_DELTA(dest_ring.nentries, dest_ring.sw_index, destReg)
  BY <1>1, DoneIsDelta
<1> QED
  BY <1>1, <1>2 DEF DestType, Ring, Indices

LEMMA DestPosted ==
  ASSUME Inv, CE_recv_buf_enqueue
  PROVE  /\ DestType' /\ DestInv'
         /\ dest_ring'.nentries = dest_ring.nentries
         /\ DestRing!Post
<1> DEFINE n == dest_ring.nentries  w == dest_ring.write_index  sw == dest_ring.sw_index
           ctx2 == [dest_ring.ctx EXCEPT ![w] = Buffer(w)]
<1>1. /\ n \in Nat \ {0} /\ w \in 0..(n - 1) /\ sw \in 0..(n - 1) /\ Indices(dest_ring) = 0..(n - 1)
      /\ dest_ring.ctx \in [0..(n - 1) -> DestValues]
      /\ destReg \in 0..(n - 1) /\ Ring(dest_ring, DestValues)
  BY DestFacts
<1>2. CE_RING_DELTA(n, w, sw - 1) > 0 /\ hif = "up" /\ hif' = hif
  BY DEF CE_recv_buf_enqueue, DestRoom, Started, Inv, ServiceInv, ControlInv, ghosts
<1>3. CE_RING_DELTA(n, w, sw - 1) >= 1 /\ 1 \in 0..(n - 1)
  <2>1. PICK x \in 0..(n - 1) : x = CE_RING_DELTA(n, w, sw - 1)
    BY <1>1, RoomIs
  <2> QED
    BY <1>1, <1>2, <2>1
<1>4. PICK w2 \in 0..(n - 1) : w2 = (w + 1) % n
  BY <1>1, <1>3, WrapIs
<1>5. PICK c \in Contexts : c = Buffer(w)
  BY <1>1, RingContexts DEF Inv
<1>6. /\ dest_ring' = [nentries |-> n, sw_index |-> sw, write_index |-> w2, ctx |-> ctx2]
      /\ destReg' = destReg /\ nbytes' = nbytes \ {w}
  BY <1>4 DEF CE_recv_buf_enqueue, CE_RING_IDX_INCR, Inv, DestType
<1>7. /\ ctx2 \in [0..(n - 1) -> DestValues]
      /\ \A i \in 0..(n - 1) : ctx2[i] = IF i = w THEN c ELSE dest_ring.ctx[i]
  BY <1>1, <1>5 DEF DestValues
<1> HIDE DEF ctx2
<1>8. /\ dest_ring'.nentries = n /\ dest_ring'.sw_index = sw /\ dest_ring'.write_index = w2
      /\ dest_ring'.ctx = ctx2
  BY <1>6
<1>9. PICK r2 : r2 = dest_ring'
  OBVIOUS
<1>10. Ring(r2, DestValues) /\ Indices(r2) = Indices(dest_ring)
  BY <1>1, <1>7, <1>8, <1>9 DEF Ring, Indices
<1>11. PICK s : s = <<c>>
  OBVIOUS
<1>12. s \in Seq(DestValues) /\ Len(s) = 1 /\ s[1] = c /\ Len(s) # 0
  BY <1>11 DEF DestValues
<1>13. Posted(dest_ring, r2, s)
  <2>1. ASSUME NEW i \in 0..(n - 1)
        PROVE  r2.ctx[i] = IF CE_RING_DELTA(n, w, i) < Len(s) THEN s[CE_RING_DELTA(n, w, i) + 1]
                           ELSE dest_ring.ctx[i]
    <3>1. PICK e \in Nat : e = CE_RING_DELTA(n, w, i)
      BY <1>1, DeltaNat
    <3>5. (w = i => e = 0) /\ (w # i => e # 0)
      <4>1. w # i => CE_RING_DELTA(n, w, i) # 0
        BY <1>1, DeltaNat
      <4>2. w = i => CE_RING_DELTA(n, w, i) = 0
        BY <1>1, DeltaNat
      <4> QED
        BY <3>1, <4>1, <4>2
    <3>2. e < Len(s) <=> e = 0
      BY <1>12
    <3>3. r2.ctx[i] = IF i = w THEN c ELSE dest_ring.ctx[i]
      BY <1>7, <1>8, <1>9
    <3>4. e = 0 => e + 1 = 1
      OBVIOUS
    <3> QED
      BY <1>12, <3>1, <3>2, <3>3, <3>4, <3>5
  <2> QED
    BY <1>1, <1>3, <1>4, <1>8, <1>9, <1>12, <2>1 DEF Posted
<1>14. /\ Unread(r2, destReg) <= Outstanding(r2)
       /\ Finished(r2, destReg) = Finished(dest_ring, destReg)
       /\ Len(Done(dest_ring, destReg)) + Len(Fly(dest_ring, destReg)) + Len(s) <= dest_ring.nentries - 1
       /\ Fly(r2, destReg) = Fly(dest_ring, destReg) \o s
       /\ Done(r2, destReg) = Done(dest_ring, destReg)
  <2>1. /\ Unread(dest_ring, destReg) <= Outstanding(dest_ring)
        /\ destReg \in Indices(dest_ring) /\ Ring(dest_ring, DestValues)
    BY <1>2, DestFacts
  <2> QED
    <3>1. s \in Seq(DestValues) /\ Len(s) # 0 /\ Ring(r2, DestValues)
      BY <1>10, <1>12
    <3> HIDE DEF n, w, sw
    <3> QED
      BY <1>13, <2>1, <3>1, PostedToRing
<1>15. DestType'
  <2>1. nbytes \subseteq Indices(dest_ring)
    BY DEF Inv, DestType
  <2> QED
    BY <1>1, <1>6, <1>8, <1>9, <1>10, <2>1 DEF DestType
<1>16. DestInv'
  BY <1>2, <1>6, <1>8, <1>9, <1>14 DEF DestInv, Inv
<1>17. DestRing!Post
  <2>1. s \in DestLists
    BY <1>11 DEF DestLists
  <2>2. Fly(dest_ring, destReg)' = Fly(dest_ring, destReg) \o s
    BY <1>6, <1>9, <1>14
  <2>3. UNCHANGED Done(dest_ring, destReg)
    BY <1>6, <1>9, <1>14
  <2> QED
    BY <1>14, <2>1, <2>2, <2>3 DEF DestRing!Post
<1> QED
  BY <1>8, <1>15, <1>16, <1>17

LEMMA DestReceived ==
  ASSUME Inv, TargetReceived
  PROVE  /\ DestType' /\ DestInv'
         /\ dest_ring' = dest_ring
         /\ DestRing!Finish
<1>1. /\ dest_ring' = dest_ring /\ hif = "up" /\ hif' = hif /\ nbytes' = nbytes
      /\ destReg' = CE_RING_IDX_INCR(dest_ring.nentries, destReg)
      /\ destReg # dest_ring.write_index
  BY DEF TargetReceived, Started, ghosts, Inv, ServiceInv, ControlInv
<1>2. PICK read2 : read2 = destReg'
  OBVIOUS
<1>3. /\ Ring(dest_ring, DestValues) /\ destReg \in Indices(dest_ring)
      /\ Unread(dest_ring, destReg) <= Outstanding(dest_ring)
  BY <1>1, DestFacts
<1>4. /\ read2 \in Indices(dest_ring) /\ Unread(dest_ring, read2) <= Outstanding(dest_ring)
      /\ Finished(dest_ring, read2) = Finished(dest_ring, destReg) + 1
      /\ Fly(dest_ring, destReg) # <<>> /\ Fly(dest_ring, read2) = Tail(Fly(dest_ring, destReg))
      /\ Done(dest_ring, read2) = Append(Done(dest_ring, destReg), Head(Fly(dest_ring, destReg)))
  BY <1>1, <1>2, <1>3, FinishedByTarget
<1>5. DestType'
  BY <1>1, <1>2, <1>4 DEF DestType, Inv
<1>6. DestInv'
  <2>1. PICK d \in Nat : d = Finished(dest_ring, destReg)
    BY <1>3, CountsAre
  <2>2. ASSUME NEW i \in nbytes
        PROVE  CE_RING_DELTA(dest_ring.nentries, dest_ring.sw_index, i) < d + 1
    <3>1. PICK x \in Nat : x = CE_RING_DELTA(dest_ring.nentries, dest_ring.sw_index, i)
      BY DestFacts, DeltaNat
    <3>2. x < d
      BY <1>1, <2>1, <3>1 DEF Inv, DestInv
    <3>3. x < d + 1
      BY <3>2
    <3> QED
      BY <3>1, <3>3
  <2> QED
    BY <1>1, <1>2, <1>4, <2>1, <2>2 DEF DestInv
<1>7. DestRing!Finish
  BY <1>1, <1>2, <1>4 DEF DestRing!Finish
<1> QED
  BY <1>1, <1>5, <1>6, <1>7

(* The descriptor before an index. *)
LEMMA DeltaBefore ==
  ASSUME NEW n \in Nat \ {0}, NEW a \in 0..(n - 1), NEW b \in 0..(n - 1), a # b
  PROVE  /\ CE_RING_DELTA(n, 1, b) \in 0..(n - 1)
         /\ CE_RING_DELTA(n, a, CE_RING_DELTA(n, 1, b)) < CE_RING_DELTA(n, a, b)
<1>1. 1 \in 0..(n - 1)
  OBVIOUS
<1>2. PICK x \in 0..(n - 1) : x = CE_RING_DELTA(n, 1, b)
  BY <1>1, DeltaIs
<1>3. x = IF 1 <= b THEN b - 1 ELSE (b - 1) + n
  BY <1>1, <1>2, DeltaIs
<1>4. /\ CE_RING_DELTA(n, a, b) = (IF a <= b THEN b - a ELSE (b - a) + n)
      /\ CE_RING_DELTA(n, a, x) = (IF a <= x THEN x - a ELSE (x - a) + n)
  BY DeltaIs
<1> QED
  BY <1>2, <1>3, <1>4

LEMMA DestWritten ==
  ASSUME Inv, TargetWrites
  PROVE  /\ DestType' /\ DestInv'
         /\ UNCHANGED <<dest_ring, destReg>>
<1> DEFINE n == dest_ring.nentries  sw == dest_ring.sw_index
<1>1. /\ n \in Nat \ {0} /\ sw \in 0..(n - 1) /\ destReg \in 0..(n - 1) /\ Indices(dest_ring) = 0..(n - 1)
  BY DestFacts
<1>2. /\ UNCHANGED <<dest_ring, destReg>> /\ hif = "up" /\ hif' = hif /\ destReg # sw
      /\ nbytes' = nbytes \cup {CE_RING_DELTA(n, 1, destReg)}
  BY DEF TargetWrites, Unwritten, Started, ghosts, Inv, ServiceInv, ControlInv
<1>3. PICK x : x = CE_RING_DELTA(n, 1, destReg)
  OBVIOUS
<1>4. x \in 0..(n - 1) /\ CE_RING_DELTA(n, sw, x) < CE_RING_DELTA(n, sw, destReg)
  BY <1>1, <1>2, <1>3, DeltaBefore
<1>5. Finished(dest_ring, destReg) = CE_RING_DELTA(n, sw, destReg)
  BY <1>2, DestFacts
<1>6. DestType'
  BY <1>1, <1>2, <1>3, <1>4 DEF Inv, DestType
<1>7. DestInv'
  BY <1>2, <1>3, <1>4, <1>5 DEF Inv, DestInv
<1> QED
  BY <1>2, <1>6, <1>7

LEMMA DestTakenIs ==
  ASSUME Inv, DestTaken, UNCHANGED destReg, nbytes' \subseteq nbytes,
         dest_ring.sw_index # dest_ring.write_index
  PROVE  /\ DestType' /\ Ring(dest_ring', DestValues)
         /\ dest_ring'.nentries = dest_ring.nentries /\ dest_ring'.write_index = dest_ring.write_index
         /\ dest_ring'.sw_index = CE_RING_IDX_INCR(dest_ring.nentries, dest_ring.sw_index)
         /\ \A i \in Indices(dest_ring) : i # dest_ring.sw_index => dest_ring'.ctx[i] = dest_ring.ctx[i]
         /\ Outstanding(dest_ring) # 0
<1> DEFINE n == dest_ring.nentries  sw == dest_ring.sw_index
           ctx2 == [dest_ring.ctx EXCEPT ![sw] = NoContext]
<1>1. /\ n \in Nat \ {0} /\ Indices(dest_ring) = 0..(n - 1) /\ Ring(dest_ring, DestValues)
      /\ sw \in 0..(n - 1) /\ dest_ring.write_index \in 0..(n - 1) /\ destReg \in Indices(dest_ring)
      /\ dest_ring.ctx \in [0..(n - 1) -> DestValues]
  BY DestFacts
<1>2. PICK sw2 \in 0..(n - 1) : sw2 = CE_RING_IDX_INCR(n, sw)
  BY <1>1, DeltaShrinks
<1>3. dest_ring' = [nentries |-> n, sw_index |-> sw2, write_index |-> dest_ring.write_index, ctx |-> ctx2]
  BY <1>2 DEF DestTaken, Inv, DestType
<1>4. ctx2 \in [0..(n - 1) -> DestValues] /\ \A i \in 0..(n - 1) : i # sw => ctx2[i] = dest_ring.ctx[i]
  BY <1>1 DEF DestValues
<1> HIDE DEF ctx2
<1>5. /\ dest_ring'.nentries = n /\ dest_ring'.sw_index = sw2
      /\ dest_ring'.write_index = dest_ring.write_index /\ dest_ring'.ctx = ctx2
  BY <1>3
<1>6. Ring(dest_ring', DestValues) /\ Indices(dest_ring') = Indices(dest_ring)
  BY <1>1, <1>4, <1>5 DEF Ring, Indices
<1>7. DestType'
  <2>1. nbytes \subseteq Indices(dest_ring)
    BY DEF Inv, DestType
  <2> QED
    BY <1>1, <1>3, <1>5, <1>6, <2>1 DEF DestType
<1>8. Outstanding(dest_ring) # 0
  BY <1>1, DeltaShrinks DEF Outstanding
<1> QED
  BY <1>1, <1>2, <1>3, <1>4, <1>5, <1>6, <1>7, <1>8

LEMMA DestGivenBack ==
  ASSUME Inv, DestServed
  PROVE  /\ DestType' /\ DestInv'
         /\ dest_ring'.nentries = dest_ring.nentries
         /\ DestRing!GiveBack
<1> DEFINE n == dest_ring.nentries  sw == dest_ring.sw_index
<1>1. /\ n \in Nat \ {0} /\ Indices(dest_ring) = 0..(n - 1) /\ Ring(dest_ring, DestValues)
      /\ sw \in 0..(n - 1) /\ dest_ring.write_index \in 0..(n - 1) /\ destReg \in 0..(n - 1)
      /\ nbytes \subseteq 0..(n - 1)
  BY DestFacts
<1>2. PICK d \in Nat : d = Finished(dest_ring, destReg)
  BY <1>1, CountsAre
<1>3. /\ hif = "up" /\ sw \in nbytes /\ DestTaken /\ UNCHANGED destReg /\ nbytes' = nbytes \ {sw}
      /\ \A i \in nbytes : CE_RING_DELTA(n, sw, i) < d
  BY <1>2 DEF DestServed, Inv, DestInv
<1>4. d # 0
  <2>1. CE_RING_DELTA(n, sw, sw) < d /\ CE_RING_DELTA(n, sw, sw) \in Nat
    BY <1>1, <1>3, DeltaNat
  <2> QED
    BY <2>1
<1>5. sw # dest_ring.write_index
  <2>1. Outstanding(dest_ring) # 0
    <3>1. /\ Ring(dest_ring, DestValues) /\ destReg \in Indices(dest_ring)
          /\ Finished(dest_ring, destReg) # 0
      BY <1>1, <1>2, <1>4
    <3>2. Finished(dest_ring, destReg) \in 0..Outstanding(dest_ring)
      BY <3>1, CountsAre
    <3> QED
      BY <1>2, <3>1, <3>2
  <2>2. CE_RING_DELTA(n, sw, sw) = 0
    BY <1>1, DeltaNat
  <2> QED
    BY <2>1, <2>2 DEF Outstanding
<1>6. /\ DestType' /\ Ring(dest_ring', DestValues)
      /\ dest_ring'.nentries = dest_ring.nentries /\ dest_ring'.write_index = dest_ring.write_index
      /\ dest_ring'.sw_index = CE_RING_IDX_INCR(dest_ring.nentries, dest_ring.sw_index)
      /\ \A i \in Indices(dest_ring) : i # dest_ring.sw_index => dest_ring'.ctx[i] = dest_ring.ctx[i]
      /\ Outstanding(dest_ring) # 0
  BY <1>3, <1>5, DestTakenIs
<1>7. PICK r2 : r2 = dest_ring'
  OBVIOUS
<1>8. /\ Finished(r2, destReg) = d - 1
      /\ Unread(r2, destReg) <= Outstanding(r2)
      /\ Done(dest_ring, destReg) # <<>> /\ Done(r2, destReg) = Tail(Done(dest_ring, destReg))
      /\ Fly(r2, destReg) = Fly(dest_ring, destReg)
  <2>1. /\ Ring(dest_ring, DestValues) /\ Ring(r2, DestValues) /\ destReg \in Indices(dest_ring)
        /\ Outstanding(dest_ring) # 0 /\ r2.nentries = dest_ring.nentries
        /\ r2.write_index = dest_ring.write_index
        /\ r2.sw_index = CE_RING_IDX_INCR(dest_ring.nentries, dest_ring.sw_index)
        /\ \A i \in Indices(dest_ring) : i # dest_ring.sw_index => r2.ctx[i] = dest_ring.ctx[i]
    BY <1>1, <1>6, <1>7
  <2>2. Finished(dest_ring, destReg) # 0
    BY <1>2, <1>4
  <2> QED
    BY <1>2, <2>1, <2>2, TakenFromRing
<1>9. ASSUME NEW i \in nbytes' PROVE CE_RING_DELTA(n, r2.sw_index, i) < d - 1
  <2>1. i \in nbytes /\ i # sw /\ i \in 0..(n - 1)
    BY <1>1, <1>3
  <2>2. PICK x \in Nat : x = CE_RING_DELTA(n, sw, i)
    BY <1>1, <2>1, DeltaNat
  <2>3. x < d
    BY <1>3, <2>1, <2>2
  <2>4. CE_RING_DELTA(n, r2.sw_index, i) = x - 1
    BY <1>1, <1>6, <1>7, <2>1, <2>2, DeltaShrinks
  <2>5. x - 1 < d - 1
    BY <2>3
  <2> QED
    BY <2>4, <2>5
<1>10. DestInv'
  BY <1>3, <1>6, <1>7, <1>8, <1>9 DEF DestInv
<1>11. DestRing!GiveBack
  BY <1>3, <1>7, <1>8 DEF DestRing!GiveBack
<1> QED
  BY <1>6, <1>10, <1>11

LEMMA DestRevoked ==
  ASSUME Inv, CE_revoke_recv_next
  PROVE  /\ DestType' /\ DestInv'
         /\ dest_ring'.nentries = dest_ring.nentries
         /\ DestRing!GiveBack \/ DestRing!Revoke
<1>1. /\ Indices(dest_ring) = 0..(dest_ring.nentries - 1) /\ Ring(dest_ring, DestValues)
      /\ destReg \in Indices(dest_ring)
  BY DestFacts
<1>2. /\ DestTaken /\ UNCHANGED <<destReg, nbytes>> /\ dest_ring.sw_index # dest_ring.write_index
      /\ hif' = "cleanup"
  BY DEF CE_revoke_recv_next, DestTaken, ghosts
<1>3. /\ DestType' /\ Ring(dest_ring', DestValues)
      /\ dest_ring'.nentries = dest_ring.nentries /\ dest_ring'.write_index = dest_ring.write_index
      /\ dest_ring'.sw_index = CE_RING_IDX_INCR(dest_ring.nentries, dest_ring.sw_index)
      /\ \A i \in Indices(dest_ring) : i # dest_ring.sw_index => dest_ring'.ctx[i] = dest_ring.ctx[i]
      /\ Outstanding(dest_ring) # 0
  BY <1>2, DestTakenIs
<1>4. PICK r2 : r2 = dest_ring'
  OBVIOUS
<1>5. /\ Finished(dest_ring, destReg) # 0 =>
                /\ Done(dest_ring, destReg) # <<>> /\ Done(r2, destReg) = Tail(Done(dest_ring, destReg))
                /\ Fly(r2, destReg) = Fly(dest_ring, destReg)
      /\ Finished(dest_ring, destReg) = 0 =>
                /\ Done(dest_ring, destReg) = <<>> /\ Done(r2, destReg) = Done(dest_ring, destReg)
                /\ Fly(dest_ring, destReg) # <<>> /\ Fly(r2, destReg) = Tail(Fly(dest_ring, destReg))
  <2>1. /\ Ring(dest_ring, DestValues) /\ Ring(r2, DestValues) /\ destReg \in Indices(dest_ring)
        /\ Outstanding(dest_ring) # 0 /\ r2.nentries = dest_ring.nentries
        /\ r2.write_index = dest_ring.write_index
        /\ r2.sw_index = CE_RING_IDX_INCR(dest_ring.nentries, dest_ring.sw_index)
        /\ \A i \in Indices(dest_ring) : i # dest_ring.sw_index => r2.ctx[i] = dest_ring.ctx[i]
    BY <1>1, <1>3, <1>4
  <2> QED
    BY <2>1, TakenFromRing
<1>6. DestRing!GiveBack \/ DestRing!Revoke
  BY <1>2, <1>4, <1>5 DEF DestRing!GiveBack, DestRing!Revoke
<1> QED
  BY <1>2, <1>3, <1>6 DEF DestInv

-----------------------------------------------------------------------------
(* The tasklet *)

LEMMA ServiceNext ==
  ASSUME ServiceInv, [Next]_vars
  PROVE  ServiceInv'
<1> USE RingAssumption DEF ServiceInv, FlagsInv, CountsInv, ControlInv, Engines
<1>1. CASE UNCHANGED vars
  BY <1>1 DEF vars, service, irq, ghosts
<1>2. CASE (\E n \in 1..MaxItems : CE_sendlist_send(n)) \/ CE_recv_buf_enqueue
  <2>1. UNCHANGED <<status, irq, rx_pending, service, ghosts>>
    BY <1>2 DEF CE_sendlist_send, CE_recv_buf_enqueue
  <2> QED
    BY <2>1 DEF service, irq, ghosts
<1>3. CASE TargetSent \/ TargetReceived \/ TargetWrites
  BY <1>3 DEF TargetSent, TargetReceived, TargetWrites, service, irq, ghosts
<1>4. CASE Interrupt
  BY <1>4 DEF Interrupt, hif_pci_interrupt_handler, service
<1>5. CASE SharedInterrupt
  <2>1. FlagsInv'
    BY <1>5 DEF SharedInterrupt, hif_pci_interrupt_handler, service
  <2>2. CountsInv'
    BY <1>5 DEF SharedInterrupt, hif_pci_interrupt_handler, service
  <2>3. ControlInv'
    BY <1>5 DEF SharedInterrupt, hif_pci_interrupt_handler, service
  <2> QED
    BY <2>1, <2>2, <2>3
<1>6. CASE CE_per_engine_service_any
  BY <1>6 DEF CE_per_engine_service_any, ghosts
<1>7. CASE StartService
  BY <1>7 DEF StartService, irq, ghosts
<1>8. CASE CE_completed_recv_next
  <2>1. FlagsInv'
    BY <1>8 DEF CE_completed_recv_next, Goto, irq, ghosts
  <2>2. CountsInv'
    BY <1>8 DEF CE_completed_recv_next, Goto, irq, ghosts
  <2>3. ControlInv'
    BY <1>8 DEF CE_completed_recv_next, Goto, irq, ghosts
  <2> QED
    BY <2>1, <2>2, <2>3
<1>9. CASE ForceBreak
  BY <1>9 DEF ForceBreak, LeaveService, irq, ghosts
<1>10. CASE CE_completed_send_next
  BY <1>10 DEF CE_completed_send_next, Goto, irq, ghosts, service
<1>11. CASE CE_ENGINE_INT_STATUS_CLEAR
  BY <1>11 DEF CE_ENGINE_INT_STATUS_CLEAR, Goto, irq, ghosts
<1>12. CASE Recheck
  <2>1. FlagsInv'
    BY <1>12 DEF Recheck, LeaveService, irq
  <2>2. CountsInv'
    BY <1>12 DEF Recheck, LeaveService, irq
  <2>3. ControlInv'
    BY <1>12 DEF Recheck, LeaveService, irq
  <2> QED
    BY <2>1, <2>2, <2>3
<1>13. CASE EndService
  <2>1. FlagsInv'
    BY <1>13 DEF EndService, Goto, ghosts
  <2>2. CountsInv'
    BY <1>13 DEF EndService, Goto, ghosts
  <2>3. ControlInv'
    BY <1>13 DEF EndService, Goto, ghosts
  <2> QED
    BY <2>1, <2>2, <2>3
<1>14. CASE EnableInterrupts
  <2>1. FlagsInv'
    BY <1>14 DEF EnableInterrupts, Goto, ghosts
  <2>2. CountsInv'
    BY <1>14 DEF EnableInterrupts, Goto, ghosts
  <2>3. ControlInv'
    BY <1>14 DEF EnableInterrupts, Goto, ghosts
  <2> QED
    BY <2>1, <2>2, <2>3
<1>15. CASE HIFStop
  <2>1. FlagsInv'
    BY <1>15 DEF HIFStop, service
  <2>2. CountsInv'
    BY <1>15 DEF HIFStop, service
  <2>3. ControlInv'
    BY <1>15 DEF HIFStop, service
  <2> QED
    BY <2>1, <2>2, <2>3
<1>16. CASE Cleanup
  BY <1>16 DEF Cleanup, CE_revoke_recv_next, CE_cancel_send_next, service, irq, ghosts
<1>17. CASE LoadRestartOrUnload
  BY <1>17 DEF LoadRestartOrUnload, service, irq
<1> QED
  BY <1>1, <1>2, <1>3, <1>4, <1>5, <1>6, <1>7, <1>8, <1>9, <1>10, <1>11, <1>12, <1>13, <1>14,
     <1>15, <1>16, <1>17 DEF Next, Target, Tasklet

-----------------------------------------------------------------------------
(* Invariance *)

LEMMA InitInv ==
  ASSUME Init
  PROVE  /\ Inv
         /\ Done(src_ring, srcReg.read) = <<>> /\ Fly(src_ring, srcReg.read) = <<>>
         /\ Done(dest_ring, destReg) = <<>> /\ Fly(dest_ring, destReg) = <<>>
         /\ Finished(src_ring, srcReg.read) = 0
<1>1. PICK z \in RingSizes :
         /\ src_ring = [nentries |-> z.src, sw_index |-> 0, hw_index |-> 0, write_index |-> 0,
                        ctx |-> [i \in 0..(z.src - 1) |-> NoContext]]
         /\ dest_ring = [nentries |-> z.dest, sw_index |-> 0, write_index |-> 0,
                         ctx |-> [i \in 0..(z.dest - 1) |-> NoContext]]
  BY DEF Init
<1>2. /\ z \in [src: Nat \ {0}, dest: Nat \ {0}]
      /\ srcReg = [write |-> 0, read |-> 0] /\ destReg = 0 /\ nbytes = {}
  BY RingAssumption DEF Init
<1>3. /\ z.src \in Nat \ {0} /\ z.dest \in Nat \ {0} /\ 0 \in 0..(z.src - 1) /\ 0 \in 0..(z.dest - 1)
      /\ z = [src |-> z.src, dest |-> z.dest]
  BY <1>2
<1>4. /\ src_ring.nentries = z.src /\ src_ring.sw_index = 0 /\ src_ring.hw_index = 0
      /\ src_ring.write_index = 0 /\ src_ring.ctx = [i \in 0..(z.src - 1) |-> NoContext]
      /\ dest_ring.nentries = z.dest /\ dest_ring.sw_index = 0 /\ dest_ring.write_index = 0
      /\ dest_ring.ctx = [i \in 0..(z.dest - 1) |-> NoContext]
      /\ srcReg.read = 0 /\ srcReg.write = 0
  BY <1>1, <1>2
<1>5. SizeInv
  BY <1>3, <1>4 DEF SizeInv
<1>6. Ring(src_ring, SrcValues) /\ Ring(dest_ring, DestValues)
      /\ Indices(src_ring) = 0..(z.src - 1) /\ Indices(dest_ring) = 0..(z.dest - 1)
  BY <1>3, <1>4 DEF Ring, Indices, SrcValues, DestValues
<1>7. SrcType /\ DestType
  BY <1>1, <1>2, <1>3, <1>4, <1>6 DEF SrcType, DestType
<1>8. CE_RING_DELTA(z.src, 0, 0) = 0 /\ CE_RING_DELTA(z.dest, 0, 0) = 0
  BY <1>3, DeltaNat
<1>9. /\ Outstanding(src_ring) = 0 /\ Unread(src_ring, srcReg.read) = 0
      /\ Outstanding(dest_ring) = 0 /\ Unread(dest_ring, destReg) = 0
  BY <1>2, <1>4, <1>8 DEF Outstanding, Unread
<1>10. /\ Finished(src_ring, srcReg.read) = 0 /\ Flying(src_ring, srcReg.read) = 0
       /\ Finished(dest_ring, destReg) = 0 /\ Flying(dest_ring, destReg) = 0
  BY <1>9 DEF Finished, Flying
<1>11. SrcInv /\ DestInv
  BY <1>2, <1>4, <1>8, <1>9, <1>10 DEF SrcInv, DestInv
<1>12. ServiceInv
  <2>1. FlagsInv
    BY DEF Init, FlagsInv
  <2>2. CountsInv
    BY RingAssumption DEF Init, CountsInv
  <2>3. ControlInv
    BY DEF Init, ControlInv, Engines
  <2> QED
    BY <2>1, <2>2, <2>3 DEF ServiceInv
<1>13. /\ Done(src_ring, srcReg.read) \in Seq(SrcValues) /\ Len(Done(src_ring, srcReg.read)) = 0
       /\ Fly(src_ring, srcReg.read) \in Seq(SrcValues) /\ Len(Fly(src_ring, srcReg.read)) = 0
  <2>1. srcReg.read \in Indices(src_ring) /\ Ring(src_ring, SrcValues)
    BY <1>7 DEF SrcType
  <2>2. /\ Done(src_ring, srcReg.read) \in Seq(SrcValues)
        /\ Len(Done(src_ring, srcReg.read)) = Finished(src_ring, srcReg.read)
        /\ Fly(src_ring, srcReg.read) \in Seq(SrcValues)
        /\ Len(Fly(src_ring, srcReg.read)) = Flying(src_ring, srcReg.read)
    BY <2>1, EntriesAre
  <2> QED
    BY <1>10, <2>2
<1>14. /\ Done(dest_ring, destReg) \in Seq(DestValues) /\ Len(Done(dest_ring, destReg)) = 0
       /\ Fly(dest_ring, destReg) \in Seq(DestValues) /\ Len(Fly(dest_ring, destReg)) = 0
  <2>1. destReg \in Indices(dest_ring) /\ Ring(dest_ring, DestValues)
    BY <1>7 DEF DestType
  <2>2. /\ Done(dest_ring, destReg) \in Seq(DestValues)
        /\ Len(Done(dest_ring, destReg)) = Finished(dest_ring, destReg)
        /\ Fly(dest_ring, destReg) \in Seq(DestValues)
        /\ Len(Fly(dest_ring, destReg)) = Flying(dest_ring, destReg)
    BY <2>1, EntriesAre
  <2> QED
    BY <1>10, <2>2
<1>15. \A V : \A s \in Seq(V) : Len(s) = 0 => s = <<>>
  OBVIOUS
<1> QED
  BY <1>5, <1>7, <1>10, <1>11, <1>12, <1>13, <1>14, <1>15 DEF Inv

(* Every step is a step of each queue, or leaves it as it is. *)
LEMMA SrcStep ==
  ASSUME Inv, [Next]_vars
  PROVE  /\ SrcType' /\ SrcInv' /\ src_ring'.nentries = src_ring.nentries
         /\ [SrcRing!Next]_(SrcRing!vars)
<1>1. ServiceInv /\ ServiceInv'
  BY ServiceNext DEF Inv
<1>2. CASE SrcSame
  <2>1. hif' = "up" => hif = "up"
    BY <1>1, UpBefore
  <2> QED
    BY <1>2, <2>1 DEF SrcSame, Inv, SrcType, SrcInv, SrcRing!vars
<1>3. CASE \E n \in 1..MaxItems : CE_sendlist_send(n)
  BY <1>3, SrcPosted DEF SrcRing!Next, SrcRing!vars
<1>4. CASE TargetSent
  BY <1>4, SrcSent DEF SrcRing!Next
<1>5. CASE SrcServed
  BY <1>1, <1>5, SrcGivenBack DEF SrcRing!Next, ServiceInv, ControlInv
<1>6. CASE CE_cancel_send_next
  BY <1>6, SrcCancelled DEF SrcRing!Next
<1> QED
  BY <1>1, <1>2, <1>3, <1>4, <1>5, <1>6, SrcCases

LEMMA DestStep ==
  ASSUME Inv, [Next]_vars
  PROVE  /\ DestType' /\ DestInv' /\ dest_ring'.nentries = dest_ring.nentries
         /\ [DestRing!Next]_(DestRing!vars)
<1>1. ServiceInv
  BY DEF Inv
<1>2. CASE DestSame
  <2>1. hif' = "up" => hif = "up"
    BY <1>1, UpBefore
  <2> QED
    BY <1>2, <2>1 DEF DestSame, Inv, DestType, DestInv, DestRing!vars
<1>3. CASE CE_recv_buf_enqueue
  BY <1>3, DestPosted DEF DestRing!Next
<1>4. CASE TargetReceived
  BY <1>4, DestReceived DEF DestRing!Next
<1>5. CASE TargetWrites
  BY <1>5, DestWritten DEF DestRing!vars
<1>6. CASE DestServed
  BY <1>6, DestGivenBack DEF DestRing!Next
<1>7. CASE CE_revoke_recv_next
  BY <1>7, DestRevoked DEF DestRing!Next
<1> QED
  BY <1>1, <1>2, <1>3, <1>4, <1>5, <1>6, <1>7, DestCases

(* The rings and the control of the service keep to the invariant: the     *)
(* target's read index lies between the host's sw_index and write_index of *)
(* either ring while HIF is up, the cached index behind the register, and  *)
(* lengths only in descriptors the target is done with.                    *)
THEOREM Invariance == Spec => []Inv
<1>1. Init => Inv
  BY InitInv
<1>2. Inv /\ [Next]_vars => Inv'
  <2> SUFFICES ASSUME Inv, [Next]_vars PROVE Inv'
    OBVIOUS
  <2>1. ServiceInv'
    BY ServiceNext DEF Inv
  <2>2. SizeInv'
    BY SrcStep, DestStep DEF Inv, SizeInv
  <2> QED
    BY <2>1, <2>2, SrcStep, DestStep DEF Inv
<1> QED
  BY <1>1, <1>2, PTL DEF Spec

(* RingsAreQueues for every length of the rings and of the sendlists: the  *)
(* source and the destination ring of copy_engine.c implement the queue    *)
(* DescriptorRing.tla describes, whatever the target, the tasklet and the  *)
(* senders do and wherever HIFStop cuts in.                                *)
THEOREM RingsImplementQueues == Spec => RingsAreQueues
<1>1. Init => SrcRing!Init /\ DestRing!Init
  <2> SUFFICES ASSUME Init PROVE SrcRing!Init /\ DestRing!Init
    OBVIOUS
  <2>1. SizeInv
    BY InitInv DEF Inv
  <2>2. src_ring.nentries - 1 \in Nat /\ dest_ring.nentries - 1 \in Nat
    BY <2>1, RingContexts
  <2> QED
    BY <2>2, InitInv DEF SrcRing!Init, DestRing!Init
<1>2. Inv /\ [Next]_vars => [SrcRing!Next]_(SrcRing!vars) /\ [DestRing!Next]_(DestRing!vars)
  BY SrcStep, DestStep
<1> QED
  BY <1>1, <1>2, Invariance, PTL DEF Spec, RingsAreQueues, SrcRing!Spec, DestRing!Spec

-----------------------------------------------------------------------------
(* The tasklet keeps its promises *)

(* TypeOK, the type of every variable: the indices stay in their rings and *)
(* the counters of the service below their thresholds.                     *)
THEOREM TypeCorrect == Spec => []TypeOK
<1>1. Inv => TypeOK
  BY SMTT(30) DEF Inv, TypeOK, SrcType, DestType, Ring, Indices, SrcValues, DestValues,
         ServiceInv, FlagsInv, CountsInv, ControlInv
<1> QED
  BY <1>1, Invariance, PTL

LEMMA ResetStays ==
  ASSUME [Next]_vars, reset
  PROVE  reset'
BY DEF Next, vars, ghosts, Target, Tasklet, Cleanup, CE_sendlist_send, CE_recv_buf_enqueue,
       TargetSent, TargetReceived, TargetWrites, Interrupt, SharedInterrupt, hif_pci_interrupt_handler,
       CE_per_engine_service_any, StartService, CE_completed_recv_next, ForceBreak,
       CE_completed_send_next, CE_ENGINE_INT_STATUS_CLEAR, Recheck, EndService, EnableInterrupts,
       LoadRestartOrUnload, HIFStop, CE_revoke_recv_next, CE_cancel_send_next

LEMMA ResponsibleNext ==
  ASSUME Inv, TaskletResponsible, [Next]_vars
  PROVE  TaskletResponsible'
<1> SUFFICES ASSUME hif' = "up", ~reset', pc' = "idle", ~gaveUp'
             PROVE  (~enabled => scheduled)' /\ (rx_pending # {} => scheduled)'
  BY DEF TaskletResponsible
<1> ServiceInv
  BY DEF Inv
<1>a. hif = "up" /\ ~reset
  BY UpBefore, ResetStays
<1>b. pc = "idle" /\ ~gaveUp => (~enabled => scheduled) /\ (rx_pending # {} => scheduled)
  BY <1>a DEF TaskletResponsible
<1>1. CASE UNCHANGED vars
  BY <1>1, <1>b DEF vars, service, irq, ghosts
<1>2. CASE (\E n \in 1..MaxItems : CE_sendlist_send(n)) \/ CE_recv_buf_enqueue \/ Target
  <2>1. UNCHANGED <<irq, rx_pending, service, ghosts>>
    BY <1>2 DEF CE_sendlist_send, CE_recv_buf_enqueue, Target, TargetSent, TargetReceived, TargetWrites
  <2> QED
    BY <2>1, <1>b DEF service, irq, ghosts
<1>3. CASE Interrupt \/ SharedInterrupt
  BY <1>3, <1>b DEF Interrupt, SharedInterrupt, hif_pci_interrupt_handler, service
<1>4. CASE CE_per_engine_service_any \/ StartService \/ ForceBreak
  BY <1>4 DEF CE_per_engine_service_any, StartService, ForceBreak, LeaveService
<1>5. CASE CE_completed_recv_next \/ CE_completed_send_next
  BY <1>5 DEF CE_completed_recv_next, CE_completed_send_next, Goto, service
<1>6. CASE CE_ENGINE_INT_STATUS_CLEAR \/ Recheck
  BY <1>6 DEF CE_ENGINE_INT_STATUS_CLEAR, Recheck, Goto, LeaveService
<1>7. CASE EndService
  BY <1>7, <1>a DEF EndService, Goto, ServiceInv, FlagsInv
<1>8. CASE EnableInterrupts
  BY <1>8, <1>a DEF EnableInterrupts, Goto, ServiceInv, ControlInv
<1>9. CASE HIFStop \/ Cleanup
  BY <1>9, <1>a DEF HIFStop, Cleanup, CE_revoke_recv_next, CE_cancel_send_next
<1>10. CASE LoadRestartOrUnload
  BY <1>10, <1>b DEF LoadRestartOrUnload, irq, service
<1> QED
  BY <1>1, <1>2, <1>3, <1>4, <1>5, <1>6, <1>7, <1>8, <1>9, <1>10 DEF Next, Tasklet

(* TaskletResponsible: between two runs of wlan_tasklet the interrupts are *)
(* on or another run is scheduled, and an engine that was left rx_pending  *)
(* has its run, whatever EndService, the handler, a shared line and a load *)
(* or restart interleave to; only a run that ended during a load, an       *)
(* unload or a restart, with an engine rx_pending, may leave neither.      *)
THEOREM TaskletAnswers == Spec => []TaskletResponsible
<1>1. Init => TaskletResponsible
  BY DEF Init, TaskletResponsible
<1>2. Inv /\ TaskletResponsible /\ [Next]_vars => TaskletResponsible'
  BY ResponsibleNext
<1> QED
  BY <1>1, <1>2, Invariance, PTL DEF Spec

(* Who answers for finished transfers; the transfers themselves. *)
SrcAnswered  == "src" \in status \/ InService("src") \/ logged
DestAnswered == "dest" \in status \cup rx_pending \/ InService("dest")

SrcLeft == \E k \in 1..Finished(src_ring, srcReg.read) :
               Entry(src_ring, k) # CE_SENDLIST_ITEM_CTXT

LEMMA AnsweredNext ==
  ASSUME ServiceInv, [Next]_vars, hif' = "up", ~reset'
  PROVE  /\ SrcAnswered => SrcAnswered' \/ (~(CE_send_entries_done_nolock > 0) /\ SrcSame)
         /\ DestAnswered => DestAnswered' \/ (~(CE_recv_entries_done_nolock > 0) /\ DestSame)
         /\ TargetReceived \/ DestServed => DestAnswered'
         /\ SrcServed => SrcAnswered'
<1> USE DEF ServiceInv, ControlInv, Engines, SrcAnswered, DestAnswered, InService
<1>a. hif = "up" /\ ~reset
  BY UpBefore, ResetStays
<1>1. CASE UNCHANGED vars
  BY <1>1 DEF vars, service, irq, ghosts, rings, DestServed, SrcServed, TargetReceived
<1>2. CASE (\E n \in 1..MaxItems : CE_sendlist_send(n)) \/ CE_recv_buf_enqueue \/ Target
           \/ Interrupt \/ SharedInterrupt
  <2>1. /\ UNCHANGED <<rx_pending, service, logged>> /\ status \subseteq status'
        /\ TargetReceived => "dest" \in status'
    BY <1>2 DEF CE_sendlist_send, CE_recv_buf_enqueue, Target, TargetSent, TargetReceived, TargetWrites,
                Interrupt, SharedInterrupt, hif_pci_interrupt_handler, ghosts
  <2> QED
    BY <2>1 DEF service, DestServed, SrcServed
<1>3. CASE CE_per_engine_service_any
  BY <1>3 DEF CE_per_engine_service_any, ghosts, DestServed, SrcServed, TargetReceived
<1>4. CASE StartService
  BY <1>4 DEF StartService, ghosts, DestServed, SrcServed, TargetReceived
<1>5. CASE CE_completed_recv_next
  BY <1>5 DEF CE_completed_recv_next, Goto, ghosts, DestServed, SrcServed, TargetReceived
<1>6. CASE ForceBreak
  BY <1>6 DEF ForceBreak, LeaveService, ghosts, DestServed, SrcServed, TargetReceived
<1>7. CASE CE_completed_send_next
  BY <1>7 DEF CE_completed_send_next, Goto, service, ghosts, DestServed, SrcServed, TargetReceived
<1>8. CASE CE_ENGINE_INT_STATUS_CLEAR
  BY <1>8 DEF CE_ENGINE_INT_STATUS_CLEAR, Goto, ghosts, DestServed, SrcServed, TargetReceived
<1>9. CASE Recheck
  BY <1>9 DEF Recheck, LeaveService, rings, SrcSame, DestSame, DestServed, SrcServed, TargetReceived
<1>10. CASE EndService
  BY <1>10 DEF EndService, Goto, ghosts, DestServed, SrcServed, TargetReceived
<1>11. CASE EnableInterrupts
  BY <1>11 DEF EnableInterrupts, Goto, ghosts, DestServed, SrcServed, TargetReceived
<1>12. CASE HIFStop \/ Cleanup
  BY <1>12, <1>a DEF HIFStop, Cleanup, CE_revoke_recv_next, CE_cancel_send_next
<1>13. CASE LoadRestartOrUnload
  BY <1>13 DEF LoadRestartOrUnload, service, DestServed, SrcServed, TargetReceived
<1> QED
  BY <1>1, <1>2, <1>3, <1>4, <1>5, <1>6, <1>7, <1>8, <1>9, <1>10, <1>11, <1>12, <1>13 DEF Next, Tasklet

(* Finished sends are seen in the queue the source ring implements. *)
DoneLeft == \E k \in 1..Len(Done(src_ring, srcReg.read)) :
                Done(src_ring, srcReg.read)[k] # CE_SENDLIST_ITEM_CTXT

LEMMA LeftIsDone ==
  Inv => (SrcLeft <=> DoneLeft)
<1> SUFFICES ASSUME Inv PROVE SrcLeft <=> DoneLeft
  OBVIOUS
<1>1. Ring(src_ring, SrcValues) /\ srcReg.read \in Indices(src_ring)
  BY SrcFacts
<1>2. /\ Len(Done(src_ring, srcReg.read)) = Finished(src_ring, srcReg.read)
      /\ \A k \in 1..Finished(src_ring, srcReg.read) :
             Done(src_ring, srcReg.read)[k] = Entry(src_ring, k)
  BY <1>1, EntriesAre
<1> QED
  BY <1>2 DEF SrcLeft, DoneLeft

LEMMA LeftNext ==
  ASSUME Inv, Inv', [Next]_vars, hif' = "up", SrcLeft'
  PROVE  SrcLeft \/ SrcServed \/ (TargetSent /\ "src" \in status')
<1> DEFINE D == Done(src_ring, srcReg.read)
<1>1. ServiceInv /\ hif = "up"
  BY UpBefore DEF Inv
<1>2. CASE SrcSame
  BY <1>2 DEF SrcSame, SrcLeft
<1>3. CASE \E n \in 1..MaxItems : CE_sendlist_send(n)
  <2>1. D' = D
    BY <1>3, SrcPosted
  <2>2. \E k \in 1..Len(D') : D'[k] # CE_SENDLIST_ITEM_CTXT
    <3>1. DoneLeft'
      BY LeftIsDone, PTL
    <3> QED
      BY <3>1 DEF DoneLeft
  <2> QED
    BY <2>1, <2>2, LeftIsDone DEF DoneLeft
<1>4. CASE TargetSent
  <2>1. D' = Append(D, Head(Fly(src_ring, srcReg.read)))
    BY <1>4, SrcSent DEF SrcRing!Finish
  <2>2. Head(Fly(src_ring, srcReg.read)) = src_ring.ctx[srcReg.read]
    BY <1>4, SrcSent
  <2>3. PICK h : h = src_ring.ctx[srcReg.read]
    OBVIOUS
  <2>4. h # CE_SENDLIST_ITEM_CTXT => "src" \in status'
    BY <1>4, <2>3 DEF TargetSent
  <2>5. \E k \in 1..Len(D') : D'[k] # CE_SENDLIST_ITEM_CTXT
    <3>1. DoneLeft'
      BY LeftIsDone, PTL
    <3> QED
      BY <3>1 DEF DoneLeft
  <2>6. D \in Seq(SrcValues) /\ h \in SrcValues
    <3>1. Ring(src_ring, SrcValues) /\ srcReg.read \in Indices(src_ring)
      BY SrcFacts
    <3> QED
      BY <2>3, <3>1, EntriesAre DEF Ring
  <2> HIDE DEF D
  <2>7. PICK k \in 1..Len(Append(D, h)) : Append(D, h)[k] # CE_SENDLIST_ITEM_CTXT
    BY <2>1, <2>2, <2>3, <2>5
  <2>8. (k \in 1..Len(D) /\ D[k] # CE_SENDLIST_ITEM_CTXT) \/ h # CE_SENDLIST_ITEM_CTXT
    BY <2>6, <2>7
  <2> QED
    BY <1>4, <2>4, <2>8, LeftIsDone DEF D, DoneLeft
<1>5. CASE SrcServed
  BY <1>5
<1>6. CASE CE_cancel_send_next
  BY <1>1, <1>6 DEF CE_cancel_send_next
<1> QED
  BY <1>1, <1>2, <1>3, <1>4, <1>5, <1>6, SrcCases

LEMMA ReceivedNext ==
  ASSUME Inv, [Next]_vars, hif' = "up", CE_recv_entries_done_nolock' > 0
  PROVE  CE_recv_entries_done_nolock > 0 \/ DestServed \/ TargetReceived
<1>1. ServiceInv /\ hif = "up"
  BY UpBefore DEF Inv
<1>2. CASE DestSame
  BY <1>2 DEF DestSame, CE_recv_entries_done_nolock
<1>3. CASE CE_recv_buf_enqueue
  BY <1>3 DEF CE_recv_buf_enqueue, CE_recv_entries_done_nolock, Inv, DestType
<1>4. CASE TargetWrites
  BY <1>4 DEF TargetWrites, CE_recv_entries_done_nolock
<1>5. CASE CE_revoke_recv_next
  BY <1>1, <1>5 DEF CE_revoke_recv_next
<1> QED
  BY <1>1, <1>2, <1>3, <1>4, <1>5, DestCases

LEMMA ForgottenNext ==
  ASSUME Inv, Inv', NothingForgotten, [Next]_vars
  PROVE  NothingForgotten'
<1> SUFFICES ASSUME hif' = "up", ~reset'
             PROVE  /\ CE_recv_entries_done_nolock' > 0 => DestAnswered'
                    /\ SrcLeft' => SrcAnswered'
  BY DEF NothingForgotten, DestAnswered, SrcAnswered, SrcLeft
<1>1. ServiceInv /\ hif = "up" /\ ~reset
  BY UpBefore, ResetStays DEF Inv
<1>2. /\ CE_recv_entries_done_nolock > 0 => DestAnswered
      /\ SrcLeft => SrcAnswered
  BY <1>1 DEF NothingForgotten, DestAnswered, SrcAnswered, SrcLeft
<1>3. CE_recv_entries_done_nolock' > 0 => DestAnswered'
  <2> SUFFICES ASSUME CE_recv_entries_done_nolock' > 0 PROVE DestAnswered'
    OBVIOUS
  <2>1. CASE TargetReceived \/ DestServed
    BY <1>1, <2>1, AnsweredNext
  <2>2. CASE CE_recv_entries_done_nolock > 0
    BY <1>1, <1>2, <2>2, AnsweredNext
  <2> QED
    BY <2>1, <2>2, ReceivedNext
<1>4. SrcLeft' => SrcAnswered'
  <2> SUFFICES ASSUME SrcLeft' PROVE SrcAnswered'
    OBVIOUS
  <2>1. CASE SrcServed
    BY <1>1, <2>1, AnsweredNext
  <2>2. CASE "src" \in status'
    BY <2>2 DEF SrcAnswered
  <2>3. CASE SrcLeft
    <3>1. CE_send_entries_done_nolock > 0
      <4>1. Finished(src_ring, srcReg.read) = CE_send_entries_done_nolock
        BY <1>1, SrcFacts DEF CE_send_entries_done_nolock
      <4>2. Finished(src_ring, srcReg.read) \in Nat
        BY SrcFacts, CountsAre
      <4>3. Finished(src_ring, srcReg.read) > 0
        BY <2>3, <4>2 DEF SrcLeft
      <4> QED
        BY <4>1, <4>3
    <3> QED
      BY <1>1, <1>2, <2>3, <3>1, AnsweredNext
  <2> QED
    BY <2>1, <2>2, <2>3, LeftNext
<1> QED
  BY <1>3, <1>4

(* NothingForgotten: a transfer that the target finished between the read  *)
(* of an index and the clearing of the interrupt, or that the service left *)
(* behind at its thresholds, still has its interrupt pending or a service  *)
(* that is going on or will come; only send completions may be left, and   *)
(* then the loop was logged.                                               *)
THEOREM NoneForgotten == Spec => []NothingForgotten
<1>1. Init => NothingForgotten
  <2> SUFFICES ASSUME Init PROVE NothingForgotten
    OBVIOUS
  <2>1. Finished(src_ring, srcReg.read) = 0
    BY InitInv
  <2>2. ~(CE_recv_entries_done_nolock > 0)
    <3>1. Inv
      BY InitInv
    <3>2. dest_ring.sw_index = destReg
      BY DEF Init
    <3>3. CE_RING_DELTA(dest_ring.nentries, dest_ring.sw_index, destReg) = 0
      BY <3>1, <3>2, DestFacts, DeltaNat
    <3> QED
      BY <3>3 DEF CE_recv_entries_done_nolock
  <2> QED
    BY <2>1, <2>2 DEF NothingForgotten
<1>2. Inv /\ Inv' /\ NothingForgotten /\ [Next]_vars => NothingForgotten'
  BY ForgottenNext
<1> QED
  BY <1>1, <1>2, Invariance, PTL DEF Spec

=============================================================================
