------------------------ MODULE HIFCompletionProofs -------------------------
(***************************************************************************)
(* hif_completion_thread, proved for any number of contexts, rings,        *)
(* buffers and fragments.                                                  *)
(*                                                                         *)
(* One instance (ThreadInv).  A context may pass only if it finds the      *)
(* count at 1, and that alone does not tell that nobody is inside.  The    *)
(* count and the contexts holding a decrement have to add up (to exactly   *)
(* 1, or to less once a target reset made the thread return without giving *)
(* its turn back); then a count of 1 means no such context.                *)
(*                                                                         *)
(* Nothing pending (WorkInv).  With one tasklet, what is in the queue has  *)
(* a tasklet that has not yet passed the place where it looks there.       *)
(*                                                                         *)
(* No entry and no completion state lost (CountInv).  The two sums are     *)
(* inductive together: a completion state is taken only while one is free, *)
(* and that one is free follows from the entries of the ring.  Both count  *)
(* completions in queues, hence the lemmas on how counts change.           *)
(*                                                                         *)
(* In order (OrderInv).  The hands of the thread, the pending queue, the   *)
(* local queue and the ring, read in this order, hold the transfers of a   *)
(* pipe as they finished, and each step moves one to the place before.     *)
(***************************************************************************)
EXTENDS HIFCompletion, FiniteSetTheorems, SequenceTheorems, TLAPS

(* The inductive invariant. *)
ThreadInv ==
    /\ pc \in [Contexts -> Places]
    /\ hif_thread_idle \in Int
    /\ SingleInstance

(* Turns is finite: only contexts take turns. *)
LEMMA TurnsFinite == IsFiniteSet(Turns) /\ Cardinality(Turns) \in Nat
<1>1. Turns \subseteq Contexts
  BY DEF Turns, Running
<1>2. IsFiniteSet(Turns)
  BY <1>1, PipesAssumption, FS_Subset
<1> QED
  BY <1>2, FS_CardinalityType

(* A step that moves no context in or out of the thread keeps the invariant. *)
LEMMA SameTurns ==
  ASSUME ThreadInv, pc' \in [Contexts -> Places], Running' = Running, Turns' = Turns,
         hif_thread_idle' = hif_thread_idle, reset => reset'
  PROVE  ThreadInv'
BY DEF ThreadInv, SingleInstance

(* A step of context c that stays on the same side of both borders. *)
LEMMA MoveWithin ==
  ASSUME ThreadInv, NEW c \in Contexts, NEW w,
         pc' = [pc EXCEPT ![c] = w],
         \/ /\ pc[c] \in {"idle", "tx", "rx", "append", "alert"}
            /\ w \in {"idle", "tx", "rx", "append", "alert"}
         \/ /\ pc[c] \in {"start", "loop", "post", "deliver", "recycle"}
            /\ w \in {"start", "loop", "post", "deliver", "recycle"},
         hif_thread_idle' = hif_thread_idle, reset => reset'
  PROVE  ThreadInv'
<1>1. pc' \in [Contexts -> Places]
  BY DEF ThreadInv, Places
<1>2. Running' = Running /\ Turns' = Turns
  BY DEF ThreadInv, Running, Turns
<1> QED
  BY <1>1, <1>2, SameTurns

(* Only a context that holds a turn gives one back. *)
LEMMA GiveTurnBack ==
  ASSUME ThreadInv, NEW c \in Contexts, c \in Turns, pc' = [pc EXCEPT ![c] = "idle"],
         \/ hif_thread_idle' = hif_thread_idle + 1 /\ reset' = reset
         \/ hif_thread_idle' = hif_thread_idle /\ reset /\ reset'
  PROVE  ThreadInv'
<1>1. pc' \in [Contexts -> Places] /\ hif_thread_idle' \in Int
  BY DEF ThreadInv, Places
<1>2. Turns' = Turns \ {c} /\ Running' \subseteq Running
  BY DEF ThreadInv, Running, Turns
<1>3. Cardinality(Turns') = Cardinality(Turns) - 1
  BY <1>2, TurnsFinite, FS_RemoveElement
<1> QED
  BY <1>1, <1>2, <1>3, TurnsFinite DEF ThreadInv, SingleInstance

(* The decrement-and-test: a context gets in only if no context holds a turn. *)
LEMMA TakeTurnSafe ==
  ASSUME ThreadInv, NEW c \in Contexts, TakeTurn(c)
  PROVE  ThreadInv'
<1> DEFINE w == IF hif_thread_idle - 1 = 0 THEN "start" ELSE "unlucky"
<1>1. /\ pc[c] = "alert" /\ pc' = [pc EXCEPT ![c] = w]
      /\ hif_thread_idle' = hif_thread_idle - 1 /\ reset' = reset
  BY DEF TakeTurn, Goto, fwVars
<1>2. pc' \in [Contexts -> Places] /\ hif_thread_idle' \in Int
  BY <1>1 DEF ThreadInv, Places
<1>3. c \notin Turns /\ Turns' = Turns \cup {c}
  BY <1>1 DEF ThreadInv, Running, Turns
<1>4. Cardinality(Turns') = Cardinality(Turns) + 1
  BY <1>3, TurnsFinite, FS_AddElement
<1>5. \A d, e \in Running' : d = e
  <2>1. CASE hif_thread_idle = 1
    <3>1. Cardinality(Turns) = 0
      BY <2>1, TurnsFinite DEF ThreadInv, SingleInstance
    <3>2. Turns = {}
      BY <3>1, TurnsFinite, FS_EmptySet
    <3> QED
      BY <1>3, <3>2 DEF Turns
  <2>2. CASE hif_thread_idle # 1
    <3>1. w = "unlucky"
      BY <2>2 DEF ThreadInv
    <3>2. Running' = Running
      BY <1>1, <3>1 DEF ThreadInv, Running
    <3> QED
      BY <3>2 DEF ThreadInv, SingleInstance
  <2> QED
    BY <2>1, <2>2
<1> QED
  BY <1>1, <1>2, <1>4, <1>5, TurnsFinite DEF ThreadInv, SingleInstance

LEMMA InitThread == Init => ThreadInv
<1> SUFFICES ASSUME Init PROVE ThreadInv
  OBVIOUS
<1>1. pc \in [Contexts -> Places] /\ hif_thread_idle = 1
  BY DEF Init, Places
<1>2. Turns = {} /\ Running = {}
  BY DEF Init, Running, Turns
<1>3. Cardinality(Turns) = 0
  BY <1>2, FS_EmptySet
<1> QED
  BY <1>1, <1>2, <1>3 DEF ThreadInv, SingleInstance

(* Every step of the HIF layer keeps the invariant. *)
LEMMA NextThread == ThreadInv /\ [Next]_vars => ThreadInv'
<1> SUFFICES ASSUME ThreadInv, [Next]_vars PROVE ThreadInv'
  OBVIOUS
<1>1. ASSUME NEW b \in TxBufs, HIFSend_head(b) PROVE ThreadInv'
  <2>1. UNCHANGED <<pc, hif_thread_idle, reset>>
    BY <1>1 DEF HIFSend_head, thread, fwVars
  <2> QED
    BY <2>1, SameTurns DEF ThreadInv, Running, Turns
<1>2. CASE CE_send_finished \/ CE_recv_finished
  <2>1. UNCHANGED <<pc, hif_thread_idle, reset>>
    BY <1>2 DEF CE_send_finished, CE_recv_finished, thread, fwVars
  <2> QED
    BY <2>1, SameTurns DEF ThreadInv, Running, Turns
<1>3. CASE HIF_fw_interrupt_handler
  BY <1>3, MoveWithin, PipesAssumption DEF HIF_fw_interrupt_handler, Goto
<1>4. ASSUME NEW c \in Contexts, Service(c) PROVE ThreadInv'
  <2>1. CASE HIF_PCI_CE_send_done(c)
    <3>1. PICK w \in {"tx", "append", "idle"} : pc' = [pc EXCEPT ![c] = w]
      BY <2>1 DEF HIF_PCI_CE_send_done, Park, Goto
    <3>2. pc[c] \in {"idle", "tx"} /\ UNCHANGED <<hif_thread_idle, reset>>
      BY <2>1 DEF HIF_PCI_CE_send_done, fwVars
    <3> QED
      BY <3>1, <3>2, MoveWithin
  <2>2. CASE HIF_PCI_CE_recv_data(c)
    <3>1. PICK w \in {"rx", "append", "idle"} : pc' = [pc EXCEPT ![c] = w]
      BY <2>2 DEF HIF_PCI_CE_recv_data, Park, Goto
    <3>2. pc[c] \in {"idle", "rx"} /\ UNCHANGED <<hif_thread_idle, reset>>
      BY <2>2 DEF HIF_PCI_CE_recv_data, fwVars
    <3> QED
      BY <3>1, <3>2, MoveWithin
  <2>3. CASE LeaveLoop(c)
    <3>1. PICK w \in {"idle", "append"} : pc' = [pc EXCEPT ![c] = w]
      BY <2>3 DEF LeaveLoop, Goto
    <3>2. pc[c] \in {"tx", "rx"} /\ UNCHANGED <<hif_thread_idle, reset>>
      BY <2>3 DEF LeaveLoop, fwVars
    <3> QED
      BY <3>1, <3>2, MoveWithin
  <2>4. CASE AppendPending(c)
    <3>1. PICK w \in {"alert", "idle"} : pc' = [pc EXCEPT ![c] = w]
      BY <2>4 DEF AppendPending, Goto
    <3>2. pc[c] = "append" /\ UNCHANGED <<hif_thread_idle, reset>>
      BY <2>4 DEF AppendPending, fwVars
    <3> QED
      BY <3>1, <3>2, MoveWithin
  <2> QED
    BY <1>4, <2>1, <2>2, <2>3, <2>4 DEF Service
<1>5. ASSUME NEW c \in Contexts, Thread(c) PROVE ThreadInv'
  <2>1. CASE TakeTurn(c)
    BY <2>1, TakeTurnSafe
  <2>2. CASE NotTheLuckyOne(c)
    <3>1. c \in Turns
      BY <2>2 DEF NotTheLuckyOne, Turns
    <3> QED
      BY <2>2, <3>1, GiveTurnBack DEF NotTheLuckyOne, Goto, fwVars
  <2>3. CASE HandleFwEvent(c)
    <3>1. UNCHANGED <<pc, hif_thread_idle>> /\ reset'
      BY <2>3 DEF HandleFwEvent, thread
    <3> QED
      BY <3>1, SameTurns DEF ThreadInv, Running, Turns
  <2>4. CASE StartThread(c) /\ reset
    <3>1. c \in Turns
      BY <2>4 DEF StartThread, Turns, Running
    <3> QED
      BY <2>4, <3>1, GiveTurnBack DEF StartThread, Goto, fwVars
  <2>5. CASE StartThread(c) /\ ~reset
    BY <2>5, MoveWithin DEF StartThread, Goto, fwVars
  <2>6. CASE Dequeue(c)
    <3>1. PICK w \in {"post", "deliver"} : pc' = [pc EXCEPT ![c] = w]
      BY <2>6 DEF Dequeue, Goto
    <3>2. pc[c] = "loop" /\ UNCHANGED <<hif_thread_idle, reset>>
      BY <2>6 DEF Dequeue, fwVars
    <3> QED
      BY <3>1, <3>2, MoveWithin
  <2>7. CASE PostRecvBuffer(c)
    <3>1. UNCHANGED <<pc, hif_thread_idle, reset>>
      BY <2>7 DEF PostRecvBuffer, thread, fwVars
    <3> QED
      BY <3>1, SameTurns DEF ThreadInv, Running, Turns
  <2>8. CASE PostRecvEnd(c)
    BY <2>8, MoveWithin DEF PostRecvEnd, Goto, fwVars
  <2>9. CASE Deliver(c)
    BY <2>9, MoveWithin DEF Deliver, Goto, fwVars
  <2>10. CASE Recycle(c)
    BY <2>10, MoveWithin DEF Recycle, Goto, fwVars
  <2>11. CASE LeaveThread(c)
    <3>1. c \in Turns
      BY <2>11 DEF LeaveThread, Turns, Running
    <3> QED
      BY <2>11, <3>1, GiveTurnBack DEF LeaveThread, Goto, fwVars
  <2> QED
    BY <1>5, <2>1, <2>2, <2>3, <2>4, <2>5, <2>6, <2>7, <2>8, <2>9, <2>10, <2>11 DEF Thread
<1>6. CASE UNCHANGED vars
  <2>1. UNCHANGED <<pc, hif_thread_idle, reset>>
    BY <1>6 DEF vars, thread, fwVars
  <2> QED
    BY <2>1, SameTurns DEF ThreadInv, Running, Turns
<1> QED
  BY <1>1, <1>2, <1>3, <1>4, <1>5, <1>6 DEF Next

(* hif_completion_thread, "Allow only one instance of the thread to execute *)
(* at a time": for any number of contexts and any interleaving, at most one *)
(* is past the test, and hif_thread_idle accounts for every context that    *)
(* decremented it until a target reset.                                     *)
THEOREM OneInstance == Spec => []SingleInstance
<1>1. ThreadInv => SingleInstance
  BY DEF ThreadInv
<1> QED
  BY <1>1, InitThread, NextThread, PTL DEF Spec

-----------------------------------------------------------------------------
(***************************************************************************)
(* Nothing is left behind, where wlan_tasklet services all engines.  Work  *)
(* for the thread exists only from the alert on, and with one context the  *)
(* count is 1 at the test: the context that queued the work gets in.       *)
(***************************************************************************)
WorkInv == ~reset =>
    /\ completion_pendingq # <<>> =>
           pc[Tasklet] \in {"alert", "start", "loop", "post", "deliver", "recycle"}
    /\ pc[Tasklet] # "unlucky"

LEMMA NextWork ==
  ASSUME Contexts = {Tasklet}, ThreadInv, WorkInv, [Next]_vars
  PROVE  WorkInv'
<1> USE DEF WorkInv
<1>0. pc \in [{Tasklet} -> Places]
  BY DEF ThreadInv
<1>1. CASE \/ \E b \in TxBufs : HIFSend_head(b)
           \/ CE_send_finished \/ CE_recv_finished \/ UNCHANGED vars
  BY <1>1 DEF HIFSend_head, CE_send_finished, CE_recv_finished, vars, fwVars, thread
<1>2. CASE HIF_fw_interrupt_handler
  BY <1>0, <1>2 DEF HIF_fw_interrupt_handler, Goto
<1>3. CASE Service(Tasklet)
  <2>1. CASE HIF_PCI_CE_send_done(Tasklet) \/ HIF_PCI_CE_recv_data(Tasklet) \/ LeaveLoop(Tasklet)
    <3>1. pc[Tasklet] \in {"idle", "tx", "rx"}
          /\ UNCHANGED <<completion_pendingq, reset>>
      BY <2>1 DEF HIF_PCI_CE_send_done, HIF_PCI_CE_recv_data, LeaveLoop, fwVars
    <3>2. \E w \in {"idle", "tx", "rx", "append"} : pc' = [pc EXCEPT ![Tasklet] = w]
      BY <2>1 DEF HIF_PCI_CE_send_done, HIF_PCI_CE_recv_data, LeaveLoop, Park, Goto
    <3> QED
      BY <1>0, <3>1, <3>2
  <2>2. CASE AppendPending(Tasklet)
    <3>1. reset \/ completion_pendingq = <<>>
      BY <2>2 DEF AppendPending
    <3> QED
      BY <1>0, <2>2, <3>1 DEF AppendPending, Goto, fwVars
  <2> QED
    BY <1>3, <2>1, <2>2 DEF Service
<1>4. CASE Thread(Tasklet)
  <2>1. CASE TakeTurn(Tasklet)
    <3>1. reset \/ hif_thread_idle = 1
      <4>1. Turns = {}
        BY <2>1 DEF TakeTurn, Turns, Running
      <4>2. Cardinality(Turns) = 0
        BY <4>1, FS_EmptySet
      <4> QED
        BY <4>2 DEF ThreadInv, SingleInstance
    <3> QED
      BY <1>0, <2>1, <3>1 DEF TakeTurn, Goto, fwVars
  <2>2. CASE NotTheLuckyOne(Tasklet)
    BY <1>0, <2>2 DEF NotTheLuckyOne, Goto, fwVars
  <2>3. CASE HandleFwEvent(Tasklet)
    BY <2>3 DEF HandleFwEvent
  <2>4. CASE StartThread(Tasklet) \/ LeaveThread(Tasklet)
    BY <1>0, <2>4 DEF StartThread, LeaveThread, Goto, fwVars
  <2>5. CASE Dequeue(Tasklet) \/ PostRecvEnd(Tasklet) \/ Deliver(Tasklet) \/ Recycle(Tasklet)
    <3>1. pc[Tasklet] \in {"loop", "post", "deliver", "recycle"}
          /\ UNCHANGED reset
      BY <2>5 DEF Dequeue, PostRecvEnd, Deliver, Recycle, fwVars
    <3>2. \E w \in {"loop", "post", "deliver", "recycle"} : pc' = [pc EXCEPT ![Tasklet] = w]
      BY <2>5 DEF Dequeue, PostRecvEnd, Deliver, Recycle, Goto
    <3> QED
      BY <1>0, <3>1, <3>2
  <2>6. CASE PostRecvBuffer(Tasklet)
    BY <2>6 DEF PostRecvBuffer, fwVars, thread
  <2> QED
    BY <1>4, <2>1, <2>2, <2>3, <2>4, <2>5, <2>6 DEF Thread
<1> QED
  BY <1>1, <1>2, <1>3, <1>4 DEF Next

LEMMA WorkInvariant ==
  ASSUME Contexts = {Tasklet}
  PROVE  Spec => []WorkInv
<1>1. Init => WorkInv
  BY DEF Init, WorkInv
<1>2. ThreadInv /\ WorkInv /\ [Next]_vars => WorkInv'
  BY NextWork
<1> QED
  BY <1>1, <1>2, InitThread, NextThread, PTL DEF Spec

(* hif_completion_thread, "All pending completions are handled": where one  *)
(* tasklet services all engines, when it has returned nothing is left in    *)
(* completion_pendingq, for any rings, buffers and fragments.               *)
THEOREM AllPendingHandled ==
  ASSUME Contexts = {Tasklet} PROVE Spec => []PendingHandled
<1>1. WorkInv => PendingHandled
  BY DEF WorkInv, PendingHandled, Quiescent
<1> QED
  BY <1>1, WorkInvariant, PTL

-----------------------------------------------------------------------------
(* Counting completions *)

(* The places of the completions of pipe p in a queue. *)
At(p, q) == {j \in DOMAIN q : q[j].pipe = p}

(* A set and its image under a shift have the same number of elements. *)
LEMMA ShiftCount ==
  ASSUME NEW S \in SUBSET Int, IsFiniteSet(S), NEW k \in Int
  PROVE  IsFiniteSet({x + k : x \in S}) /\ Cardinality({x + k : x \in S}) = Cardinality(S)
<1> DEFINE T == {x + k : x \in S}
           f == [x \in S |-> x + k]
<1>1. f \in [S -> T] /\ \A x \in S : f[x] = x + k
  OBVIOUS
<1>0. (\A x, y \in S : f[x] = f[y] => x = y) /\ \A y \in T : \E x \in S : f[x] = y
  <2>1. \A x, y \in S : x \in Int /\ y \in Int /\ (x + k = y + k => x = y)
    OBVIOUS
  <2> QED
    BY <1>1, <2>1
<1>2. f \in Bijection(S, T)
  BY <1>0, <1>1 DEF Bijection, Injection, Surjection, IsInjective
<1>3. ExistsBijection(S, T)
  BY <1>2 DEF ExistsBijection
<1> QED
  BY <1>3, FS_Bijection

LEMMA DisjointCount ==
  ASSUME NEW S, NEW T, IsFiniteSet(S), IsFiniteSet(T), S \cap T = {}
  PROVE  IsFiniteSet(S \cup T) /\ Cardinality(S \cup T) = Cardinality(S) + Cardinality(T)
<1>1. /\ IsFiniteSet(S \cup T)
      /\ Cardinality(S \cup T) = Cardinality(S) + Cardinality(T) - Cardinality(S \cap T)
  BY FS_Union
<1>2. Cardinality(S \cap T) = 0 /\ Cardinality(S) \in Nat /\ Cardinality(T) \in Nat
  BY FS_EmptySet, FS_CardinalityType
<1> QED
  BY <1>1, <1>2

LEMMA CountType ==
  ASSUME NEW q \in Seq(Items), NEW p
  PROVE  CountIn(p, q) \in Nat /\ IsFiniteSet(At(p, q)) /\ At(p, q) \subseteq 1..Len(q)
         /\ CountIn(p, q) = Cardinality(At(p, q)) /\ Len(q) \in Nat
<1>1. At(p, q) \subseteq 1..Len(q) /\ Len(q) \in Nat
  BY DEF At
<1>2. IsFiniteSet(At(p, q))
  <2>1. IsFiniteSet(1..Len(q))
    BY <1>1, FS_Interval
  <2> QED
    BY <1>1, <2>1, FS_Subset
<1> QED
  BY <1>1, <1>2, FS_CardinalityType DEF CountIn, At

LEMMA CountEmpty ==
  ASSUME NEW p PROVE CountIn(p, <<>>) = 0
<1>1. {j \in DOMAIN <<>> : <<>>[j].pipe = p} = {}
  OBVIOUS
<1> QED
  BY <1>1, FS_EmptySet DEF CountIn

LEMMA CountOne ==
  ASSUME NEW p, NEW i \in Items
  PROVE  CountIn(p, <<i>>) = IF i.pipe = p THEN 1 ELSE 0
<1>1. At(p, <<i>>) = IF i.pipe = p THEN {1} ELSE {}
  BY DEF At
<1> QED
  BY <1>1, FS_EmptySet, FS_Singleton DEF CountIn, At

LEMMA CountConcat ==
  ASSUME NEW q \in Seq(Items), NEW r \in Seq(Items), NEW p
  PROVE  CountIn(p, q \o r) = CountIn(p, q) + CountIn(p, r)
<1> DEFINE R == {x + Len(q) : x \in At(p, r)}
<1>1. /\ Len(q) \in Nat /\ Len(r) \in Nat /\ q \o r \in Seq(Items)
      /\ Len(q \o r) = Len(q) + Len(r)
      /\ \A i \in 1..Len(q) : (q \o r)[i] = q[i]
      /\ \A i \in 1..Len(r) : (q \o r)[i + Len(q)] = r[i]
      /\ DOMAIN q = 1..Len(q) /\ DOMAIN r = 1..Len(r)
      /\ DOMAIN (q \o r) = 1..(Len(q) + Len(r))
  OBVIOUS
<1>2. At(p, q \o r) = At(p, q) \cup R
  <2>1. ASSUME NEW j \in At(p, q \o r) PROVE j \in At(p, q) \cup R
    <3> DEFINE i == j - Len(q)
    <3>1. j \in 1..(Len(q) + Len(r)) /\ (q \o r)[j].pipe = p
      BY <1>1, <2>1 DEF At
    <3>2. CASE j <= Len(q)
      BY <1>1, <3>1, <3>2 DEF At
    <3>3. CASE j > Len(q)
      <4>1. i \in 1..Len(r) /\ j = i + Len(q)
        BY <1>1, <3>1, <3>3
      <4> HIDE DEF i
      <4>2. r[i].pipe = p
        BY <1>1, <3>1, <4>1
      <4>3. i \in At(p, r)
        BY <1>1, <4>1, <4>2 DEF At
      <4> QED
        BY <4>1, <4>3
    <3> QED
      BY <1>1, <3>1, <3>2, <3>3
  <2>2. ASSUME NEW j \in At(p, q) PROVE j \in At(p, q \o r)
    BY <1>1, <2>2 DEF At
  <2>3. ASSUME NEW i \in At(p, r) PROVE i + Len(q) \in At(p, q \o r)
    BY <1>1, <2>3 DEF At
  <2> QED
    BY <2>1, <2>2, <2>3
<1>3. IsFiniteSet(R) /\ Cardinality(R) = Cardinality(At(p, r))
  <2>1. At(p, r) \in SUBSET Int /\ IsFiniteSet(At(p, r))
    BY CountType
  <2>2. Len(q) \in Int
    BY <1>1
  <2> QED
    BY <2>1, <2>2, ShiftCount
<1>4. At(p, q) \cap R = {}
  <2>1. \A x \in At(p, q) : x \in Nat /\ x <= Len(q)
    BY <1>1 DEF At
  <2>2. \A y \in R : y \in Nat /\ y > Len(q)
    BY <1>1 DEF At
  <2> QED
    BY <1>1, <2>1, <2>2
<1>5. Cardinality(At(p, q) \cup R) = Cardinality(At(p, q)) + Cardinality(R)
  BY <1>3, <1>4, CountType, DisjointCount
<1>6. CountIn(p, q \o r) = Cardinality(At(p, q \o r))
  BY <1>1, CountType
<1> QED
  BY <1>2, <1>3, <1>5, <1>6, CountType

LEMMA CountAppend ==
  ASSUME NEW q \in Seq(Items), NEW i \in Items, NEW p
  PROVE  CountIn(p, Append(q, i)) = CountIn(p, q) + (IF i.pipe = p THEN 1 ELSE 0)
<1>1. Append(q, i) = q \o <<i>> /\ <<i>> \in Seq(Items)
  OBVIOUS
<1>2. CountIn(p, q \o <<i>>) = CountIn(p, q) + CountIn(p, <<i>>)
  BY <1>1, CountConcat
<1>3. CountIn(p, <<i>>) = IF i.pipe = p THEN 1 ELSE 0
  BY CountOne
<1> QED
  BY <1>1, <1>2, <1>3

LEMMA CountHead ==
  ASSUME NEW q \in Seq(Items), q # <<>>, NEW p
  PROVE  /\ Head(q) \in Items /\ Tail(q) \in Seq(Items)
         /\ CountIn(p, q) = CountIn(p, Tail(q)) + (IF Head(q).pipe = p THEN 1 ELSE 0)
<1>1. q = <<Head(q)>> \o Tail(q) /\ <<Head(q)>> \in Seq(Items) /\ Tail(q) \in Seq(Items)
      /\ Head(q) \in Items
  OBVIOUS
<1>2. CountIn(p, <<Head(q)>> \o Tail(q)) = CountIn(p, <<Head(q)>>) + CountIn(p, Tail(q))
  BY <1>1, CountConcat
<1>3. CountIn(p, <<Head(q)>>) = (IF Head(q).pipe = p THEN 1 ELSE 0)
  BY <1>1, CountOne
<1>4. CountIn(p, q) = (IF Head(q).pipe = p THEN 1 ELSE 0) + CountIn(p, Tail(q))
  BY <1>1, <1>2, <1>3
<1>5. CountIn(p, Tail(q)) \in Nat
  BY <1>1, CountType
<1> DEFINE k == CountIn(p, Tail(q))
<1>6. CountIn(p, q) = k + (IF Head(q).pipe = p THEN 1 ELSE 0)
  <2> HIDE DEF k
  <2>1. k \in Nat /\ CountIn(p, q) = (IF Head(q).pipe = p THEN 1 ELSE 0) + k
    BY <1>4, <1>5 DEF k
  <2> QED
    BY <2>1
<1> QED
  BY <1>1, <1>6

(* The completions of a family of queues: changing one queue changes the   *)
(* total by what that queue has more.                                      *)
PairsAt(p, f, D) == UNION {{<<c, j>> : j \in At(p, f[c])} : c \in D}

LEMMA PairsOne ==
  ASSUME NEW p, NEW f \in [Contexts -> Seq(Items)], NEW c \in Contexts
  PROVE  LET P == {<<c, j>> : j \in At(p, f[c])}
         IN  IsFiniteSet(P) /\ Cardinality(P) = CountIn(p, f[c])
<1> DEFINE S == At(p, f[c])
           P == {<<c, j>> : j \in S}
           g == [j \in S |-> <<c, j>>]
<1>1. IsFiniteSet(S) /\ CountIn(p, f[c]) = Cardinality(S)
  BY CountType
<1>2. g \in [S -> P] /\ (\A x, y \in S : g[x] = g[y] => x = y) /\ \A y \in P : \E x \in S : g[x] = y
  <2> HIDE DEF S
  <2> QED
    OBVIOUS
<1>3. ExistsBijection(S, P)
  BY <1>2 DEF ExistsBijection, Bijection, Injection, Surjection, IsInjective
<1> QED
  BY <1>1, <1>3, FS_Bijection

LEMMA PairsFinite ==
  ASSUME NEW p, NEW f \in [Contexts -> Seq(Items)]
  PROVE  /\ IsFiniteSet(PairsAt(p, f, Contexts))
         /\ Parked(p, f) = Cardinality(PairsAt(p, f, Contexts)) /\ Parked(p, f) \in Nat
<1> DEFINE Fam == {{<<c, j>> : j \in At(p, f[c])} : c \in Contexts}
<1>1. ASSUME NEW P \in Fam PROVE IsFiniteSet(P)
  <2>1. PICK c \in Contexts : P = {<<c, j>> : j \in At(p, f[c])}
    OBVIOUS
  <2>2. IsFiniteSet({<<c, j>> : j \in At(p, f[c])})
    BY PairsOne
  <2> QED
    BY <2>1, <2>2
<1>2. IsFiniteSet(Fam)
  <2> DEFINE g == [c \in Contexts |-> {<<c, j>> : j \in At(p, f[c])}]
  <2>1. g \in Surjection(Contexts, Fam)
    <3> DEFINE G(c) == {<<c, j>> : j \in At(p, f[c])}
    <3>1. g = [c \in Contexts |-> G(c)] /\ Fam = {G(c) : c \in Contexts}
      OBVIOUS
    <3> HIDE DEF G, g, Fam
    <3> QED
      BY <3>1 DEF Surjection
  <2> QED
    BY <2>1, PipesAssumption, FS_Surjection
<1>3. IsFiniteSet(UNION Fam)
  BY <1>1, <1>2, FS_UNION
<1> QED
  BY <1>3, FS_CardinalityType DEF PairsAt, Parked, At

LEMMA ParkedStep ==
  ASSUME NEW p, NEW f \in [Contexts -> Seq(Items)], NEW c \in Contexts, NEW s \in Seq(Items)
  PROVE  /\ Parked(p, f) \in Nat /\ Parked(p, [f EXCEPT ![c] = s]) \in Nat
         /\ Parked(p, [f EXCEPT ![c] = s]) - CountIn(p, s) = Parked(p, f) - CountIn(p, f[c])
<1> DEFINE g == [f EXCEPT ![c] = s]
           Rest == PairsAt(p, f, Contexts \ {c})
           One(h) == {<<c, j>> : j \in At(p, h[c])}
<1>1. g \in [Contexts -> Seq(Items)] /\ g[c] = s /\ \A d \in Contexts \ {c} : g[d] = f[d]
  OBVIOUS
<1> HIDE DEF g
<1>2. PairsAt(p, f, Contexts) = Rest \cup One(f)
  BY DEF PairsAt
<1>3. PairsAt(p, g, Contexts) = Rest \cup One(g)
  <2>1. PairsAt(p, g, Contexts \ {c}) = Rest
    BY <1>1 DEF PairsAt
  <2>2. PairsAt(p, g, Contexts) = PairsAt(p, g, Contexts \ {c}) \cup One(g)
    BY DEF PairsAt
  <2> QED
    BY <2>1, <2>2
<1>4. Rest \cap One(f) = {} /\ Rest \cap One(g) = {}
  BY DEF PairsAt
<1>5. IsFiniteSet(Rest)
  BY <1>2, PairsFinite, FS_Subset
<1>6. /\ IsFiniteSet(One(f)) /\ Cardinality(One(f)) = CountIn(p, f[c])
      /\ IsFiniteSet(One(g)) /\ Cardinality(One(g)) = CountIn(p, s)
  BY <1>1, PairsOne
<1>7. /\ Cardinality(Rest \cup One(f)) = Cardinality(Rest) + CountIn(p, f[c])
      /\ Cardinality(Rest \cup One(g)) = Cardinality(Rest) + CountIn(p, s)
  <2> HIDE DEF Rest, One
  <2> QED
    BY <1>4, <1>5, <1>6, DisjointCount
<1>8. /\ Parked(p, f) = Cardinality(Rest) + CountIn(p, f[c]) /\ Parked(p, f) \in Nat
      /\ Parked(p, g) = Cardinality(Rest) + CountIn(p, s) /\ Parked(p, g) \in Nat
  <2>1. Parked(p, f) = Cardinality(PairsAt(p, f, Contexts)) /\ Parked(p, f) \in Nat
    BY PairsFinite
  <2>2. Parked(p, g) = Cardinality(PairsAt(p, g, Contexts)) /\ Parked(p, g) \in Nat
    BY <1>1, PairsFinite
  <2> QED
    BY <1>2, <1>3, <1>7, <2>1, <2>2
<1>9. Cardinality(Rest) \in Nat /\ CountIn(p, f[c]) \in Nat /\ CountIn(p, s) \in Nat
  BY <1>5, CountType, FS_CardinalityType
<1> HIDE DEF Rest
<1> QED
  BY <1>8, <1>9 DEF g

-----------------------------------------------------------------------------
(***************************************************************************)
(* Ring entries and completion states are accounted for.  The entries add  *)
(* up by themselves; that a completion state is free whenever a transfer   *)
(* has finished needs the states to add up too, and the single instance of *)
(* the thread: a receive entry is reposted while the state of the old      *)
(* completion is still in the thread's hands, and only one can be.         *)
(***************************************************************************)
QueueType ==
    /\ src \in Seq([buf : TxBufs, last : BOOLEAN])
    /\ srcDone \in Seq([buf : TxBufs, last : BOOLEAN])
    /\ dest \in Seq(RxBufs) /\ destDone \in Seq(RxBufs)
    /\ num_sends_allowed \in Nat /\ recv_bufs_needed \in Nat
    /\ completion_freeq \in [Pipes -> Nat]
    /\ completion_pendingq \in Seq(Items)
    /\ compl_queue \in [Contexts -> Seq(Items)]
    /\ compl_state \in [Contexts -> Seq(Items)]

(* hif_completion_thread handles one completion at a time. *)
HandledInv == \A c \in Contexts :
    IF pc[c] \in {"post", "deliver", "recycle"}
    THEN Len(compl_state[c]) = 1 ELSE compl_state[c] = <<>>

StatesConserved == \A p \in Pipes :
    completion_freeq[p] + CountIn(p, completion_pendingq) + Parked(p, compl_queue)
        + Parked(p, compl_state) = CompletionStates(p)

CountInv == QueueType /\ HandledInv /\ StatesConserved /\ EntriesConserved /\ ~out_of_states

LEMMA CountsNat ==
  ASSUME QueueType, NEW p
  PROVE  /\ CountIn(p, completion_pendingq) \in Nat
         /\ Parked(p, compl_queue) \in Nat /\ Parked(p, compl_state) \in Nat
         /\ Len(src) \in Nat /\ Len(srcDone) \in Nat /\ Len(dest) \in Nat /\ Len(destDone) \in Nat
BY CountType, PairsFinite DEF QueueType

LEMMA ParkedEmpty ==
  ASSUME NEW p, NEW f \in [Contexts -> Seq(Items)], \A c \in Contexts : f[c] = <<>>
  PROVE  Parked(p, f) = 0
<1>1. \A c \in Contexts : At(p, f[c]) = {}
  BY DEF At
<1>2. PairsAt(p, f, Contexts) = {}
  BY <1>1 DEF PairsAt
<1> QED
  BY <1>2, PairsFinite, FS_EmptySet

(* One instance of the thread: at most one completion in its hands. *)
LEMMA OneInHand ==
  ASSUME QueueType, HandledInv, ThreadInv, NEW p
  PROVE  Parked(p, compl_state) <= 1
<1>0. compl_state \in [Contexts -> Seq(Items)]
  BY DEF QueueType
<1>1. CASE \A c \in Contexts : compl_state[c] = <<>>
  <2>1. Parked(p, compl_state) = 0
    BY <1>0, <1>1, ParkedEmpty
  <2> QED
    BY <2>1
<1>2. ASSUME NEW c \in Contexts, compl_state[c] # <<>> PROVE Parked(p, compl_state) <= 1
  <2>1. c \in Running /\ Len(compl_state[c]) = 1
    BY <1>2 DEF HandledInv, Running
  <2>2. \A d \in Contexts \ {c} : compl_state[d] = <<>>
    BY <2>1 DEF HandledInv, Running, ThreadInv, SingleInstance
  <2> DEFINE e == [compl_state EXCEPT ![c] = <<>>]
  <2>3. e \in [Contexts -> Seq(Items)] /\ \A d \in Contexts : e[d] = <<>>
    BY <1>0, <2>2
  <2>4. Parked(p, e) = 0
    <3> HIDE DEF e
    <3> QED
      BY <2>3, ParkedEmpty
  <2>5. <<>> \in Seq(Items) /\ CountIn(p, <<>>) = 0
    BY CountEmpty
  <2>6. /\ Parked(p, compl_state) \in Nat
        /\ Parked(p, e) - CountIn(p, <<>>) = Parked(p, compl_state) - CountIn(p, compl_state[c])
    BY <1>0, <2>5, ParkedStep
  <2>7. CountIn(p, compl_state[c]) \in Nat /\ CountIn(p, compl_state[c]) <= 1
    <3>1. compl_state[c] \in Seq(Items)
      BY <1>0
    <3>2. compl_state[c] = <<compl_state[c][1]>> /\ compl_state[c][1] \in Items
      BY <2>1, <3>1
    <3> QED
      BY <3>2, CountOne
  <2> QED
    BY <2>4, <2>5, <2>6, <2>7
<1> QED
  BY <1>1, <1>2

(* A step that leaves the completions alone. *)
LEMMA SameCompletions ==
  ASSUME CountInv, QueueType', HandledInv',
         UNCHANGED <<completion_freeq, completion_pendingq, compl_queue, compl_state,
                     out_of_states>>,
         num_sends_allowed' + Len(src') + Len(srcDone')
             = num_sends_allowed + Len(src) + Len(srcDone),
         recv_bufs_needed' + Len(dest') + Len(destDone')
             = recv_bufs_needed + Len(dest) + Len(destDone)
  PROVE  CountInv'
<1>1. StatesConserved' /\ ~out_of_states'
  BY DEF CountInv, StatesConserved
<1>2. EntriesConserved'
  BY CountsNat DEF CountInv, EntriesConserved, QueueType
<1> QED
  BY <1>1, <1>2 DEF CountInv

(* A free completion state whenever a transfer has finished. *)
LEMMA StateFree ==
  ASSUME CountInv, ThreadInv
  PROVE  /\ srcDone # <<>> => completion_freeq["tx"] > 0
         /\ destDone # <<>> => completion_freeq["rx"] > 0
<1>1. /\ completion_freeq["tx"] \in Nat /\ completion_freeq["rx"] \in Nat
      /\ num_sends_allowed \in Nat /\ recv_bufs_needed \in Nat
      /\ srcDone # <<>> => Len(srcDone) > 0
      /\ destDone # <<>> => Len(destDone) > 0
  BY DEF CountInv, QueueType, Pipes
<1>2. Parked("rx", compl_state) <= 1
  BY OneInHand DEF CountInv
<1>3. /\ completion_freeq["tx"] + CountIn("tx", completion_pendingq) + Parked("tx", compl_queue)
            + Parked("tx", compl_state) = src_nentries
      /\ completion_freeq["rx"] + CountIn("rx", completion_pendingq) + Parked("rx", compl_queue)
            + Parked("rx", compl_state) = dest_nentries
  BY DEF CountInv, StatesConserved, CompletionStates, Pipes
<1>4. \A p : /\ CountIn(p, completion_pendingq) \in Nat
             /\ Parked(p, compl_queue) \in Nat /\ Parked(p, compl_state) \in Nat
             /\ Len(src) \in Nat /\ Len(srcDone) \in Nat /\ Len(dest) \in Nat
             /\ Len(destDone) \in Nat
  BY CountsNat DEF CountInv
<1>5. ASSUME srcDone # <<>> PROVE completion_freeq["tx"] > 0
  <2>1. num_sends_allowed + Len(src) + Len(srcDone) + CountIn("tx", completion_pendingq)
          + Parked("tx", compl_queue) + Parked("tx", compl_state) = src_nentries - 1
    BY DEF CountInv, EntriesConserved
  <2>2. /\ CountIn("tx", completion_pendingq) \in Nat /\ Parked("tx", compl_queue) \in Nat
        /\ Parked("tx", compl_state) \in Nat /\ Len(src) \in Nat
        /\ Len(srcDone) \in Nat /\ Len(srcDone) > 0
    BY <1>1, <1>4, <1>5
  <2>3. src_nentries \in Nat
    BY PipesAssumption
  <2>4. PICK x \in Nat : x = CountIn("tx", completion_pendingq) + Parked("tx", compl_queue)
                              + Parked("tx", compl_state)
    BY <2>2
  <2>5. num_sends_allowed + Len(src) + Len(srcDone) + x = src_nentries - 1
    BY <1>1, <2>1, <2>2, <2>4
  <2>6. completion_freeq["tx"] + x = src_nentries
    BY <1>1, <1>3, <2>2, <2>4
  <2> QED
    BY <1>1, <2>2, <2>3, <2>5, <2>6
<1>6. ASSUME destDone # <<>> PROVE completion_freeq["rx"] > 0
  <2>1. recv_bufs_needed + Len(dest) + Len(destDone) + CountIn("rx", completion_pendingq)
          + Parked("rx", compl_queue) = dest_nentries - 1
    BY DEF CountInv, EntriesConserved
  <2>2. /\ CountIn("rx", completion_pendingq) \in Nat /\ Parked("rx", compl_queue) \in Nat
        /\ Parked("rx", compl_state) \in Nat /\ Len(dest) \in Nat
        /\ Len(destDone) \in Nat /\ Len(destDone) > 0
    BY <1>1, <1>4, <1>6
  <2>3. dest_nentries \in Nat
    BY PipesAssumption
  <2>4. PICK x \in Nat : x = CountIn("rx", completion_pendingq) + Parked("rx", compl_queue)
    BY <2>2
  <2>5. recv_bufs_needed + Len(dest) + Len(destDone) + x = dest_nentries - 1
    BY <1>1, <2>1, <2>2, <2>4
  <2>6. completion_freeq["rx"] + x + Parked("rx", compl_state) = dest_nentries
    BY <1>1, <1>3, <2>2, <2>4
  <2> QED
    BY <1>1, <1>2, <2>2, <2>3, <2>5, <2>6
<1> QED
  BY <1>5, <1>6

LEMMA TailLen ==
  ASSUME NEW S, NEW s \in Seq(S), s # <<>>
  PROVE  /\ Head(s) \in S /\ Tail(s) \in Seq(S)
         /\ Len(s) \in Nat /\ Len(Tail(s)) \in Nat /\ Len(Tail(s)) = Len(s) - 1
OBVIOUS

LEMMA AppendLen ==
  ASSUME NEW S, NEW s \in Seq(S), NEW e \in S
  PROVE  /\ Append(s, e) \in Seq(S) /\ Len(s) \in Nat
         /\ Len(Append(s, e)) \in Nat /\ Len(Append(s, e)) = Len(s) + 1
OBVIOUS

LEMMA FunctionSeq ==
  ASSUME NEW S, NEW n \in Nat, NEW s \in [1..n -> S]
  PROVE  s \in Seq(S) /\ Len(s) = n
OBVIOUS

LEMMA InitCount == Init => CountInv
<1> SUFFICES ASSUME Init PROVE CountInv
  OBVIOUS
<1>1. PICK n \in 0..(dest_nentries - 1) :
        dest \in [1..n -> RxBufs] /\ recv_bufs_needed = dest_nentries - 1 - n
  BY DEF Init
<1>2. dest \in Seq(RxBufs) /\ Len(dest) = n /\ n \in Nat /\ recv_bufs_needed \in Nat
  BY <1>1, PipesAssumption
<1>3. /\ src = <<>> /\ srcDone = <<>> /\ destDone = <<>> /\ completion_pendingq = <<>>
      /\ num_sends_allowed = src_nentries - 1 /\ num_sends_allowed \in Nat
      /\ \A p \in Pipes : completion_freeq[p] = CompletionStates(p)
      /\ completion_freeq \in [Pipes -> Nat]
      /\ \A p \in Pipes : CompletionStates(p) \in Nat
      /\ compl_queue \in [Contexts -> Seq(Items)] /\ compl_state \in [Contexts -> Seq(Items)]
      /\ \A c \in Contexts : compl_queue[c] = <<>> /\ compl_state[c] = <<>> /\ pc[c] = "idle"
      /\ ~out_of_states
  BY PipesAssumption DEF Init, CompletionStates
<1>4. QueueType
  BY <1>2, <1>3 DEF QueueType
<1>5. HandledInv
  BY <1>3 DEF HandledInv
<1>6. \A p : /\ CountIn(p, completion_pendingq) = 0
             /\ Parked(p, compl_queue) = 0 /\ Parked(p, compl_state) = 0
  BY <1>3, CountEmpty, ParkedEmpty
<1>7. StatesConserved
  BY <1>3, <1>6 DEF StatesConserved
<1>8. EntriesConserved
  <2>1. Len(src) = 0 /\ Len(srcDone) = 0 /\ Len(destDone) = 0
    BY <1>3
  <2> QED
    BY <1>1, <1>2, <1>3, <1>6, <2>1, PipesAssumption DEF EntriesConserved
<1> QED
  BY <1>3, <1>4, <1>5, <1>7, <1>8 DEF CountInv

(* HTC sends, and the hardware moves entries along. *)
LEMMA RingCount ==
  ASSUME CountInv,
         (\E b \in TxBufs : HIFSend_head(b)) \/ CE_send_finished \/ CE_recv_finished
  PROVE  CountInv'
<1>0. QueueType /\ HandledInv
  BY DEF CountInv
<1>1. UNCHANGED <<completion_freeq, completion_pendingq, compl_queue, compl_state,
                  out_of_states, pc>>
  BY DEF HIFSend_head, CE_send_finished, CE_recv_finished, countVars, thread
<1>2. HandledInv'
  BY <1>0, <1>1 DEF HandledInv
<1>3. ASSUME NEW b \in TxBufs, HIFSend_head(b) PROVE CountInv'
  <2> DEFINE E == Entries(b)
  <2>1. Frags[b] \in Nat
    BY PipesAssumption
  <2>2. E \in Seq([buf : TxBufs, last : BOOLEAN]) /\ Len(E) = Frags[b]
    <3>1. \A i \in 1..Frags[b] :
            [buf |-> b, last |-> i = Frags[b]] \in [buf : TxBufs, last : BOOLEAN]
      OBVIOUS
    <3>2. E \in [1..Frags[b] -> [buf : TxBufs, last : BOOLEAN]]
      BY <3>1 DEF Entries
    <3> HIDE DEF E
    <3> QED
      BY <2>1, <3>2, FunctionSeq
  <2>3. /\ src' = src \o E /\ num_sends_allowed' = num_sends_allowed - Frags[b]
        /\ num_sends_allowed >= Frags[b]
        /\ UNCHANGED <<srcDone, dest, destDone, recv_bufs_needed>>
    BY <1>3 DEF HIFSend_head
  <2> HIDE DEF E
  <2>4. /\ src' \in Seq([buf : TxBufs, last : BOOLEAN]) /\ Len(src') = Len(src) + Len(E)
        /\ num_sends_allowed' \in Nat /\ num_sends_allowed \in Nat
        /\ Len(src) \in Nat /\ Len(srcDone) \in Nat
    <3>1. /\ src \in Seq([buf : TxBufs, last : BOOLEAN]) /\ num_sends_allowed \in Nat
          /\ srcDone \in Seq([buf : TxBufs, last : BOOLEAN])
      BY <1>0 DEF QueueType
    <3>2. /\ src \o E \in Seq([buf : TxBufs, last : BOOLEAN])
          /\ Len(src \o E) = Len(src) + Len(E) /\ Len(src) \in Nat
      <4> DEFINE S == [buf : TxBufs, last : BOOLEAN]
      <4>1. src \in Seq(S) /\ E \in Seq(S)
        BY <2>2, <3>1
      <4> HIDE DEF S
      <4>2. src \o E \in Seq(S) /\ Len(src \o E) = Len(src) + Len(E) /\ Len(src) \in Nat
        BY <4>1
      <4> QED
        BY <4>2 DEF S
    <3>3. num_sends_allowed - Frags[b] \in Nat
      BY <2>1, <2>3, <3>1
    <3> QED
      BY <2>3, <3>1, <3>2, <3>3
  <2>5. QueueType'
    BY <1>0, <1>1, <2>3, <2>4 DEF QueueType
  <2>6. num_sends_allowed' + Len(src') + Len(srcDone')
            = num_sends_allowed + Len(src) + Len(srcDone)
    <3> DEFINE l == Len(src)
               m == Len(srcDone)
               n == num_sends_allowed
               k == Frags[b]
    <3>1. /\ Len(src') = l + k /\ Len(srcDone') = m /\ num_sends_allowed' = n - k
          /\ l \in Nat /\ m \in Nat /\ n \in Nat /\ k \in Nat
      BY <2>1, <2>2, <2>3, <2>4
    <3> HIDE DEF l, m, n, k
    <3>2. num_sends_allowed' + Len(src') + Len(srcDone') = n + l + m
      BY <3>1
    <3> QED
      BY <3>2 DEF l, m, n
  <2> QED
    BY <1>1, <1>2, <2>3, <2>5, <2>6, SameCompletions
<1>4. CASE CE_send_finished
  <2>1. /\ src # <<>> /\ src' = Tail(src) /\ srcDone' = Append(srcDone, Head(src))
        /\ UNCHANGED <<dest, destDone, recv_bufs_needed, num_sends_allowed>>
    BY <1>4 DEF CE_send_finished, countVars
  <2>2. /\ src' \in Seq([buf : TxBufs, last : BOOLEAN]) /\ Len(src') = Len(src) - 1
        /\ Head(src) \in [buf : TxBufs, last : BOOLEAN] /\ Len(src) \in Nat
    BY <1>0, <2>1, TailLen DEF QueueType
  <2>3. /\ srcDone' \in Seq([buf : TxBufs, last : BOOLEAN])
        /\ Len(srcDone') = Len(srcDone) + 1 /\ Len(srcDone) \in Nat
    BY <1>0, <2>1, <2>2, AppendLen DEF QueueType
  <2>4. QueueType'
    BY <1>0, <1>1, <2>1, <2>2, <2>3 DEF QueueType
  <2>5. num_sends_allowed' + Len(src') + Len(srcDone')
            = num_sends_allowed + Len(src) + Len(srcDone)
    BY <1>0, <2>1, <2>2, <2>3 DEF QueueType
  <2> QED
    BY <1>1, <1>2, <2>1, <2>4, <2>5, SameCompletions
<1>5. CASE CE_recv_finished
  <2>1. /\ dest # <<>> /\ dest' = Tail(dest) /\ destDone' = Append(destDone, Head(dest))
        /\ UNCHANGED <<src, srcDone, recv_bufs_needed, num_sends_allowed>>
    BY <1>5 DEF CE_recv_finished, countVars
  <2>2. /\ dest' \in Seq(RxBufs) /\ Len(dest') = Len(dest) - 1
        /\ Head(dest) \in RxBufs /\ Len(dest) \in Nat
    BY <1>0, <2>1, TailLen DEF QueueType
  <2>3. /\ destDone' \in Seq(RxBufs)
        /\ Len(destDone') = Len(destDone) + 1 /\ Len(destDone) \in Nat
    BY <1>0, <2>1, <2>2, AppendLen DEF QueueType
  <2>4. QueueType'
    BY <1>0, <1>1, <2>1, <2>2, <2>3 DEF QueueType
  <2>5. recv_bufs_needed' + Len(dest') + Len(destDone')
            = recv_bufs_needed + Len(dest) + Len(destDone)
    BY <1>0, <2>1, <2>2, <2>3 DEF QueueType
  <2> QED
    BY <1>1, <1>2, <2>1, <2>4, <2>5, SameCompletions
<1> QED
  BY <1>3, <1>4, <1>5

(* A finished transfer is parked: a completion state more, a ring entry    *)
(* less.                                                                   *)
LEMMA ParkCount ==
  ASSUME CountInv, NEW c \in Contexts, NEW p \in Pipes, NEW b \in TxBufs \cup RxBufs,
         completion_freeq[p] > 0, Park(c, p, b),
         UNCHANGED <<completion_pendingq, compl_state>>
  PROVE  /\ completion_freeq' \in [Pipes -> Nat] /\ compl_queue' \in [Contexts -> Seq(Items)]
         /\ ~out_of_states' /\ StatesConserved' /\ pc' = [pc EXCEPT ![c] = p]
         /\ \A q : /\ Parked(q, compl_queue') \in Nat
                   /\ Parked(q, compl_queue') = Parked(q, compl_queue) + (IF q = p THEN 1 ELSE 0)
<1> DEFINE i == Item(p, b)
           s == Append(compl_queue[c], i)
<1>0. QueueType
  BY DEF CountInv
<1>1. i \in Items /\ i.pipe = p
  BY DEF Item, Items
<1>2. /\ completion_freeq' = [completion_freeq EXCEPT ![p] = completion_freeq[p] - 1]
      /\ compl_queue' = [compl_queue EXCEPT ![c] = s]
      /\ pc' = [pc EXCEPT ![c] = p] /\ out_of_states' = out_of_states
  BY DEF Park, Goto
<1> HIDE DEF i
<1>3. compl_queue[c] \in Seq(Items) /\ s \in Seq(Items)
  BY <1>0, <1>1 DEF QueueType
<1>4. ASSUME NEW q
      PROVE  /\ Parked(q, compl_queue') \in Nat
             /\ Parked(q, compl_queue') = Parked(q, compl_queue) + (IF q = p THEN 1 ELSE 0)
  <2>1. CountIn(q, s) = CountIn(q, compl_queue[c]) + (IF i.pipe = q THEN 1 ELSE 0)
    BY <1>1, <1>3, CountAppend
  <2>2. CountIn(q, compl_queue[c]) \in Nat /\ CountIn(q, s) \in Nat
    BY <1>3, CountType
  <2> HIDE DEF s
  <2>3. /\ Parked(q, compl_queue) \in Nat /\ Parked(q, compl_queue') \in Nat
        /\ Parked(q, compl_queue') - CountIn(q, s)
             = Parked(q, compl_queue) - CountIn(q, compl_queue[c])
    BY <1>0, <1>2, <1>3, ParkedStep DEF QueueType
  <2> QED
    BY <1>1, <2>1, <2>2, <2>3
<1> HIDE DEF s
<1>5. compl_queue' \in [Contexts -> Seq(Items)] /\ completion_freeq' \in [Pipes -> Nat]
  BY <1>0, <1>2, <1>3 DEF QueueType
<1>6. StatesConserved'
  <2> SUFFICES ASSUME NEW q \in Pipes
               PROVE  completion_freeq'[q] + CountIn(q, completion_pendingq')
                        + Parked(q, compl_queue') + Parked(q, compl_state')
                        = CompletionStates(q)
    BY DEF StatesConserved
  <2>1. /\ completion_freeq'[q] = completion_freeq[q] - (IF q = p THEN 1 ELSE 0)
        /\ completion_freeq[q] \in Nat
    BY <1>0, <1>2 DEF QueueType
  <2>2. completion_freeq[q] + CountIn(q, completion_pendingq) + Parked(q, compl_queue)
          + Parked(q, compl_state) = CompletionStates(q)
    BY DEF CountInv, StatesConserved
  <2>3. /\ CountIn(q, completion_pendingq) \in Nat /\ Parked(q, compl_queue) \in Nat
        /\ Parked(q, compl_state) \in Nat
    BY <1>0, CountsNat
  <2> QED
    BY <1>4, <2>1, <2>2, <2>3
<1> QED
  BY <1>2, <1>4, <1>5, <1>6 DEF CountInv

LEMMA SendDoneCount ==
  ASSUME CountInv, ThreadInv, NEW c \in Contexts, HIF_PCI_CE_send_done(c)
  PROVE  CountInv'
<1> DEFINE E == [buf : TxBufs, last : BOOLEAN]
           h == Head(srcDone)
<1>0. QueueType /\ HandledInv /\ pc \in [Contexts -> Places]
  BY DEF CountInv, ThreadInv
<1>1. /\ pc[c] \in {"idle", "tx"} /\ srcDone # <<>> /\ srcDone' = Tail(srcDone)
      /\ UNCHANGED <<src, dest, destDone, recv_bufs_needed, compl_state, completion_pendingq>>
  BY DEF HIF_PCI_CE_send_done
<1>2. /\ srcDone' \in Seq(E) /\ Len(srcDone') = Len(srcDone) - 1 /\ Len(srcDone) \in Nat
      /\ h \in E /\ h.buf \in TxBufs
  <2>1. srcDone \in Seq(E)
    BY <1>0 DEF QueueType
  <2>2. /\ Head(srcDone) \in E /\ Tail(srcDone) \in Seq(E) /\ Len(srcDone) \in Nat
        /\ Len(Tail(srcDone)) = Len(srcDone) - 1
    <3> HIDE DEF E
    <3> QED
      BY <1>1, <2>1, TailLen
  <2> QED
    BY <1>1, <2>2
<1>3. CASE h.last
  <2>1. completion_freeq["tx"] > 0
    BY <1>1, StateFree
  <2>2. Park(c, "tx", h.buf) /\ num_sends_allowed' = num_sends_allowed
    BY <1>3 DEF HIF_PCI_CE_send_done
  <2>3. "tx" \in Pipes /\ h.buf \in TxBufs \cup RxBufs
    BY <1>2 DEF Pipes
  <2>4. /\ completion_freeq' \in [Pipes -> Nat] /\ compl_queue' \in [Contexts -> Seq(Items)]
        /\ ~out_of_states' /\ StatesConserved' /\ pc' = [pc EXCEPT ![c] = "tx"]
        /\ \A q : /\ Parked(q, compl_queue') \in Nat
                  /\ Parked(q, compl_queue') = Parked(q, compl_queue) + (IF q = "tx" THEN 1 ELSE 0)
    BY <1>1, <2>1, <2>2, <2>3, ParkCount
  <2>5. QueueType'
    BY <1>0, <1>1, <1>2, <2>2, <2>4 DEF QueueType
  <2>6. HandledInv'
    BY <1>0, <1>1, <2>4 DEF HandledInv
  <2>7. EntriesConserved'
    <3>1. /\ Parked("tx", compl_queue') = Parked("tx", compl_queue) + 1
          /\ Parked("rx", compl_queue') = Parked("rx", compl_queue)
          /\ Parked("tx", compl_queue) \in Nat /\ Parked("rx", compl_queue) \in Nat
          /\ CountIn("tx", completion_pendingq) \in Nat /\ Parked("tx", compl_state) \in Nat
          /\ Len(src) \in Nat /\ num_sends_allowed \in Nat
      <4>1. \A q : /\ Parked(q, compl_queue) \in Nat /\ CountIn(q, completion_pendingq) \in Nat
                   /\ Parked(q, compl_state) \in Nat /\ Len(src) \in Nat
        BY <1>0, CountsNat
      <4>2. /\ Parked("tx", compl_queue') = Parked("tx", compl_queue) + 1
            /\ Parked("rx", compl_queue') = Parked("rx", compl_queue) + 0
        BY <2>4
      <4>3. Parked("rx", compl_queue) \in Nat
        BY <4>1
      <4>4. Parked("rx", compl_queue') = Parked("rx", compl_queue)
        BY <4>2, <4>3
      <4> QED
        BY <1>0, <4>1, <4>2, <4>4 DEF QueueType
    <3> QED
      BY <1>1, <1>2, <2>2, <3>1 DEF CountInv, EntriesConserved
  <2> QED
    BY <2>4, <2>5, <2>6, <2>7 DEF CountInv
<1>4. CASE ~h.last
  <2>1. /\ num_sends_allowed' = num_sends_allowed + 1 /\ pc' = [pc EXCEPT ![c] = "tx"]
        /\ UNCHANGED <<completion_freeq, compl_queue, out_of_states>>
    BY <1>4 DEF HIF_PCI_CE_send_done, Goto
  <2>2. QueueType'
    BY <1>0, <1>1, <1>2, <2>1 DEF QueueType
  <2>3. HandledInv'
    BY <1>0, <1>1, <2>1 DEF HandledInv
  <2>4. num_sends_allowed' + Len(src') + Len(srcDone')
            = num_sends_allowed + Len(src) + Len(srcDone)
    BY <1>0, <1>1, <1>2, <2>1, CountsNat DEF QueueType
  <2> QED
    BY <1>1, <2>1, <2>2, <2>3, <2>4, SameCompletions
<1> QED
  BY <1>3, <1>4

LEMMA RecvDataCount ==
  ASSUME CountInv, ThreadInv, NEW c \in Contexts, HIF_PCI_CE_recv_data(c)
  PROVE  CountInv'
<1> DEFINE h == Head(destDone)
<1>0. QueueType /\ HandledInv /\ pc \in [Contexts -> Places]
  BY DEF CountInv, ThreadInv
<1>1. /\ pc[c] \in {"idle", "rx"} /\ destDone # <<>> /\ destDone' = Tail(destDone)
      /\ Park(c, "rx", h)
      /\ UNCHANGED <<src, srcDone, dest, num_sends_allowed, recv_bufs_needed, compl_state,
                     completion_pendingq>>
  BY DEF HIF_PCI_CE_recv_data
<1>2. /\ destDone' \in Seq(RxBufs) /\ Len(destDone') = Len(destDone) - 1 /\ Len(destDone) \in Nat
      /\ h \in RxBufs
  BY <1>0, <1>1, TailLen DEF QueueType
<1>3. completion_freeq["rx"] > 0
  BY <1>1, StateFree
<1>4. "rx" \in Pipes /\ h \in TxBufs \cup RxBufs
  BY <1>2 DEF Pipes
<1>5. /\ completion_freeq' \in [Pipes -> Nat] /\ compl_queue' \in [Contexts -> Seq(Items)]
      /\ ~out_of_states' /\ StatesConserved' /\ pc' = [pc EXCEPT ![c] = "rx"]
      /\ \A q : /\ Parked(q, compl_queue') \in Nat
                /\ Parked(q, compl_queue') = Parked(q, compl_queue) + (IF q = "rx" THEN 1 ELSE 0)
  BY <1>1, <1>3, <1>4, ParkCount
<1>6. QueueType'
  BY <1>0, <1>1, <1>2, <1>5 DEF QueueType
<1>7. HandledInv'
  BY <1>0, <1>1, <1>5 DEF HandledInv
<1>8. EntriesConserved'
  <2>1. /\ Parked("rx", compl_queue') = Parked("rx", compl_queue) + 1
        /\ Parked("tx", compl_queue') = Parked("tx", compl_queue)
        /\ Parked("tx", compl_queue) \in Nat /\ Parked("rx", compl_queue) \in Nat
        /\ CountIn("rx", completion_pendingq) \in Nat
        /\ Len(dest) \in Nat /\ recv_bufs_needed \in Nat
    <3>1. \A q : /\ Parked(q, compl_queue) \in Nat /\ CountIn(q, completion_pendingq) \in Nat
                 /\ Len(dest) \in Nat
      BY <1>0, CountsNat
    <3>2. /\ Parked("rx", compl_queue') = Parked("rx", compl_queue) + 1
          /\ Parked("tx", compl_queue') = Parked("tx", compl_queue) + 0
      BY <1>5
    <3>3. Parked("tx", compl_queue) \in Nat
      BY <3>1
    <3>4. Parked("tx", compl_queue') = Parked("tx", compl_queue)
      BY <3>2, <3>3
    <3> QED
      BY <1>0, <3>1, <3>2, <3>4 DEF QueueType
  <2> QED
    BY <1>1, <1>2, <2>1 DEF CountInv, EntriesConserved
<1> QED
  BY <1>5, <1>6, <1>7, <1>8 DEF CountInv

(* The queue of the CE callback moves to completion_pendingq as it is. *)
LEMMA AppendCount ==
  ASSUME CountInv, ThreadInv, NEW c \in Contexts, AppendPending(c)
  PROVE  CountInv'
<1> DEFINE w == IF completion_pendingq = <<>> THEN "alert" ELSE "idle"
<1>0. QueueType /\ HandledInv /\ pc \in [Contexts -> Places]
  BY DEF CountInv, ThreadInv
<1>1. /\ pc[c] = "append" /\ pc' = [pc EXCEPT ![c] = w]
      /\ completion_pendingq' = completion_pendingq \o compl_queue[c]
      /\ compl_queue' = [compl_queue EXCEPT ![c] = <<>>]
      /\ UNCHANGED <<src, srcDone, dest, destDone, num_sends_allowed, recv_bufs_needed,
                     completion_freeq, out_of_states, compl_state>>
  BY DEF AppendPending, Goto, ringVars, countVars
<1>2. compl_queue[c] \in Seq(Items) /\ completion_pendingq \in Seq(Items) /\ <<>> \in Seq(Items)
  BY <1>0 DEF QueueType
<1>3. ASSUME NEW q
      PROVE  /\ CountIn(q, completion_pendingq') + Parked(q, compl_queue')
                  = CountIn(q, completion_pendingq) + Parked(q, compl_queue)
             /\ CountIn(q, completion_pendingq') \in Nat /\ Parked(q, compl_queue') \in Nat
             /\ CountIn(q, completion_pendingq) \in Nat /\ Parked(q, compl_queue) \in Nat
  <2>1. CountIn(q, completion_pendingq')
          = CountIn(q, completion_pendingq) + CountIn(q, compl_queue[c])
    BY <1>1, <1>2, CountConcat
  <2>2. CountIn(q, completion_pendingq) \in Nat /\ CountIn(q, compl_queue[c]) \in Nat
    BY <1>2, CountType
  <2>3. CountIn(q, <<>>) = 0
    BY CountEmpty
  <2>4. /\ Parked(q, compl_queue) \in Nat /\ Parked(q, compl_queue') \in Nat
        /\ Parked(q, compl_queue') - CountIn(q, <<>>)
             = Parked(q, compl_queue) - CountIn(q, compl_queue[c])
    BY <1>0, <1>1, <1>2, ParkedStep DEF QueueType
  <2> QED
    BY <2>1, <2>2, <2>3, <2>4
<1>4. QueueType'
  BY <1>0, <1>1, <1>2 DEF QueueType
<1>5. HandledInv'
  BY <1>0, <1>1 DEF HandledInv
<1>6. StatesConserved'
  <2> SUFFICES ASSUME NEW q \in Pipes
               PROVE  completion_freeq'[q] + CountIn(q, completion_pendingq')
                        + Parked(q, compl_queue') + Parked(q, compl_state')
                        = CompletionStates(q)
    BY DEF StatesConserved
  <2>1. completion_freeq[q] \in Nat /\ Parked(q, compl_state) \in Nat
    BY <1>0, CountsNat DEF QueueType
  <2>2. completion_freeq[q] + CountIn(q, completion_pendingq) + Parked(q, compl_queue)
          + Parked(q, compl_state) = CompletionStates(q)
    BY DEF CountInv, StatesConserved
  <2>3. completion_freeq'[q] = completion_freeq[q] /\ compl_state' = compl_state
    BY <1>1
  <2> QED
    BY <1>3, <2>1, <2>2, <2>3
<1>7. EntriesConserved'
  <2>1. /\ Len(src) \in Nat /\ Len(srcDone) \in Nat /\ Len(dest) \in Nat /\ Len(destDone) \in Nat
        /\ num_sends_allowed \in Nat /\ recv_bufs_needed \in Nat
        /\ Parked("tx", compl_state) \in Nat
    BY <1>0, CountsNat DEF QueueType
  <2>2. num_sends_allowed' + Len(src') + Len(srcDone') + CountIn("tx", completion_pendingq')
          + Parked("tx", compl_queue') + Parked("tx", compl_state') = src_nentries - 1
    <3> DEFINE n == num_sends_allowed
               l == Len(src)
               m == Len(srcDone)
               x == CountIn("tx", completion_pendingq)
               y == Parked("tx", compl_queue)
               z == Parked("tx", compl_state)
               x1 == CountIn("tx", completion_pendingq')
               y1 == Parked("tx", compl_queue')
               z1 == Parked("tx", compl_state')
    <3>1. n + l + m + x + y + z = src_nentries - 1
      BY DEF CountInv, EntriesConserved
    <3>2. /\ n \in Nat /\ l \in Nat /\ m \in Nat /\ x \in Nat /\ y \in Nat /\ z \in Nat /\ x1 \in Nat /\ y1 \in Nat /\ z1 \in Nat
          /\ x1 + y1 = x + y /\ z1 = z
      BY <1>1, <1>3, <2>1
    <3>3. Len(src') = l /\ Len(srcDone') = m /\ num_sends_allowed' = n
      BY <1>1
    <3>4. src_nentries \in Nat
      BY PipesAssumption
    <3> HIDE DEF n, l, m, x, y, z, x1, y1, z1
    <3>5. num_sends_allowed' + Len(src') + Len(srcDone') + x1 + y1 + z1 = src_nentries - 1
      BY <3>1, <3>2, <3>3, <3>4
    <3> QED
      BY <3>5 DEF x1, y1, z1
  <2>3. recv_bufs_needed' + Len(dest') + Len(destDone') + CountIn("rx", completion_pendingq')
          + Parked("rx", compl_queue') = dest_nentries - 1
    <3> DEFINE n == recv_bufs_needed
               l == Len(dest)
               m == Len(destDone)
               x == CountIn("rx", completion_pendingq)
               y == Parked("rx", compl_queue)
               x1 == CountIn("rx", completion_pendingq')
               y1 == Parked("rx", compl_queue')
    <3>1. n + l + m + x + y = dest_nentries - 1
      BY DEF CountInv, EntriesConserved
    <3>2. /\ n \in Nat /\ l \in Nat /\ m \in Nat /\ x \in Nat /\ y \in Nat /\ x1 \in Nat /\ y1 \in Nat
          /\ x1 + y1 = x + y
      BY <1>3, <2>1
    <3>3. Len(dest') = l /\ Len(destDone') = m /\ recv_bufs_needed' = n
      BY <1>1
    <3>4. dest_nentries \in Nat
      BY PipesAssumption
    <3> HIDE DEF n, l, m, x, y, x1, y1
    <3>5. recv_bufs_needed' + Len(dest') + Len(destDone') + x1 + y1 = dest_nentries - 1
      BY <3>1, <3>2, <3>3, <3>4
    <3> QED
      BY <3>5 DEF x1, y1
  <2> QED
    BY <2>2, <2>3 DEF EntriesConserved
<1> QED
  BY <1>1, <1>4, <1>5, <1>6, <1>7 DEF CountInv

(* The thread takes a completion in hand ... *)
LEMMA DequeueCount ==
  ASSUME CountInv, ThreadInv, NEW c \in Contexts, Dequeue(c)
  PROVE  CountInv'
<1> DEFINE h == Head(completion_pendingq)
           t == Tail(completion_pendingq)
           D(p) == IF h.pipe = p THEN 1 ELSE 0
<1>0. QueueType /\ HandledInv /\ pc \in [Contexts -> Places]
  BY DEF CountInv, ThreadInv
<1>1. /\ pc[c] = "loop" /\ completion_pendingq # <<>>
      /\ completion_pendingq' = t
      /\ compl_state' = [compl_state EXCEPT ![c] = <<h>>]
      /\ UNCHANGED <<src, srcDone, dest, destDone, num_sends_allowed,
                     completion_freeq, out_of_states, compl_queue>>
  BY DEF Dequeue, ringVars
<1>2. PICK w \in {"post", "deliver"} : pc' = [pc EXCEPT ![c] = w]
  BY DEF Dequeue, Goto
<1>3. h \in Items /\ t \in Seq(Items) /\ completion_pendingq \in Seq(Items)
  BY <1>0, <1>1, CountHead DEF QueueType
<1>4. h.pipe \in Pipes /\ recv_bufs_needed' = recv_bufs_needed + D("rx")
  <2>1. h.pipe \in Pipes
    BY <1>3 DEF Items
  <2>2. recv_bufs_needed \in Nat
    BY <1>0 DEF QueueType
  <2> QED
    BY <2>1, <2>2 DEF Dequeue
<1>5. ASSUME NEW q
      PROVE  /\ CountIn(q, completion_pendingq) = CountIn(q, completion_pendingq') + D(q)
             /\ Parked(q, compl_state') = Parked(q, compl_state) + D(q)
             /\ CountIn(q, completion_pendingq) \in Nat /\ CountIn(q, completion_pendingq') \in Nat
             /\ Parked(q, compl_state) \in Nat /\ Parked(q, compl_state') \in Nat
  <2>1. CountIn(q, completion_pendingq) = CountIn(q, t) + D(q)
    BY <1>1, <1>3, CountHead
  <2>2. CountIn(q, completion_pendingq) \in Nat /\ CountIn(q, t) \in Nat
    BY <1>3, CountType
  <2>3. CountIn(q, <<h>>) = D(q) /\ <<h>> \in Seq(Items)
    BY <1>3, CountOne
  <2>4. compl_state[c] = <<>> /\ CountIn(q, <<>>) = 0
    BY <1>0, <1>1, CountEmpty DEF HandledInv
  <2>5. /\ Parked(q, compl_state) \in Nat /\ Parked(q, compl_state') \in Nat
        /\ Parked(q, compl_state') - CountIn(q, <<h>>)
             = Parked(q, compl_state) - CountIn(q, compl_state[c])
    <3> HIDE DEF h
    <3> QED
      BY <1>0, <1>1, <2>3, ParkedStep DEF QueueType
  <2> HIDE DEF h
  <2> QED
    BY <1>1, <2>1, <2>2, <2>3, <2>4, <2>5
<1>6. QueueType'
  <2>1. <<h>> \in Seq(Items)
    BY <1>3
  <2>2. recv_bufs_needed' \in Nat
    BY <1>0, <1>4 DEF QueueType
  <2> HIDE DEF h, t
  <2> QED
    BY <1>0, <1>1, <1>3, <2>1, <2>2 DEF QueueType
<1>7. HandledInv'
  <2>1. Len(<<h>>) = 1
    OBVIOUS
  <2> HIDE DEF h
  <2> QED
    BY <1>0, <1>1, <1>2, <2>1 DEF HandledInv, QueueType
<1>8. StatesConserved'
  <2> SUFFICES ASSUME NEW q \in Pipes
               PROVE  completion_freeq'[q] + CountIn(q, completion_pendingq')
                        + Parked(q, compl_queue') + Parked(q, compl_state')
                        = CompletionStates(q)
    BY DEF StatesConserved
  <2>1. completion_freeq[q] \in Nat /\ Parked(q, compl_queue) \in Nat
    BY <1>0, CountsNat DEF QueueType
  <2>2. completion_freeq[q] + CountIn(q, completion_pendingq) + Parked(q, compl_queue)
          + Parked(q, compl_state) = CompletionStates(q)
    BY DEF CountInv, StatesConserved
  <2>3. completion_freeq'[q] = completion_freeq[q] /\ compl_queue' = compl_queue
    BY <1>1
  <2>4. D(q) \in Nat
    OBVIOUS
  <2> HIDE DEF D
  <2> QED
    BY <1>5, <2>1, <2>2, <2>3, <2>4
<1>9. EntriesConserved'
  <2>1. /\ Len(src) \in Nat /\ Len(srcDone) \in Nat /\ Len(dest) \in Nat /\ Len(destDone) \in Nat
        /\ num_sends_allowed \in Nat /\ recv_bufs_needed \in Nat
        /\ Parked("tx", compl_queue) \in Nat /\ Parked("rx", compl_queue) \in Nat
    BY <1>0, CountsNat DEF QueueType
  <2>2. D("tx") \in Nat /\ D("rx") \in Nat
    OBVIOUS
  <2> HIDE DEF D
  <2>3. num_sends_allowed' + Len(src') + Len(srcDone') + CountIn("tx", completion_pendingq')
          + Parked("tx", compl_queue') + Parked("tx", compl_state') = src_nentries - 1
    <3> DEFINE d == D("tx")
               n == num_sends_allowed
               l == Len(src)
               m == Len(srcDone)
               x == CountIn("tx", completion_pendingq)
               y == Parked("tx", compl_queue)
               z == Parked("tx", compl_state)
               x1 == CountIn("tx", completion_pendingq')
               y1 == Parked("tx", compl_queue')
               z1 == Parked("tx", compl_state')
    <3>1. n + l + m + x + y + z = src_nentries - 1
      BY DEF CountInv, EntriesConserved
    <3>2. /\ n \in Nat /\ l \in Nat /\ m \in Nat /\ x \in Nat /\ y \in Nat /\ z \in Nat /\ x1 \in Nat /\ y1 \in Nat /\ z1 \in Nat
          /\ d \in Nat /\ x = x1 + d /\ z1 = z + d /\ y1 = y
      BY <1>1, <1>5, <2>1, <2>2
    <3>3. Len(src') = l /\ Len(srcDone') = m /\ num_sends_allowed' = n
      BY <1>1
    <3>4. src_nentries \in Nat
      BY PipesAssumption
    <3> HIDE DEF d, n, l, m, x, y, z, x1, y1, z1
    <3>5. num_sends_allowed' + Len(src') + Len(srcDone') + x1 + y1 + z1 = src_nentries - 1
      BY <3>1, <3>2, <3>3, <3>4
    <3> QED
      BY <3>5 DEF x1, y1, z1
  <2>4. recv_bufs_needed' + Len(dest') + Len(destDone') + CountIn("rx", completion_pendingq')
          + Parked("rx", compl_queue') = dest_nentries - 1
    <3> DEFINE d == D("rx")
               n == recv_bufs_needed
               l == Len(dest)
               m == Len(destDone)
               x == CountIn("rx", completion_pendingq)
               y == Parked("rx", compl_queue)
               x1 == CountIn("rx", completion_pendingq')
               y1 == Parked("rx", compl_queue')
    <3>1. n + l + m + x + y = dest_nentries - 1
      BY DEF CountInv, EntriesConserved
    <3>2. /\ n \in Nat /\ l \in Nat /\ m \in Nat /\ x \in Nat /\ y \in Nat /\ x1 \in Nat /\ y1 \in Nat
          /\ d \in Nat /\ x = x1 + d /\ y1 = y
      BY <1>1, <1>5, <2>1, <2>2
    <3>3. Len(dest') = l /\ Len(destDone') = m /\ recv_bufs_needed' = n + d
      BY <1>1, <1>4
    <3>4. dest_nentries \in Nat
      BY PipesAssumption
    <3> HIDE DEF d, n, l, m, x, y, x1, y1
    <3>5. recv_bufs_needed' + Len(dest') + Len(destDone') + x1 + y1 = dest_nentries - 1
      BY <3>1, <3>2, <3>3, <3>4
    <3> QED
      BY <3>5 DEF x1, y1
  <2> QED
    BY <2>3, <2>4 DEF EntriesConserved
<1> QED
  BY <1>1, <1>6, <1>7, <1>8, <1>9 DEF CountInv

(* ... and recycles its completion state, and a sent entry with it. *)
LEMMA RecycleCount ==
  ASSUME CountInv, ThreadInv, NEW c \in Contexts, Recycle(c)
  PROVE  CountInv'
<1> DEFINE h == Head(compl_state[c])
           D(p) == IF h.pipe = p THEN 1 ELSE 0
<1>0. QueueType /\ HandledInv /\ pc \in [Contexts -> Places]
  BY DEF CountInv, ThreadInv
<1>1. /\ pc[c] = "recycle" /\ pc' = [pc EXCEPT ![c] = "loop"]
      /\ completion_freeq' = [completion_freeq EXCEPT ![h.pipe] = completion_freeq[h.pipe] + 1]
      /\ num_sends_allowed' = num_sends_allowed + D("tx")
      /\ compl_state' = [compl_state EXCEPT ![c] = <<>>]
      /\ UNCHANGED <<src, srcDone, dest, destDone, recv_bufs_needed, completion_pendingq,
                     out_of_states, compl_queue>>
  BY DEF Recycle, Goto, ringVars
<1>2. compl_state[c] \in Seq(Items) /\ Len(compl_state[c]) = 1
  BY <1>0, <1>1 DEF QueueType, HandledInv
<1>3. compl_state[c] = <<h>> /\ h \in Items /\ h.pipe \in Pipes
  <2>1. compl_state[c] = <<h>> /\ h \in Items
    BY <1>2
  <2> QED
    BY <2>1 DEF Items
<1>4. ASSUME NEW q
      PROVE  /\ Parked(q, compl_state) = Parked(q, compl_state') + D(q)
             /\ Parked(q, compl_state) \in Nat /\ Parked(q, compl_state') \in Nat
  <2>1. CountIn(q, <<h>>) = D(q) /\ <<h>> \in Seq(Items)
    BY <1>3, CountOne
  <2>2. <<>> \in Seq(Items) /\ CountIn(q, <<>>) = 0
    BY CountEmpty
  <2>3. /\ Parked(q, compl_state) \in Nat /\ Parked(q, compl_state') \in Nat
        /\ Parked(q, compl_state') - CountIn(q, <<>>)
             = Parked(q, compl_state) - CountIn(q, compl_state[c])
    BY <1>0, <1>1, <2>2, ParkedStep DEF QueueType
  <2>4. CountIn(q, compl_state[c]) = D(q) /\ D(q) \in Nat
    BY <1>3, <2>1
  <2> HIDE DEF D
  <2> QED
    BY <2>2, <2>3, <2>4
<1>5. D("tx") \in Nat /\ D("rx") \in Nat
  OBVIOUS
<1>6. completion_freeq' \in [Pipes -> Nat]
      /\ \A q \in Pipes : completion_freeq'[q] = completion_freeq[q] + D(q)
  <2> HIDE DEF h
  <2>1. completion_freeq \in [Pipes -> Nat]
    BY <1>0 DEF QueueType
  <2> QED
    BY <1>1, <1>3, <2>1
<1>7. QueueType'
  <2>1. num_sends_allowed' \in Nat
    <3>1. num_sends_allowed \in Nat
      BY <1>0 DEF QueueType
    <3> HIDE DEF D
    <3> QED
      BY <1>1, <1>5, <3>1
  <2>2. compl_state' \in [Contexts -> Seq(Items)]
    <3>1. compl_state \in [Contexts -> Seq(Items)] /\ <<>> \in Seq(Items)
      BY <1>0 DEF QueueType
    <3> QED
      BY <1>1, <3>1
  <2> HIDE DEF D
  <2> QED
    BY <1>0, <1>1, <1>6, <2>1, <2>2 DEF QueueType
<1>8. HandledInv'
  BY <1>0, <1>1 DEF HandledInv, QueueType
<1>9. StatesConserved'
  <2> SUFFICES ASSUME NEW q \in Pipes
               PROVE  completion_freeq'[q] + CountIn(q, completion_pendingq')
                        + Parked(q, compl_queue') + Parked(q, compl_state')
                        = CompletionStates(q)
    BY DEF StatesConserved
  <2>1. /\ completion_freeq[q] \in Nat /\ Parked(q, compl_queue) \in Nat
        /\ CountIn(q, completion_pendingq) \in Nat
    BY <1>0, CountsNat DEF QueueType
  <2>2. completion_freeq[q] + CountIn(q, completion_pendingq) + Parked(q, compl_queue)
          + Parked(q, compl_state) = CompletionStates(q)
    BY DEF CountInv, StatesConserved
  <2>3. completion_pendingq' = completion_pendingq /\ compl_queue' = compl_queue
    BY <1>1
  <2>4. D(q) \in Nat /\ completion_freeq'[q] = completion_freeq[q] + D(q)
    BY <1>6
  <2> HIDE DEF D
  <2> QED
    BY <1>4, <2>1, <2>2, <2>3, <2>4
<1>10. EntriesConserved'
  <2>1. /\ Len(src) \in Nat /\ Len(srcDone) \in Nat /\ num_sends_allowed \in Nat
        /\ CountIn("tx", completion_pendingq) \in Nat /\ Parked("tx", compl_queue) \in Nat
    BY <1>0, CountsNat DEF QueueType
  <2> HIDE DEF D
  <2>2. num_sends_allowed' + Len(src') + Len(srcDone') + CountIn("tx", completion_pendingq')
          + Parked("tx", compl_queue') + Parked("tx", compl_state') = src_nentries - 1
    <3> DEFINE d == D("tx")
               n == num_sends_allowed
               l == Len(src)
               m == Len(srcDone)
               x == CountIn("tx", completion_pendingq)
               y == Parked("tx", compl_queue)
               z == Parked("tx", compl_state)
               x1 == CountIn("tx", completion_pendingq')
               y1 == Parked("tx", compl_queue')
               z1 == Parked("tx", compl_state')
    <3>1. n + l + m + x + y + z = src_nentries - 1
      BY DEF CountInv, EntriesConserved
    <3>2. /\ n \in Nat /\ l \in Nat /\ m \in Nat /\ x \in Nat /\ y \in Nat /\ z \in Nat /\ x1 \in Nat /\ y1 \in Nat /\ z1 \in Nat
          /\ d \in Nat /\ z = z1 + d /\ x1 = x /\ y1 = y
      BY <1>1, <1>4, <1>5, <2>1
    <3>3. Len(src') = l /\ Len(srcDone') = m /\ num_sends_allowed' = n + d
      BY <1>1
    <3>4. src_nentries \in Nat
      BY PipesAssumption
    <3> HIDE DEF d, n, l, m, x, y, z, x1, y1, z1
    <3>5. num_sends_allowed' + Len(src') + Len(srcDone') + x1 + y1 + z1 = src_nentries - 1
      BY <3>1, <3>2, <3>3, <3>4
    <3> QED
      BY <3>5 DEF x1, y1, z1
  <2> QED
    BY <1>1, <2>2 DEF CountInv, EntriesConserved
<1> QED
  BY <1>1, <1>7, <1>8, <1>9, <1>10 DEF CountInv

(* The other steps of the thread and of the callbacks. *)
LEMMA QuietCount ==
  ASSUME CountInv, ThreadInv, NEW c \in Contexts,
         UNCHANGED <<ringVars, countVars, compl_queue, compl_state, completion_pendingq>>,
         NEW w, pc' = [pc EXCEPT ![c] = w],
         pc[c] \in {"post", "deliver", "recycle"} <=> w \in {"post", "deliver", "recycle"}
  PROVE  CountInv'
<1>1. UNCHANGED <<src, srcDone, dest, destDone, num_sends_allowed, recv_bufs_needed,
                  completion_freeq, out_of_states, completion_pendingq, compl_queue, compl_state>>
  BY DEF ringVars, countVars
<1>2. HandledInv'
  BY <1>1 DEF CountInv, HandledInv, ThreadInv
<1>3. QueueType'
  BY <1>1 DEF CountInv, QueueType
<1> QED
  BY <1>1, <1>2, <1>3 DEF CountInv, StatesConserved, EntriesConserved

LEMMA PostCount ==
  ASSUME CountInv, NEW c \in Contexts, PostRecvBuffer(c)
  PROVE  CountInv'
<1>0. QueueType /\ HandledInv
  BY DEF CountInv
<1>1. PICK b \in RxBufs :
        /\ recv_bufs_needed > 0 /\ recv_bufs_needed' = recv_bufs_needed - 1
        /\ dest' = Append(dest, b)
        /\ UNCHANGED <<src, srcDone, destDone, num_sends_allowed, completion_freeq,
                       out_of_states, pc, completion_pendingq, compl_queue, compl_state>>
  BY DEF PostRecvBuffer, thread
<1>2. /\ dest' \in Seq(RxBufs) /\ Len(dest') = Len(dest) + 1 /\ Len(dest) \in Nat
      /\ Len(destDone) \in Nat /\ recv_bufs_needed \in Nat /\ recv_bufs_needed' \in Nat
  BY <1>0, <1>1, AppendLen DEF QueueType
<1>3. QueueType'
  BY <1>0, <1>1, <1>2 DEF QueueType
<1>4. HandledInv'
  BY <1>0, <1>1 DEF HandledInv
<1>5. recv_bufs_needed' + Len(dest') + Len(destDone')
            = recv_bufs_needed + Len(dest) + Len(destDone)
  BY <1>1, <1>2
<1> QED
  BY <1>1, <1>3, <1>4, <1>5, SameCompletions

LEMMA NextCount == CountInv /\ ThreadInv /\ [Next]_vars => CountInv'
<1> SUFFICES ASSUME CountInv, ThreadInv, [Next]_vars PROVE CountInv'
  OBVIOUS
<1>1. CASE (\E b \in TxBufs : HIFSend_head(b)) \/ CE_send_finished \/ CE_recv_finished
  BY <1>1, RingCount
<1>2. CASE HIF_fw_interrupt_handler
  <2>1. /\ pc' = [pc EXCEPT ![Tasklet] = "alert"] /\ pc[Tasklet] = "idle" /\ Tasklet \in Contexts
        /\ UNCHANGED <<ringVars, countVars, compl_queue, compl_state, completion_pendingq>>
    BY <1>2, PipesAssumption DEF HIF_fw_interrupt_handler, Goto
  <2> QED
    BY <2>1, QuietCount
<1>3. ASSUME NEW c \in Contexts, Service(c) PROVE CountInv'
  <2>1. CASE LeaveLoop(c)
    <3>1. PICK w \in {"idle", "append"} : pc' = [pc EXCEPT ![c] = w]
      BY <2>1 DEF LeaveLoop, Goto
    <3>2. /\ pc[c] \in {"tx", "rx"}
          /\ UNCHANGED <<ringVars, countVars, compl_queue, compl_state, completion_pendingq>>
      BY <2>1 DEF LeaveLoop
    <3> QED
      BY <3>1, <3>2, QuietCount
  <2> QED
    BY <1>3, <2>1, SendDoneCount, RecvDataCount, AppendCount DEF Service
<1>4. ASSUME NEW c \in Contexts, Thread(c) PROVE CountInv'
  <2>1. CASE TakeTurn(c) \/ NotTheLuckyOne(c) \/ StartThread(c) \/ LeaveThread(c)
    <3>1. PICK w \in {"idle", "start", "unlucky", "loop"} : pc' = [pc EXCEPT ![c] = w]
      BY <2>1 DEF TakeTurn, NotTheLuckyOne, StartThread, LeaveThread, Goto
    <3>2. /\ pc[c] \in {"alert", "unlucky", "start", "loop"}
          /\ UNCHANGED <<ringVars, countVars, compl_queue, compl_state, completion_pendingq>>
      BY <2>1 DEF TakeTurn, NotTheLuckyOne, StartThread, LeaveThread
    <3> QED
      BY <3>1, <3>2, QuietCount
  <2>2. CASE PostRecvEnd(c) \/ Deliver(c)
    <3>1. PICK w \in {"deliver", "recycle"} : pc' = [pc EXCEPT ![c] = w]
      BY <2>2 DEF PostRecvEnd, Deliver, Goto
    <3>2. /\ pc[c] \in {"post", "deliver"}
          /\ UNCHANGED <<src, srcDone, dest, destDone, countVars, compl_queue, compl_state,
                         completion_pendingq>>
      BY <2>2 DEF PostRecvEnd, Deliver, ringVars
    <3>3. HandledInv' /\ QueueType'
      BY <3>1, <3>2 DEF CountInv, HandledInv, ThreadInv, QueueType, countVars
    <3> QED
      BY <3>2, <3>3 DEF CountInv, StatesConserved, EntriesConserved, countVars
  <2>3. CASE HandleFwEvent(c)
    <3>1. UNCHANGED <<ringVars, countVars, thread>>
      BY <2>3 DEF HandleFwEvent
    <3>2. HandledInv' /\ QueueType'
      BY <3>1 DEF CountInv, HandledInv, QueueType, ringVars, countVars, thread
    <3> QED
      BY <3>1, <3>2 DEF CountInv, StatesConserved, EntriesConserved, ringVars, countVars, thread
  <2> QED
    BY <1>4, <2>1, <2>2, <2>3, DequeueCount, PostCount, RecycleCount DEF Thread
<1>5. CASE UNCHANGED vars
  <2>1. UNCHANGED <<ringVars, countVars, thread>>
    BY <1>5 DEF vars
  <2>2. HandledInv' /\ QueueType'
    BY <2>1 DEF CountInv, HandledInv, QueueType, ringVars, countVars, thread
  <2> QED
    BY <2>1, <2>2 DEF CountInv, StatesConserved, EntriesConserved, ringVars, countVars, thread
<1> QED
  BY <1>1, <1>2, <1>3, <1>4, <1>5 DEF Next

LEMMA CountInvariant == Spec => []CountInv
BY InitThread, NextThread, InitCount, NextCount, PTL DEF Spec

(* hif_pci.c, num_sends_allowed and recv_bufs_needed: for any ring sizes,   *)
(* fragments, contexts and interleaving, and whichever allocations fail, a  *)
(* ring entry is free, in transfer, finished, or with a completion; none is *)
(* leaked and none is minted.                                               *)
THEOREM EntriesAccounted == Spec => []EntriesConserved
<1>1. CountInv => EntriesConserved
  BY DEF CountInv
<1> QED
  BY <1>1, CountInvariant, PTL

(* hif_completion_thread_startup gives a pipe as many completion states as  *)
(* its ring has entries: "Out of free buf" is never reached.                *)
THEOREM FreeQueuesSuffice == Spec => []StatesSuffice
<1>1. CountInv => StatesSuffice
  BY DEF CountInv, StatesSuffice
<1> QED
  BY <1>1, CountInvariant, PTL

-----------------------------------------------------------------------------
(***************************************************************************)
(* The order of completions.  The transfers finished and not delivered lie *)
(* in four places: in the thread's hands, in completion_pendingq, in the   *)
(* local queue of the one context that services the pipe, and in the ring. *)
(* Read in this order and picking out what belongs to the pipe, they are   *)
(* the transfers in the order they finished (OrderInv).  Every step moves  *)
(* completions from the head of one place to the tail of the place before. *)
(***************************************************************************)

(* s is what is left of the queue q when only the elements of K are kept,  *)
(* and each is replaced by its value under v; f says where each comes from. *)
PickMap(f, s, q, K, v) ==
    /\ f \in [1..Len(s) -> 1..Len(q)]
    /\ \A k, l \in 1..Len(s) : k < l => f[k] < f[l]
    /\ \A k \in 1..Len(s) : q[f[k]] \in K /\ s[k] = v[q[f[k]]]
    /\ \A j \in 1..Len(q) : q[j] \in K => \E k \in 1..Len(s) : f[k] = j

Picked(s, q, K, v) == \E f : PickMap(f, s, q, K, v)

LEMMA PickNone ==
  ASSUME NEW E, NEW q \in Seq(E), NEW K, NEW v, \A j \in 1..Len(q) : q[j] \notin K
  PROVE  Picked(<<>>, q, K, v)
<1> DEFINE f == [k \in 1..0 |-> 1]
<1>1. Len(<<>>) = 0 /\ \A k : k \notin 1..0
  OBVIOUS
<1>2. f \in [1..0 -> 1..Len(q)]
  BY <1>1
<1> HIDE DEF f
<1>3. PickMap(f, <<>>, q, K, v)
  BY <1>1, <1>2 DEF PickMap
<1> QED
  BY <1>3 DEF Picked

LEMMA PickOne ==
  ASSUME NEW E, NEW e \in E, NEW K, NEW v, e \in K
  PROVE  Picked(<<v[e]>>, <<e>>, K, v)
<1> DEFINE f == [k \in 1..1 |-> 1]
<1>1. Len(<<v[e]>>) = 1 /\ Len(<<e>>) = 1 /\ <<e>>[1] = e /\ <<v[e]>>[1] = v[e]
  OBVIOUS
<1>2. f \in [1..1 -> 1..1] /\ f[1] = 1
  OBVIOUS
<1>3. \A k \in 1..1 : k = 1
  OBVIOUS
<1>4. \A k, l \in 1..1 : ~(k < l)
  OBVIOUS
<1> HIDE DEF f
<1>5. PickMap(f, <<v[e]>>, <<e>>, K, v)
  BY <1>1, <1>2, <1>3, <1>4 DEF PickMap
<1> QED
  BY <1>5 DEF Picked

(* Queues one behind the other. *)
LEMMA PickConcat ==
  ASSUME NEW B, NEW E, NEW s \in Seq(B), NEW t \in Seq(B), NEW q \in Seq(E), NEW r \in Seq(E),
         NEW K, NEW v, Picked(s, q, K, v), Picked(t, r, K, v)
  PROVE  Picked(s \o t, q \o r, K, v)
<1> DEFINE m == Len(s)
           n == Len(t)
           a == Len(q)
           b == Len(r)
           x == s \o t
           y == q \o r
<1>1. /\ m \in Nat /\ n \in Nat /\ a \in Nat /\ b \in Nat
      /\ Len(x) = m + n /\ Len(y) = a + b
  OBVIOUS
<1>2. /\ \A k \in 1..m : x[k] = s[k]
      /\ \A k \in 1..(m + n) : k > m => x[k] = t[k - m]
  OBVIOUS
<1>3. /\ \A j \in 1..a : y[j] = q[j]
      /\ \A j \in 1..(a + b) : j > a => y[j] = r[j - a]
  OBVIOUS
<1>4. PICK f \in [1..m -> 1..a] :
        /\ \A k, l \in 1..m : k < l => f[k] < f[l]
        /\ \A k \in 1..m : q[f[k]] \in K /\ s[k] = v[q[f[k]]]
        /\ \A j \in 1..a : q[j] \in K => \E k \in 1..m : f[k] = j
  BY DEF Picked, PickMap
<1>5. PICK g \in [1..n -> 1..b] :
        /\ \A k, l \in 1..n : k < l => g[k] < g[l]
        /\ \A k \in 1..n : r[g[k]] \in K /\ t[k] = v[r[g[k]]]
        /\ \A j \in 1..b : r[j] \in K => \E k \in 1..n : g[k] = j
  BY DEF Picked, PickMap
<1> HIDE DEF m, n, a, b, x, y
<1> DEFINE h == [k \in 1..(m + n) |-> IF k <= m THEN f[k] ELSE a + g[k - m]]
<1>6. ASSUME NEW k \in 1..(m + n)
      PROVE  /\ k <= m => k \in 1..m /\ f[k] \in 1..a /\ h[k] = f[k] /\ h[k] \in 1..(a + b)
             /\ ~(k <= m) => /\ k - m \in 1..n /\ g[k - m] \in 1..b /\ h[k] = a + g[k - m]
                             /\ h[k] > a /\ h[k] \in 1..(a + b) /\ h[k] - a = g[k - m]
  <2>1. k <= m => k \in 1..m /\ f[k] \in 1..a /\ h[k] = f[k]
    BY <1>1, <1>4
  <2>2. k <= m => h[k] \in 1..(a + b)
    BY <1>1, <2>1
  <2>3. ~(k <= m) => k - m \in 1..n /\ g[k - m] \in 1..b /\ h[k] = a + g[k - m]
    BY <1>1, <1>5
  <2>4. ~(k <= m) => h[k] > a /\ h[k] \in 1..(a + b) /\ h[k] - a = g[k - m]
    BY <1>1, <2>3
  <2> QED
    BY <2>1, <2>2, <2>3, <2>4
<1>7. h \in [1..(m + n) -> 1..(a + b)]
  BY <1>6
<1> HIDE DEF h
<1>8. ASSUME NEW k \in 1..(m + n), NEW l \in 1..(m + n), k < l PROVE h[k] < h[l]
  <2>1. CASE l <= m
    <3>1. k <= m
      BY <1>1, <1>8, <2>1
    <3> QED
      BY <1>4, <1>6, <1>8, <2>1, <3>1
  <2>2. CASE k <= m /\ ~(l <= m)
    BY <1>1, <1>6, <2>2
  <2>3. CASE ~(k <= m)
    <3>1. ~(l <= m) /\ k - m < l - m
      BY <1>1, <1>8, <2>3
    <3>2. g[k - m] < g[l - m] /\ g[k - m] \in 1..b /\ g[l - m] \in 1..b
      BY <1>5, <1>6, <2>3, <3>1
    <3>3. h[k] = a + g[k - m] /\ h[l] = a + g[l - m]
      BY <1>6, <2>3, <3>1
    <3>4. \A i, j \in 1..b : i < j => a + i < a + j
      BY <1>1
    <3> QED
      BY <3>2, <3>3, <3>4
  <2> QED
    BY <2>1, <2>2, <2>3
<1>9. ASSUME NEW k \in 1..(m + n) PROVE y[h[k]] \in K /\ x[k] = v[y[h[k]]]
  <2>1. CASE k <= m
    BY <1>2, <1>3, <1>4, <1>6, <2>1
  <2>2. CASE ~(k <= m)
    <3>1. y[h[k]] = r[g[k - m]]
      BY <1>3, <1>6, <2>2
    <3>2. x[k] = t[k - m]
      BY <1>1, <1>2, <2>2
    <3> QED
      BY <1>5, <1>6, <2>2, <3>1, <3>2
  <2> QED
    BY <2>1, <2>2
<1>10. ASSUME NEW j \in 1..(a + b), y[j] \in K PROVE \E k \in 1..(m + n) : h[k] = j
  <2>1. CASE j <= a
    <3>1. j \in 1..a
      BY <1>1, <2>1
    <3>2. PICK k \in 1..m : f[k] = j
      BY <1>3, <1>4, <1>10, <3>1
    <3>3. k \in 1..(m + n) /\ k <= m
      BY <1>1
    <3> QED
      BY <1>6, <3>2, <3>3
  <2>2. CASE ~(j <= a)
    <3>1. j - a \in 1..b /\ y[j] = r[j - a]
      <4>1. j - a \in 1..b /\ j > a
        BY <1>1, <2>2
      <4> QED
        BY <1>3, <4>1
    <3>2. PICK k \in 1..n : g[k] = j - a
      BY <1>5, <1>10, <3>1
    <3>3. k + m \in 1..(m + n) /\ ~(k + m <= m) /\ (k + m) - m = k
      BY <1>1
    <3>4. h[k + m] = a + (j - a)
      BY <1>6, <3>2, <3>3
    <3>5. a + (j - a) = j
      BY <1>1
    <3> QED
      BY <3>3, <3>4, <3>5
  <2> QED
    BY <2>1, <2>2
<1>11. Picked(x, y, K, v)
  <2>1. Len(x) = m + n /\ Len(y) = a + b
    BY <1>1
  <2>2. PickMap(h, x, y, K, v)
    BY <1>7, <1>8, <1>9, <1>10, <2>1 DEF PickMap
  <2> QED
    BY <2>2 DEF Picked
<1> QED
  BY <1>11 DEF x, y

(* The head of a queue, when it is kept, is the first of what is kept ... *)
LEMMA PickHead ==
  ASSUME NEW B, NEW E, NEW s \in Seq(B), NEW q \in Seq(E), q # <<>>,
         NEW K, NEW v, Picked(s, q, K, v), Head(q) \in K
  PROVE  s # <<>> /\ Head(s) = v[Head(q)] /\ Picked(Tail(s), Tail(q), K, v)
<1> DEFINE m == Len(s)
           a == Len(q)
<1>1. m \in Nat /\ a \in Nat /\ a >= 1 /\ Head(q) = q[1]
  OBVIOUS
<1>2. PICK f \in [1..m -> 1..a] :
        /\ \A k, l \in 1..m : k < l => f[k] < f[l]
        /\ \A k \in 1..m : q[f[k]] \in K /\ s[k] = v[q[f[k]]]
        /\ \A j \in 1..a : q[j] \in K => \E k \in 1..m : f[k] = j
  BY DEF Picked, PickMap
<1>3. PICK k1 \in 1..m : f[k1] = 1
  <2>1. 1 \in 1..a
    BY <1>1
  <2> QED
    BY <1>1, <1>2, <2>1
<1>4. k1 = 1
  <2> SUFFICES ASSUME k1 # 1 PROVE FALSE
    OBVIOUS
  <2>1. 1 \in 1..m /\ 1 < k1
    BY <1>1, <1>3
  <2>2. f[1] < 1 /\ f[1] \in 1..a
    BY <1>2, <1>3, <2>1
  <2> QED
    BY <1>1, <2>2
<1>5. s # <<>> /\ Head(s) = s[1] /\ m >= 1
  BY <1>1, <1>3
<1>6. Head(s) = v[Head(q)]
  BY <1>1, <1>2, <1>3, <1>4, <1>5
<1>7. /\ Len(Tail(s)) = m - 1 /\ Len(Tail(q)) = a - 1
      /\ \A k \in 1..(m - 1) : Tail(s)[k] = s[k + 1]
      /\ \A j \in 1..(a - 1) : Tail(q)[j] = q[j + 1]
  BY <1>5
<1> HIDE DEF m, a
<1> DEFINE g == [k \in 1..(m - 1) |-> f[k + 1] - 1]
<1>8. ASSUME NEW k \in 1..(m - 1)
      PROVE  k + 1 \in 1..m /\ g[k] = f[k + 1] - 1 /\ g[k] \in 1..(a - 1) /\ g[k] + 1 = f[k + 1]
             /\ f[k + 1] \in Nat
  <2>1. k + 1 \in 1..m /\ 1 \in 1..m /\ 1 < k + 1
    BY <1>1
  <2>2. f[1] < f[k + 1] /\ f[1] = 1 /\ f[k + 1] \in 1..a
    BY <1>2, <1>3, <1>4, <2>1
  <2> QED
    BY <1>1, <2>1, <2>2
<1>9. g \in [1..(m - 1) -> 1..(a - 1)]
  BY <1>8
<1> HIDE DEF g
<1>10. ASSUME NEW k \in 1..(m - 1), NEW l \in 1..(m - 1), k < l PROVE g[k] < g[l]
  <2>1. k + 1 < l + 1 /\ k + 1 \in 1..m /\ l + 1 \in 1..m
    BY <1>8, <1>10
  <2>2. f[k + 1] < f[l + 1]
    BY <1>2, <2>1
  <2> QED
    BY <1>8, <2>2
<1>11. ASSUME NEW k \in 1..(m - 1)
       PROVE  Tail(q)[g[k]] \in K /\ Tail(s)[k] = v[Tail(q)[g[k]]]
  <2>1. Tail(q)[g[k]] = q[f[k + 1]] /\ Tail(s)[k] = s[k + 1] /\ k + 1 \in 1..m
    BY <1>7, <1>8
  <2> QED
    BY <1>2, <2>1
<1>12. ASSUME NEW j \in 1..(a - 1), Tail(q)[j] \in K PROVE \E k \in 1..(m - 1) : g[k] = j
  <2>1. j + 1 \in 1..a /\ Tail(q)[j] = q[j + 1]
    BY <1>1, <1>7
  <2>2. PICK l \in 1..m : f[l] = j + 1
    BY <1>2, <1>12, <2>1
  <2>3. l # 1
    BY <1>3, <1>4, <2>2
  <2>4. l - 1 \in 1..(m - 1) /\ (l - 1) + 1 = l
    BY <1>1, <2>3
  <2>5. g[l - 1] = (j + 1) - 1
    BY <1>8, <2>2, <2>4
  <2> QED
    BY <2>4, <2>5
<1>13. PickMap(g, Tail(s), Tail(q), K, v)
  BY <1>7, <1>9, <1>10, <1>11, <1>12 DEF PickMap
<1>14. Picked(Tail(s), Tail(q), K, v)
  BY <1>13 DEF Picked
<1> QED
  BY <1>5, <1>6, <1>14

(* ... and when it is not, the rest of the queue says the same. *)
LEMMA PickSkip ==
  ASSUME NEW B, NEW E, NEW s \in Seq(B), NEW q \in Seq(E), q # <<>>,
         NEW K, NEW v, Picked(s, q, K, v), Head(q) \notin K
  PROVE  Picked(s, Tail(q), K, v)
<1> DEFINE m == Len(s)
           a == Len(q)
<1>1. m \in Nat /\ a \in Nat /\ a >= 1 /\ Head(q) = q[1]
  OBVIOUS
<1>2. PICK f \in [1..m -> 1..a] :
        /\ \A k, l \in 1..m : k < l => f[k] < f[l]
        /\ \A k \in 1..m : q[f[k]] \in K /\ s[k] = v[q[f[k]]]
        /\ \A j \in 1..a : q[j] \in K => \E k \in 1..m : f[k] = j
  BY DEF Picked, PickMap
<1>3. /\ Len(Tail(q)) = a - 1
      /\ \A j \in 1..(a - 1) : Tail(q)[j] = q[j + 1]
  OBVIOUS
<1>4. Len(s) = m
  OBVIOUS
<1> HIDE DEF m, a
<1> DEFINE g == [k \in 1..m |-> f[k] - 1]
<1>5. ASSUME NEW k \in 1..m
      PROVE  g[k] = f[k] - 1 /\ g[k] \in 1..(a - 1) /\ g[k] + 1 = f[k] /\ f[k] \in Nat
  <2>1. f[k] \in 1..a /\ f[k] # 1
    BY <1>1, <1>2
  <2> QED
    BY <1>1, <2>1
<1>6. g \in [1..m -> 1..(a - 1)]
  BY <1>5
<1> HIDE DEF g
<1>7. ASSUME NEW k \in 1..m, NEW l \in 1..m, k < l PROVE g[k] < g[l]
  BY <1>2, <1>5, <1>7
<1>8. ASSUME NEW k \in 1..m PROVE Tail(q)[g[k]] \in K /\ s[k] = v[Tail(q)[g[k]]]
  <2>1. Tail(q)[g[k]] = q[f[k]]
    BY <1>3, <1>5
  <2> QED
    BY <1>2, <2>1
<1>9. ASSUME NEW j \in 1..(a - 1), Tail(q)[j] \in K PROVE \E k \in 1..m : g[k] = j
  <2>1. j + 1 \in 1..a /\ Tail(q)[j] = q[j + 1]
    BY <1>1, <1>3
  <2>2. PICK l \in 1..m : f[l] = j + 1
    BY <1>2, <1>9, <2>1
  <2> QED
    BY <1>5, <2>2
<1>10. PickMap(g, s, Tail(q), K, v)
  BY <1>3, <1>4, <1>6, <1>7, <1>8, <1>9 DEF PickMap
<1> QED
  BY <1>10 DEF Picked

LEMMA PickEmpty ==
  ASSUME NEW B, NEW s \in Seq(B), NEW K, NEW v, Picked(s, <<>>, K, v)
  PROVE  s = <<>>
<1> SUFFICES ASSUME s # <<>> PROVE FALSE
  OBVIOUS
<1>1. Len(<<>>) = 0 /\ 1 \in 1..Len(s)
  OBVIOUS
<1>2. PICK f : f \in [1..Len(s) -> 1..0]
  BY <1>1 DEF Picked, PickMap
<1>3. f[1] \in 1..0
  BY <1>1, <1>2
<1> QED
  BY <1>3

(* One more element at the end of a queue, kept or not. *)
LEMMA PickAppend ==
  ASSUME NEW B, NEW E, NEW s \in Seq(B), NEW q \in Seq(E), NEW e \in E,
         NEW K, NEW v, Picked(s, q, K, v), v[e] \in B
  PROVE  /\ e \in K => Picked(Append(s, v[e]), Append(q, e), K, v)
         /\ e \notin K => Picked(s, Append(q, e), K, v)
<1>1. /\ Append(q, e) = q \o <<e>> /\ Append(s, v[e]) = s \o <<v[e]>> /\ s \o <<>> = s
      /\ <<e>> \in Seq(E) /\ <<v[e]>> \in Seq(B) /\ <<>> \in Seq(B)
  OBVIOUS
<1>2. CASE e \in K
  <2>1. Picked(<<v[e]>>, <<e>>, K, v)
    BY <1>2, PickOne
  <2>2. Picked(s \o <<v[e]>>, q \o <<e>>, K, v)
    BY <1>1, <2>1, PickConcat
  <2> QED
    BY <1>1, <1>2, <2>2
<1>3. CASE e \notin K
  <2>1. Picked(<<>>, <<e>>, K, v)
    <3>1. \A j \in 1..Len(<<e>>) : <<e>>[j] \notin K
      BY <1>3
    <3> QED
      BY <1>1, <3>1, PickNone
  <2>2. Picked(s \o <<>>, q \o <<e>>, K, v)
    BY <1>1, <2>1, PickConcat
  <2> QED
    BY <1>1, <1>3, <2>2
<1> QED
  BY <1>2, <1>3

(* What is delivered first is taken off the front of the history. *)
LEMMA RemoveFront ==
  ASSUME NEW B, NEW b \in B, NEW s \in Seq(B)
  PROVE  RemoveFirst(<<b>> \o s, b) = s
<1> DEFINE x == <<b>> \o s
           I == {i \in 1..Len(x) : x[i] = b}
<1>1. x \in Seq(B) /\ Len(x) = Len(s) + 1 /\ x[1] = b /\ Tail(x) = s /\ Len(s) \in Nat
  OBVIOUS
<1>2. 1 \in I /\ \A i \in I : i \in Nat /\ 1 <= i
  BY <1>1
<1>3. Min(I) = 1
  <2>1. \A m \in I : (\A i \in I : m =< i) => m = 1
    BY <1>2
  <2> HIDE DEF I
  <2> QED
    BY <1>2, <2>1 DEF Min
<1>4. SelectInSeq(x, LAMBDA v : v = b) = 1
  BY <1>2, <1>3 DEF SelectInSeq
<1>5. RemoveFirst(x, b) = RemoveAt(x, 1)
  BY <1>1, <1>2, <1>4 DEF RemoveFirst
<1>6. RemoveAt(x, 1) = s
  <2>1. SubSeq(x, 1, 0) = <<>> /\ SubSeq(x, 2, Len(x)) = Tail(x)
    <3> HIDE DEF x
    <3> QED
      BY <1>1
  <2>2. 1 - 1 = 0 /\ 1 + 1 = 2 /\ <<>> \o s = s
    OBVIOUS
  <2> HIDE DEF x
  <2> QED
    BY <1>1, <2>1, <2>2 DEF RemoveAt
<1> QED
  BY <1>5, <1>6

(* Concatenation and Append under names the provers do not look into. *)
Cat(s, t) == s \o t
Add(s, b) == Append(s, b)

LEMMA CatFacts ==
  ASSUME NEW B
  PROVE  /\ \A s, t \in Seq(B) : Cat(s, t) \in Seq(B)
         /\ \A s, t, u \in Seq(B) : Cat(Cat(s, t), u) = Cat(s, Cat(t, u))
         /\ \A s \in Seq(B), b \in B : Add(s, b) = Cat(s, <<b>>) /\ <<b>> \in Seq(B)
         /\ <<>> \in Seq(B)
<1>1. ASSUME NEW s \in Seq(B), NEW t \in Seq(B) PROVE Cat(s, t) \in Seq(B)
  BY DEF Cat
<1>2. ASSUME NEW s \in Seq(B), NEW t \in Seq(B), NEW u \in Seq(B)
      PROVE  Cat(Cat(s, t), u) = Cat(s, Cat(t, u))
  BY SMT DEF Cat
<1>3. ASSUME NEW s \in Seq(B), NEW b \in B
      PROVE  Add(s, b) = Cat(s, <<b>>) /\ <<b>> \in Seq(B)
  BY AppendIsConcat DEF Cat, Add
<1>4. <<>> \in Seq(B)
  OBVIOUS
<1> QED
  BY <1>1, <1>2, <1>3, <1>4

(* The four places one behind the other. *)
Joined(s1, s2, s3, s4) == Cat(Cat(s1, s2), Cat(s3, s4))

LEMMA JoinedSeq ==
  ASSUME NEW B
  PROVE  \A s1, s2, s3, s4 \in Seq(B) :
             /\ Joined(s1, s2, s3, s4) \in Seq(B)
             /\ Joined(s1, s2, s3, s4) = Cat(s1, Cat(Cat(s2, s3), s4))
             /\ Joined(s1, s2, s3, s4) = Cat(s1, Cat(s2, Cat(s3, s4)))
<1>1. ASSUME NEW s1 \in Seq(B), NEW s2 \in Seq(B), NEW s3 \in Seq(B), NEW s4 \in Seq(B)
      PROVE  /\ Joined(s1, s2, s3, s4) \in Seq(B)
             /\ Joined(s1, s2, s3, s4) = Cat(s1, Cat(Cat(s2, s3), s4))
             /\ Joined(s1, s2, s3, s4) = Cat(s1, Cat(s2, Cat(s3, s4)))
  <2>1. Cat(s1, s2) \in Seq(B) /\ Cat(s3, s4) \in Seq(B) /\ Cat(s2, s3) \in Seq(B)
    BY CatFacts
  <2>2. Cat(Cat(s1, s2), Cat(s3, s4)) = Cat(s1, Cat(s2, Cat(s3, s4)))
    BY <2>1, CatFacts
  <2>3. Cat(Cat(s2, s3), s4) = Cat(s2, Cat(s3, s4))
    BY CatFacts
  <2>4. Cat(Cat(s1, s2), Cat(s3, s4)) \in Seq(B)
    BY <2>1, CatFacts
  <2> QED
    BY <2>2, <2>3, <2>4 DEF Joined
<1> QED
  BY <1>1

LEMMA CatEnds ==
  ASSUME NEW B, NEW s \in Seq(B)
  PROVE  /\ Cat(<<>>, s) = s /\ Cat(s, <<>>) = s
         /\ \A b \in B : /\ Cat(<<b>>, s) # <<>> /\ Head(Cat(<<b>>, s)) = b
                         /\ Tail(Cat(<<b>>, s)) = s /\ RemoveFirst(Cat(<<b>>, s), b) = s
         /\ s # <<>> => s = Cat(<<Head(s)>>, Tail(s))
<1>1. Cat(<<>>, s) = s /\ Cat(s, <<>>) = s
  BY ConcatEmptySeq DEF Cat
<1>2. ASSUME NEW b \in B
      PROVE  /\ Cat(<<b>>, s) # <<>> /\ Head(Cat(<<b>>, s)) = b
             /\ Tail(Cat(<<b>>, s)) = s
  BY DEF Cat
<1>3. ASSUME NEW b \in B PROVE RemoveFirst(Cat(<<b>>, s), b) = s
  BY RemoveFront DEF Cat
<1>4. s # <<>> => s = Cat(<<Head(s)>>, Tail(s))
  BY DEF Cat
<1> QED
  BY <1>1, <1>2, <1>3, <1>4

(* A transfer finishes: last of all. *)
LEMMA JoinedAppend ==
  ASSUME NEW B, NEW s1 \in Seq(B), NEW s2 \in Seq(B), NEW s3 \in Seq(B), NEW s4 \in Seq(B),
         NEW b \in B
  PROVE  Add(Joined(s1, s2, s3, s4), b) = Joined(s1, s2, s3, Add(s4, b))
<1>1. PICK u : u = <<b>>
  OBVIOUS
<1>2. u \in Seq(B) /\ Cat(s1, s2) \in Seq(B) /\ Cat(s3, s4) \in Seq(B)
      /\ Cat(Cat(s1, s2), Cat(s3, s4)) \in Seq(B)
  BY <1>1, CatFacts
<1>3. Add(Cat(Cat(s1, s2), Cat(s3, s4)), b) = Cat(Cat(Cat(s1, s2), Cat(s3, s4)), u)
  BY <1>1, <1>2, CatFacts
<1>4. Cat(Cat(Cat(s1, s2), Cat(s3, s4)), u) = Cat(Cat(s1, s2), Cat(s3, Cat(s4, u)))
  BY <1>2, CatFacts
<1>5. Add(s4, b) = Cat(s4, u)
  BY <1>1, CatFacts
<1> QED
  BY <1>3, <1>4, <1>5 DEF Joined

(* The head of the ring moves to the end of the local queue. *)
LEMMA JoinedParked ==
  ASSUME NEW B, NEW s1 \in Seq(B), NEW s2 \in Seq(B), NEW s3 \in Seq(B), NEW s4 \in Seq(B),
         s4 # <<>>
  PROVE  /\ Head(s4) \in B /\ Tail(s4) \in Seq(B) /\ Add(s3, Head(s4)) \in Seq(B)
         /\ Joined(s1, s2, s3, s4) = Joined(s1, s2, Add(s3, Head(s4)), Tail(s4))
<1>1. Head(s4) \in B /\ Tail(s4) \in Seq(B)
  BY TailLen
<1>2. PICK b \in B : b = Head(s4)
  BY <1>1
<1>3. PICK t \in Seq(B) : t = Tail(s4)
  BY <1>1
<1>4. PICK u : u = <<b>>
  OBVIOUS
<1>5. u \in Seq(B) /\ s4 = Cat(u, t) /\ Add(s3, b) = Cat(s3, u) /\ Cat(s3, u) \in Seq(B)
  <2>1. s4 = Cat(<<Head(s4)>>, Tail(s4))
    BY CatEnds
  <2>2. Add(s3, b) = Cat(s3, <<b>>) /\ <<b>> \in Seq(B)
    BY CatFacts
  <2>3. u \in Seq(B)
    BY <1>4, <2>2
  <2>4. Cat(s3, u) \in Seq(B)
    BY <2>3, CatFacts
  <2> QED
    BY <1>2, <1>3, <1>4, <2>1, <2>2, <2>3, <2>4
<1>6. Cat(Cat(s3, u), t) = Cat(s3, Cat(u, t))
  BY <1>5, CatFacts
<1>7. Joined(s1, s2, s3, s4) = Joined(s1, s2, Add(s3, b), t)
  BY <1>5, <1>6 DEF Joined
<1> QED
  BY <1>1, <1>2, <1>3, <1>5, <1>7

(* The local queue moves behind what is pending. *)
LEMMA JoinedPending ==
  ASSUME NEW B, NEW s1 \in Seq(B), NEW s2 \in Seq(B), NEW s3 \in Seq(B), NEW s4 \in Seq(B)
  PROVE  Joined(s1, s2, s3, s4) = Joined(s1, Cat(s2, s3), <<>>, s4)
<1>1. Cat(<<>>, s4) = s4
  BY CatEnds
<1>4. Cat(s2, s3) \in Seq(B)
  BY CatFacts
<1>2. Cat(Cat(s1, Cat(s2, s3)), s4) = Cat(s1, Cat(Cat(s2, s3), s4))
  BY <1>4, CatFacts
<1>3. Joined(s1, s2, s3, s4) = Cat(s1, Cat(Cat(s2, s3), s4))
  BY JoinedSeq
<1> QED
  BY <1>1, <1>2, <1>3 DEF Joined

(* The head of what is pending is taken in hand ... *)
LEMMA JoinedTaken ==
  ASSUME NEW B, NEW s2 \in Seq(B), NEW s3 \in Seq(B), NEW s4 \in Seq(B), s2 # <<>>
  PROVE  /\ Head(s2) \in B /\ Tail(s2) \in Seq(B) /\ <<Head(s2)>> \in Seq(B)
         /\ Joined(<<>>, s2, s3, s4) = Joined(<<Head(s2)>>, Tail(s2), s3, s4)
<1>1. Head(s2) \in B /\ Tail(s2) \in Seq(B)
  BY TailLen
<1>2. <<Head(s2)>> \in Seq(B) /\ s2 = Cat(<<Head(s2)>>, Tail(s2)) /\ Cat(<<>>, s2) = s2
  BY <1>1, CatFacts, CatEnds
<1> QED
  BY <1>1, <1>2 DEF Joined

(* ... and delivered. *)
LEMMA JoinedDelivered ==
  ASSUME NEW B, NEW s2 \in Seq(B), NEW s3 \in Seq(B), NEW s4 \in Seq(B), NEW b \in B
  PROVE  /\ Joined(<<b>>, s2, s3, s4) # <<>>
         /\ Head(Joined(<<b>>, s2, s3, s4)) = b
         /\ RemoveFirst(Joined(<<b>>, s2, s3, s4), b) = Joined(<<>>, s2, s3, s4)
<1>1. PICK x : x = Cat(s2, Cat(s3, s4))
  OBVIOUS
<1>2. PICK u : u = <<b>>
  OBVIOUS
<1>3. u \in Seq(B) /\ <<>> \in Seq(B) /\ Cat(s3, s4) \in Seq(B) /\ x \in Seq(B)
  BY <1>1, <1>2, CatFacts
<1>4. Joined(u, s2, s3, s4) = Cat(u, x) /\ Joined(<<>>, s2, s3, s4) = Cat(<<>>, x)
  <2>1. ASSUME NEW v \in Seq(B) PROVE Joined(v, s2, s3, s4) = Cat(v, Cat(s2, Cat(s3, s4)))
    BY JoinedSeq
  <2> QED
    BY <1>1, <1>3, <2>1
<1>5. Cat(<<>>, x) = x /\ Cat(u, x) # <<>> /\ Head(Cat(u, x)) = b /\ RemoveFirst(Cat(u, x), b) = x
  BY <1>2, <1>3, CatEnds
<1> QED
  BY <1>2, <1>4, <1>5

-----------------------------------------------------------------------------
Bufs     == TxBufs \cup RxBufs
Ofs(p)   == {e \in Items : e.pipe = p}
BufOf    == [e \in Items |-> e.buf]
Entry    == [buf : TxBufs, last : BOOLEAN]
LastOnes == {e \in Entry : e.last}
EntryBuf == [e \in Entry |-> e.buf]

(* Contexts with a completion in hand that HTC has not got yet. *)
InHand == {c \in Contexts : pc[c] \in {"post", "deliver"}}

(* Four parts of a history, and the place each is in. *)
HandHolds(p, s) ==
    /\ \A c \in InHand :
          s = IF Head(compl_state[c]).pipe = p THEN <<Head(compl_state[c]).buf>> ELSE <<>>
    /\ InHand = {} => s = <<>>

PendingHolds(p, s) == Picked(s, completion_pendingq, Ofs(p), BufOf)

QueueHolds(p, s) ==
    \A c \in Contexts : p \in Services[c] => Picked(s, compl_queue[c], Ofs(p), BufOf)

RingHolds(p, s) ==
    IF p = "tx" THEN Picked(s, srcDone, LastOnes, EntryBuf) ELSE s = destDone

Parts(p, s1, s2, s3, s4) ==
    /\ HandHolds(p, s1) /\ PendingHolds(p, s2) /\ QueueHolds(p, s3) /\ RingHolds(p, s4)
    /\ finished[p] = Joined(s1, s2, s3, s4)

(* A context has completions only of the pipes it services. *)
OwnInv == \A c \in Contexts :
    /\ pc[c] \in Pipes => pc[c] \in Services[c]
    /\ \A j \in 1..Len(compl_queue[c]) : compl_queue[c][j].pipe \in Services[c]

OrderInv ==
    /\ finished \in [Pipes -> Seq(Bufs)]
    /\ OwnInv
    /\ \A p \in Pipes : \E s1, s2, s3, s4 \in Seq(Bufs) : Parts(p, s1, s2, s3, s4)

LEMMA BufTypes ==
  /\ \A p \in Pipes, b \in Bufs : /\ Item(p, b) \in Items /\ Item(p, b).pipe = p
                                  /\ Item(p, b).buf = b
  /\ \A e \in Items : e.buf \in Bufs /\ e.pipe \in Pipes /\ BufOf[e] = e.buf
  /\ \A e \in Entry : e.buf \in TxBufs /\ e.buf \in Bufs /\ EntryBuf[e] = e.buf
  /\ RxBufs \subseteq Bufs
BY DEF Items, Item, Bufs, BufOf, Entry, EntryBuf

LEMMA InitOrder == Init => OrderInv
<1> SUFFICES ASSUME Init PROVE OrderInv
  OBVIOUS
<1>1. /\ srcDone = <<>> /\ destDone = <<>> /\ completion_pendingq = <<>>
      /\ compl_queue = [c \in Contexts |-> <<>>] /\ pc = [c \in Contexts |-> "idle"]
      /\ finished = [p \in Pipes |-> <<>>]
  BY DEF Init
<1>2. <<>> \in Seq(Bufs) /\ <<>> \in Seq(Items) /\ <<>> \in Seq(Entry) /\ Len(<<>>) = 0
      /\ \A j : j \notin 1..0
  OBVIOUS
<1>3. Picked(<<>>, <<>>, LastOnes, EntryBuf) /\ \A p : Picked(<<>>, <<>>, Ofs(p), BufOf)
  BY <1>2, PickNone
<1>4. InHand = {}
  BY <1>1 DEF InHand
<1>5. ASSUME NEW p \in Pipes PROVE Parts(p, <<>>, <<>>, <<>>, <<>>)
  <2>1. Joined(<<>>, <<>>, <<>>, <<>>) = <<>>
    BY <1>2, CatEnds DEF Joined
  <2> QED
    BY <1>1, <1>3, <1>4, <2>1 DEF Parts, HandHolds, PendingHolds, QueueHolds, RingHolds
<1>6. OwnInv
  BY <1>1, <1>2 DEF OwnInv, Pipes
<1> QED
  BY <1>1, <1>2, <1>5, <1>6 DEF OrderInv

(* A step that moves no completion. *)
LEMMA QuietOrder ==
  ASSUME OrderInv,
         UNCHANGED <<finished, srcDone, destDone, completion_pendingq, compl_queue>>,
         InHand' = InHand,
         \A c \in InHand : compl_state'[c] = compl_state[c],
         \A c \in Contexts : pc'[c] = pc[c] \/ pc'[c] \notin Pipes
  PROVE  OrderInv'
<1>1. OwnInv'
  BY DEF OrderInv, OwnInv
<1>2. ASSUME NEW p \in Pipes PROVE \E s1, s2, s3, s4 \in Seq(Bufs) : Parts(p, s1, s2, s3, s4)'
  <2>1. PICK s1, s2, s3, s4 \in Seq(Bufs) : Parts(p, s1, s2, s3, s4)
    BY DEF OrderInv
  <2>2. HandHolds(p, s1)'
    BY <2>1 DEF Parts, HandHolds
  <2>3. Parts(p, s1, s2, s3, s4)'
    BY <2>1, <2>2 DEF Parts, PendingHolds, QueueHolds, RingHolds
  <2> QED
    BY <2>3
<1> QED
  BY <1>1, <1>2 DEF OrderInv

(* A step that changes only what the contexts are doing. *)
LEMMA MoveOrder ==
  ASSUME OrderInv, ThreadInv,
         UNCHANGED <<finished, srcDone, destDone, completion_pendingq, compl_queue, compl_state>>,
         NEW c \in Contexts, NEW w, pc' = [pc EXCEPT ![c] = w], w \notin Pipes,
         pc[c] \in {"post", "deliver"} <=> w \in {"post", "deliver"}
  PROVE  OrderInv'
<1>1. InHand' = InHand /\ \A d \in Contexts : pc'[d] = pc[d] \/ pc'[d] \notin Pipes
  BY DEF InHand, ThreadInv
<1> QED
  BY <1>1, QuietOrder

(* The hardware finishes a transfer: last in the ring, last in the history. *)
LEMMA SendFinishedOrder ==
  ASSUME OrderInv, QueueType, CE_send_finished
  PROVE  OrderInv'
<1>1. src # <<>> /\ Head(src) \in Entry /\ srcDone \in Seq(Entry)
  BY TailLen DEF QueueType, Entry, CE_send_finished
<1>2. PICK e \in Entry : e = Head(src)
  BY <1>1
<1>3. /\ srcDone' = Append(srcDone, e)
      /\ finished' = IF e.last THEN [finished EXCEPT !["tx"] = Append(@, e.buf)] ELSE finished
      /\ UNCHANGED <<destDone, pc, compl_queue, compl_state, completion_pendingq>>
  BY <1>2 DEF CE_send_finished, thread
<1>4. e.buf \in Bufs /\ EntryBuf[e] = e.buf /\ (e.last <=> e \in LastOnes)
  BY BufTypes DEF LastOnes
<1>5. finished \in [Pipes -> Seq(Bufs)]
  BY DEF OrderInv
<1>6. /\ finished' \in [Pipes -> Seq(Bufs)]
      /\ finished'["rx"] = finished["rx"]
      /\ finished'["tx"] = IF e.last THEN Append(finished["tx"], e.buf) ELSE finished["tx"]
  <2>1. Append(finished["tx"], e.buf) \in Seq(Bufs)
    BY <1>4, <1>5, AppendLen DEF Pipes
  <2> QED
    BY <1>3, <1>5, <2>1 DEF Pipes
<1>7. OwnInv'
  BY <1>3 DEF OrderInv, OwnInv
<1>8. ASSUME NEW p \in Pipes PROVE \E s1, s2, s3, s4 \in Seq(Bufs) : Parts(p, s1, s2, s3, s4)'
  <2>1. PICK s1, s2, s3, s4 \in Seq(Bufs) : Parts(p, s1, s2, s3, s4)
    BY DEF OrderInv
  <2>2. /\ HandHolds(p, s1)' /\ PendingHolds(p, s2)' /\ QueueHolds(p, s3)'
        /\ finished[p] = Joined(s1, s2, s3, s4) /\ RingHolds(p, s4)
    BY <1>3, <2>1 DEF Parts, HandHolds, PendingHolds, QueueHolds, InHand
  <2>3. CASE p = "tx" /\ e.last
    <3>1. PICK t4 \in Seq(Bufs) : t4 = Append(s4, e.buf)
      BY <1>4, AppendLen
    <3>2. Picked(s4, srcDone, LastOnes, EntryBuf)
      BY <2>2, <2>3 DEF RingHolds
    <3>3. Picked(Append(s4, EntryBuf[e]), Append(srcDone, e), LastOnes, EntryBuf)
      BY <1>1, <1>4, <2>3, <3>2, PickAppend
    <3>4. RingHolds(p, t4)'
      BY <1>3, <1>4, <2>3, <3>1, <3>3 DEF RingHolds
    <3>5. finished'[p] = Joined(s1, s2, s3, t4)
      <4>1. PICK b \in Bufs : b = e.buf
        BY <1>4
      <4>2. Add(Joined(s1, s2, s3, s4), b) = Joined(s1, s2, s3, Add(s4, b))
        BY JoinedAppend
      <4> QED
        BY <1>6, <2>2, <2>3, <3>1, <4>1, <4>2 DEF Add
    <3>6. Parts(p, s1, s2, s3, t4)'
      BY <2>2, <3>4, <3>5 DEF Parts
    <3> QED
      BY <3>6
  <2>4. CASE p = "tx" /\ ~e.last
    <3>1. Picked(s4, srcDone, LastOnes, EntryBuf)
      BY <2>2, <2>4 DEF RingHolds
    <3>2. Picked(s4, Append(srcDone, e), LastOnes, EntryBuf)
      BY <1>1, <1>4, <2>4, <3>1, PickAppend
    <3>3. RingHolds(p, s4)'
      BY <1>3, <2>4, <3>2 DEF RingHolds
    <3>4. Parts(p, s1, s2, s3, s4)'
      BY <1>6, <2>2, <2>4, <3>3 DEF Parts
    <3> QED
      BY <3>4
  <2>5. CASE p = "rx"
    <3>1. RingHolds(p, s4)'
      BY <1>3, <2>2, <2>5 DEF RingHolds
    <3>2. Parts(p, s1, s2, s3, s4)'
      BY <1>6, <2>2, <2>5, <3>1 DEF Parts
    <3> QED
      BY <3>2
  <2> QED
    BY <2>3, <2>4, <2>5 DEF Pipes
<1> QED
  BY <1>6, <1>7, <1>8 DEF OrderInv

LEMMA RecvFinishedOrder ==
  ASSUME OrderInv, QueueType, CE_recv_finished
  PROVE  OrderInv'
<1>1. dest # <<>> /\ Head(dest) \in RxBufs
  BY TailLen DEF QueueType, CE_recv_finished
<1>2. PICK b \in RxBufs : b = Head(dest)
  BY <1>1
<1>3. /\ destDone' = Append(destDone, b)
      /\ finished' = [finished EXCEPT !["rx"] = Append(@, b)]
      /\ UNCHANGED <<srcDone, pc, compl_queue, compl_state, completion_pendingq>>
  BY <1>2 DEF CE_recv_finished, thread
<1>4. b \in Bufs /\ finished \in [Pipes -> Seq(Bufs)]
  BY BufTypes DEF OrderInv
<1>5. /\ finished' \in [Pipes -> Seq(Bufs)]
      /\ finished'["tx"] = finished["tx"]
      /\ finished'["rx"] = Append(finished["rx"], b)
  <2>1. Append(finished["rx"], b) \in Seq(Bufs)
    BY <1>4, AppendLen DEF Pipes
  <2> QED
    BY <1>3, <1>4, <2>1 DEF Pipes
<1>6. OwnInv'
  BY <1>3 DEF OrderInv, OwnInv
<1>7. ASSUME NEW p \in Pipes PROVE \E s1, s2, s3, s4 \in Seq(Bufs) : Parts(p, s1, s2, s3, s4)'
  <2>1. PICK s1, s2, s3, s4 \in Seq(Bufs) : Parts(p, s1, s2, s3, s4)
    BY DEF OrderInv
  <2>2. /\ HandHolds(p, s1)' /\ PendingHolds(p, s2)' /\ QueueHolds(p, s3)'
        /\ finished[p] = Joined(s1, s2, s3, s4) /\ RingHolds(p, s4)
    BY <1>3, <2>1 DEF Parts, HandHolds, PendingHolds, QueueHolds, InHand
  <2>3. CASE p = "rx"
    <3>1. PICK t4 \in Seq(Bufs) : t4 = Append(s4, b)
      BY <1>4, AppendLen
    <3>2. RingHolds(p, t4)'
      BY <1>3, <2>2, <2>3, <3>1 DEF RingHolds
    <3>3. finished'[p] = Joined(s1, s2, s3, t4)
      <4>1. b \in Bufs
        BY <1>4
      <4>2. Add(Joined(s1, s2, s3, s4), b) = Joined(s1, s2, s3, Add(s4, b))
        BY <4>1, JoinedAppend
      <4> QED
        BY <1>5, <2>2, <2>3, <3>1, <4>2 DEF Add
    <3>4. Parts(p, s1, s2, s3, t4)'
      BY <2>2, <3>2, <3>3 DEF Parts
    <3> QED
      BY <3>4
  <2>4. CASE p = "tx"
    <3>1. RingHolds(p, s4)'
      BY <1>3, <2>2, <2>4 DEF RingHolds
    <3>2. Parts(p, s1, s2, s3, s4)'
      BY <1>5, <2>2, <2>4, <3>1 DEF Parts
    <3> QED
      BY <3>2
  <2> QED
    BY <2>3, <2>4 DEF Pipes
<1> QED
  BY <1>5, <1>6, <1>7 DEF OrderInv

(* A callback puts a completion of pipe r into its local queue. *)
LEMMA QueueAppend ==
  ASSUME QueueType, NEW c \in Contexts, NEW r \in Pipes, NEW b \in Bufs, r \in Services[c],
         compl_queue' = [compl_queue EXCEPT ![c] = Append(@, Item(r, b))],
         NEW p \in Pipes, NEW s \in Seq(Bufs), QueueHolds(p, s)
  PROVE  /\ p = r => QueueHolds(p, Append(s, b))'
         /\ p # r => QueueHolds(p, s)'
<1>1. PICK i \in Items : i = Item(r, b)
  BY BufTypes
<1>2. i.pipe = r /\ i.buf = b /\ BufOf[i] = b /\ (i \in Ofs(p) <=> p = r)
  BY <1>1, BufTypes DEF Ofs
<1>3. compl_queue \in [Contexts -> Seq(Items)]
  BY DEF QueueType
<1>4. /\ compl_queue'[c] = Append(compl_queue[c], i)
      /\ \A d \in Contexts \ {c} : compl_queue'[d] = compl_queue[d]
  BY <1>1, <1>3
<1>5. ASSUME p \in Services[c]
      PROVE  /\ p = r => Picked(Append(s, b), compl_queue'[c], Ofs(p), BufOf)
             /\ p # r => Picked(s, compl_queue'[c], Ofs(p), BufOf)
  <2>1. Picked(s, compl_queue[c], Ofs(p), BufOf) /\ compl_queue[c] \in Seq(Items)
    BY <1>3, <1>5 DEF QueueHolds
  <2>2. /\ i \in Ofs(p) => Picked(Append(s, BufOf[i]), Append(compl_queue[c], i), Ofs(p), BufOf)
        /\ i \notin Ofs(p) => Picked(s, Append(compl_queue[c], i), Ofs(p), BufOf)
    BY <1>2, <2>1, PickAppend
  <2> QED
    BY <1>2, <1>4, <2>2
<1>6. CASE p = r
  <2>1. \A d \in Contexts : p \in Services[d] => d = c
    BY <1>6, PipesAssumption
  <2>2. \A d \in Contexts : p \in Services[d] => Picked(Append(s, b), compl_queue'[d], Ofs(p), BufOf)
    BY <1>5, <1>6, <2>1
  <2> QED
    BY <1>6, <2>2 DEF QueueHolds
<1>7. CASE p # r
  <2>1. ASSUME NEW d \in Contexts, p \in Services[d] PROVE Picked(s, compl_queue'[d], Ofs(p), BufOf)
    <3>1. CASE d = c
      BY <1>5, <1>7, <2>1, <3>1
    <3>2. CASE d # c
      BY <1>4, <2>1, <3>2 DEF QueueHolds
    <3> QED
      BY <3>1, <3>2
  <2> QED
    BY <1>7, <2>1 DEF QueueHolds
<1> QED
  BY <1>6, <1>7

(* ... and nothing changes for the contexts that service no such pipe. *)
LEMMA OwnAppend ==
  ASSUME QueueType, OwnInv, ThreadInv, NEW c \in Contexts, NEW r \in Pipes, NEW b \in Bufs,
         r \in Services[c],
         \/ compl_queue' = [compl_queue EXCEPT ![c] = Append(@, Item(r, b))]
         \/ compl_queue' = compl_queue,
         pc' = [pc EXCEPT ![c] = r]
  PROVE  OwnInv'
<1>1. PICK i \in Items : i = Item(r, b) /\ i.pipe = r
  BY BufTypes
<1>2. compl_queue \in [Contexts -> Seq(Items)] /\ pc \in [Contexts -> Places]
  BY DEF QueueType, ThreadInv
<1>3. ASSUME NEW d \in Contexts
      PROVE  /\ pc'[d] \in Pipes => pc'[d] \in Services[d]
             /\ \A j \in 1..Len(compl_queue'[d]) : compl_queue'[d][j].pipe \in Services[d]
  <2>1. pc'[d] \in Pipes => pc'[d] \in Services[d]
    BY <1>2 DEF OwnInv
  <2>2. CASE compl_queue'[d] = compl_queue[d]
    BY <2>1, <2>2 DEF OwnInv
  <2>3. CASE d = c /\ compl_queue'[d] = Append(compl_queue[d], i)
    <3>1. PICK q \in Seq(Items) : q = compl_queue[d]
      BY <1>2
    <3>2. \A j \in 1..Len(q) : q[j].pipe \in Services[d]
      BY <3>1 DEF OwnInv
    <3>3. \A j \in 1..Len(Append(q, i)) : Append(q, i)[j] = i \/ (j \in 1..Len(q) /\ Append(q, i)[j] = q[j])
      OBVIOUS
    <3> QED
      BY <1>1, <2>1, <2>3, <3>1, <3>2, <3>3
  <2> QED
    BY <1>1, <1>2, <2>2, <2>3
<1> QED
  BY <1>3 DEF OwnInv

LEMMA SendDoneOrder ==
  ASSUME OrderInv, CountInv, ThreadInv, NEW c \in Contexts, HIF_PCI_CE_send_done(c)
  PROVE  OrderInv'
<1>0. QueueType /\ OwnInv /\ pc \in [Contexts -> Places] /\ finished \in [Pipes -> Seq(Bufs)]
  BY DEF CountInv, OrderInv, ThreadInv
<1>1. /\ pc[c] \in {"idle", "tx"} /\ srcDone # <<>> /\ srcDone' = Tail(srcDone)
      /\ UNCHANGED <<destDone, finished, compl_state, completion_pendingq>>
      /\ "tx" \in Services[c] /\ "tx" \in Pipes
  BY <1>0 DEF HIF_PCI_CE_send_done, MayService, OwnInv, Pipes
<1>2. srcDone \in Seq(Entry) /\ Head(srcDone) \in Entry
  BY <1>0, <1>1, TailLen DEF QueueType, Entry
<1>3. PICK e \in Entry : e = Head(srcDone)
  BY <1>2
<1>4. /\ e.buf \in Bufs /\ EntryBuf[e] = e.buf /\ (e.last <=> e \in LastOnes)
  BY BufTypes DEF LastOnes
<1>5. PICK b \in Bufs : b = e.buf
  BY <1>4
<1>6. /\ pc' = [pc EXCEPT ![c] = "tx"]
      /\ e.last => compl_queue' = [compl_queue EXCEPT ![c] = Append(@, Item("tx", b))]
      /\ ~e.last => compl_queue' = compl_queue
  <2>1. completion_freeq["tx"] > 0
    BY <1>1, StateFree
  <2> QED
    BY <1>3, <1>5, <2>1 DEF HIF_PCI_CE_send_done, Park, Goto
<1>7. OwnInv'
  <2>1. \/ compl_queue' = [compl_queue EXCEPT ![c] = Append(@, Item("tx", b))]
        \/ compl_queue' = compl_queue
    BY <1>6
  <2> QED
    BY <1>0, <1>1, <1>6, <2>1, OwnAppend
<1>8. InHand' = InHand
  BY <1>0, <1>1, <1>6 DEF InHand
<1>9. ASSUME NEW p \in Pipes PROVE \E s1, s2, s3, s4 \in Seq(Bufs) : Parts(p, s1, s2, s3, s4)'
  <2>1. PICK s1, s2, s3, s4 \in Seq(Bufs) : Parts(p, s1, s2, s3, s4)
    BY DEF OrderInv
  <2>2. /\ HandHolds(p, s1)' /\ PendingHolds(p, s2)'
        /\ QueueHolds(p, s3) /\ RingHolds(p, s4)
        /\ finished'[p] = Joined(s1, s2, s3, s4)
    BY <1>1, <1>8, <2>1 DEF Parts, HandHolds, PendingHolds
  <2>3. CASE p = "tx" /\ e.last
    <3>1. Picked(s4, srcDone, LastOnes, EntryBuf) /\ e \in LastOnes
      BY <1>4, <2>2, <2>3 DEF RingHolds
    <3>2. s4 # <<>> /\ Head(s4) = b /\ Picked(Tail(s4), Tail(srcDone), LastOnes, EntryBuf)
      BY <1>1, <1>2, <1>3, <1>4, <1>5, <3>1, PickHead
    <3>3. PICK t3, t4 \in Seq(Bufs) : t3 = Append(s3, b) /\ t4 = Tail(s4)
      BY <3>2, JoinedParked DEF Add
    <3>4. QueueHolds(p, Append(s3, b))'
      BY <1>0, <1>1, <1>6, <2>2, <2>3, QueueAppend
    <3>5. QueueHolds(p, t3)'
      BY <3>3, <3>4 DEF QueueHolds
    <3>6. RingHolds(p, t4)'
      BY <1>1, <2>3, <3>2, <3>3 DEF RingHolds
    <3>7. finished'[p] = Joined(s1, s2, t3, t4)
      <4>1. Joined(s1, s2, s3, s4) = Joined(s1, s2, Add(s3, Head(s4)), Tail(s4))
        BY <3>2, JoinedParked
      <4> QED
        BY <2>2, <3>2, <3>3, <4>1 DEF Add
    <3>8. Parts(p, s1, s2, t3, t4)'
      BY <2>2, <3>5, <3>6, <3>7 DEF Parts
    <3> QED
      BY <3>8
  <2>4. CASE p = "tx" /\ ~e.last
    <3>1. Picked(s4, srcDone, LastOnes, EntryBuf) /\ e \notin LastOnes
      BY <1>4, <2>2, <2>4 DEF RingHolds
    <3>2. Picked(s4, Tail(srcDone), LastOnes, EntryBuf)
      BY <1>1, <1>2, <1>3, <3>1, PickSkip
    <3>3. RingHolds(p, s4)' /\ QueueHolds(p, s3)'
      BY <1>1, <1>6, <2>2, <2>4, <3>2 DEF RingHolds, QueueHolds
    <3>4. Parts(p, s1, s2, s3, s4)'
      BY <2>2, <3>3 DEF Parts
    <3> QED
      BY <3>4
  <2>5. CASE p = "rx"
    <3>1. RingHolds(p, s4)'
      BY <1>1, <2>2, <2>5 DEF RingHolds
    <3>2. QueueHolds(p, s3)'
      <4>1. CASE e.last
        <5>1. compl_queue' = [compl_queue EXCEPT ![c] = Append(@, Item("tx", b))] /\ p # "tx"
          BY <1>6, <2>5, <4>1
        <5> QED
          BY <1>0, <1>1, <2>2, <5>1, QueueAppend
      <4>2. CASE ~e.last
        BY <1>6, <2>2, <4>2 DEF QueueHolds
      <4> QED
        BY <4>1, <4>2
    <3>3. Parts(p, s1, s2, s3, s4)'
      BY <2>2, <3>1, <3>2 DEF Parts
    <3> QED
      BY <3>3
  <2> QED
    BY <2>3, <2>4, <2>5 DEF Pipes
<1> QED
  BY <1>0, <1>1, <1>7, <1>9 DEF OrderInv

LEMMA RecvDataOrder ==
  ASSUME OrderInv, CountInv, ThreadInv, NEW c \in Contexts, HIF_PCI_CE_recv_data(c)
  PROVE  OrderInv'
<1>0. QueueType /\ OwnInv /\ pc \in [Contexts -> Places] /\ finished \in [Pipes -> Seq(Bufs)]
  BY DEF CountInv, OrderInv, ThreadInv
<1>1. /\ pc[c] \in {"idle", "rx"} /\ destDone # <<>> /\ destDone' = Tail(destDone)
      /\ UNCHANGED <<srcDone, finished, compl_state, completion_pendingq>>
      /\ "rx" \in Services[c] /\ "rx" \in Pipes
  BY <1>0 DEF HIF_PCI_CE_recv_data, MayService, OwnInv, Pipes
<1>2. PICK b \in Bufs : b = Head(destDone)
  BY <1>0, <1>1, TailLen, BufTypes DEF QueueType
<1>3. /\ pc' = [pc EXCEPT ![c] = "rx"]
      /\ compl_queue' = [compl_queue EXCEPT ![c] = Append(@, Item("rx", b))]
  <2>1. completion_freeq["rx"] > 0
    BY <1>1, StateFree
  <2> QED
    BY <1>2, <2>1 DEF HIF_PCI_CE_recv_data, Park, Goto
<1>4. OwnInv'
  BY <1>0, <1>1, <1>3, OwnAppend
<1>5. InHand' = InHand
  BY <1>0, <1>1, <1>3 DEF InHand
<1>6. ASSUME NEW p \in Pipes PROVE \E s1, s2, s3, s4 \in Seq(Bufs) : Parts(p, s1, s2, s3, s4)'
  <2>1. PICK s1, s2, s3, s4 \in Seq(Bufs) : Parts(p, s1, s2, s3, s4)
    BY DEF OrderInv
  <2>2. /\ HandHolds(p, s1)' /\ PendingHolds(p, s2)'
        /\ QueueHolds(p, s3) /\ RingHolds(p, s4)
        /\ finished'[p] = Joined(s1, s2, s3, s4)
    BY <1>1, <1>5, <2>1 DEF Parts, HandHolds, PendingHolds
  <2>3. CASE p = "rx"
    <3>1. s4 # <<>> /\ Head(s4) = b /\ Tail(s4) = destDone'
      BY <1>1, <1>2, <2>2, <2>3 DEF RingHolds
    <3>2. PICK t3, t4 \in Seq(Bufs) : t3 = Append(s3, b) /\ t4 = Tail(s4)
      BY <3>1, JoinedParked DEF Add
    <3>3. QueueHolds(p, Append(s3, b))'
      BY <1>0, <1>1, <1>3, <2>2, <2>3, QueueAppend
    <3>4. QueueHolds(p, t3)'
      BY <3>2, <3>3 DEF QueueHolds
    <3>5. RingHolds(p, t4)'
      BY <2>3, <3>1, <3>2 DEF RingHolds
    <3>6. finished'[p] = Joined(s1, s2, t3, t4)
      <4>1. Joined(s1, s2, s3, s4) = Joined(s1, s2, Add(s3, Head(s4)), Tail(s4))
        BY <3>1, JoinedParked
      <4> QED
        BY <2>2, <3>1, <3>2, <4>1 DEF Add
    <3>7. Parts(p, s1, s2, t3, t4)'
      BY <2>2, <3>4, <3>5, <3>6 DEF Parts
    <3> QED
      BY <3>7
  <2>4. CASE p = "tx"
    <3>1. RingHolds(p, s4)'
      BY <1>1, <2>2, <2>4 DEF RingHolds
    <3>2. QueueHolds(p, s3)'
      BY <1>0, <1>1, <1>3, <2>2, <2>4, QueueAppend
    <3>3. Parts(p, s1, s2, s3, s4)'
      BY <2>2, <3>1, <3>2 DEF Parts
    <3> QED
      BY <3>3
  <2> QED
    BY <2>3, <2>4 DEF Pipes
<1> QED
  BY <1>0, <1>1, <1>4, <1>6 DEF OrderInv

(* The local queue goes to the end of completion_pendingq: of the pipes the *)
(* context services, the only ones it has completions of.                   *)
LEMMA AppendOrder ==
  ASSUME OrderInv, QueueType, ThreadInv, NEW c \in Contexts, AppendPending(c)
  PROVE  OrderInv'
<1>0. OwnInv /\ pc \in [Contexts -> Places] /\ finished \in [Pipes -> Seq(Bufs)]
      /\ compl_queue \in [Contexts -> Seq(Items)] /\ completion_pendingq \in Seq(Items)
  BY DEF OrderInv, ThreadInv, QueueType
<1>1. /\ pc[c] = "append"
      /\ completion_pendingq' = completion_pendingq \o compl_queue[c]
      /\ compl_queue' = [compl_queue EXCEPT ![c] = <<>>]
      /\ UNCHANGED <<srcDone, destDone, finished, compl_state>>
  BY DEF AppendPending, ringVars
<1>2. PICK w \in {"alert", "idle"} : pc' = [pc EXCEPT ![c] = w]
  BY DEF AppendPending, Goto
<1>3. OwnInv'
  <2>1. ASSUME NEW d \in Contexts
        PROVE  /\ pc'[d] \in Pipes => pc'[d] \in Services[d]
               /\ \A j \in 1..Len(compl_queue'[d]) : compl_queue'[d][j].pipe \in Services[d]
    <3>1. pc'[d] \in Pipes => pc'[d] \in Services[d]
      BY <1>0, <1>2 DEF OwnInv, Pipes
    <3>2. CASE d = c
      <4>1. compl_queue'[d] = <<>> /\ Len(<<>>) = 0 /\ \A j : j \notin 1..0
        BY <1>0, <1>1, <3>2
      <4> QED
        BY <3>1, <4>1
    <3>3. CASE d # c
      BY <1>0, <1>1, <3>1, <3>3 DEF OwnInv
    <3> QED
      BY <3>2, <3>3
  <2> QED
    BY <2>1 DEF OwnInv
<1>4. InHand' = InHand
  BY <1>0, <1>1, <1>2 DEF InHand
<1>5. ASSUME NEW p \in Pipes PROVE \E s1, s2, s3, s4 \in Seq(Bufs) : Parts(p, s1, s2, s3, s4)'
  <2>1. PICK s1, s2, s3, s4 \in Seq(Bufs) : Parts(p, s1, s2, s3, s4)
    BY DEF OrderInv
  <2>2. /\ HandHolds(p, s1)' /\ RingHolds(p, s4)'
        /\ QueueHolds(p, s3) /\ Picked(s2, completion_pendingq, Ofs(p), BufOf)
        /\ finished'[p] = Joined(s1, s2, s3, s4)
    BY <1>1, <1>4, <2>1 DEF Parts, HandHolds, RingHolds, PendingHolds
  <2>3. PICK q \in Seq(Items) : q = compl_queue[c]
    BY <1>0
  <2>4. CASE p \in Services[c]
    <3>1. Picked(s3, q, Ofs(p), BufOf)
      BY <2>2, <2>3, <2>4 DEF QueueHolds
    <3>2. Picked(s2 \o s3, completion_pendingq \o q, Ofs(p), BufOf)
      BY <1>0, <2>2, <3>1, PickConcat
    <3>3. PICK t2 \in Seq(Bufs) : t2 = Cat(s2, s3)
      BY CatFacts
    <3>4. PICK t3 \in Seq(Bufs) : t3 = <<>>
      BY CatFacts
    <3>5. PendingHolds(p, t2)'
      BY <1>1, <2>3, <3>2, <3>3 DEF PendingHolds, Cat
    <3>6. QueueHolds(p, t3)'
      <4>1. Picked(<<>>, <<>>, Ofs(p), BufOf)
        <5>1. <<>> \in Seq(Items) /\ \A j : j \notin 1..Len(<<>>)
          OBVIOUS
        <5> QED
          BY <5>1, PickNone
      <4>2. \A d \in Contexts : p \in Services[d] => d = c
        BY <2>4, PipesAssumption
      <4>3. compl_queue'[c] = <<>>
        BY <1>0, <1>1
      <4> QED
        BY <3>4, <4>1, <4>2, <4>3 DEF QueueHolds
    <3>7. finished'[p] = Joined(s1, t2, t3, s4)
      BY <2>2, <3>3, <3>4, JoinedPending
    <3>8. Parts(p, s1, t2, t3, s4)'
      BY <2>2, <3>5, <3>6, <3>7 DEF Parts
    <3> QED
      BY <3>8
  <2>5. CASE p \notin Services[c]
    <3>1. \A j \in 1..Len(q) : q[j] \notin Ofs(p)
      BY <1>0, <2>3, <2>5 DEF OwnInv, Ofs
    <3>2. Picked(<<>>, q, Ofs(p), BufOf)
      BY <3>1, PickNone
    <3>3. <<>> \in Seq(Bufs) /\ s2 \o <<>> = s2
      OBVIOUS
    <3>4. Picked(s2 \o <<>>, completion_pendingq \o q, Ofs(p), BufOf)
      BY <1>0, <2>2, <3>2, <3>3, PickConcat
    <3>5. PendingHolds(p, s2)'
      BY <1>1, <2>3, <3>3, <3>4 DEF PendingHolds
    <3>6. QueueHolds(p, s3)'
      <4>1. \A d \in Contexts : p \in Services[d] => compl_queue'[d] = compl_queue[d]
        BY <1>0, <1>1, <2>5
      <4> QED
        BY <2>2, <4>1 DEF QueueHolds
    <3>7. Parts(p, s1, s2, s3, s4)'
      BY <2>2, <3>5, <3>6 DEF Parts
    <3> QED
      BY <3>7
  <2> QED
    BY <2>4, <2>5
<1> QED
  BY <1>0, <1>1, <1>3, <1>5 DEF OrderInv

(* The thread takes the head of completion_pendingq in hand; no other is. *)
LEMMA DequeueOrder ==
  ASSUME OrderInv, CountInv, ThreadInv, NEW c \in Contexts, Dequeue(c)
  PROVE  OrderInv'
<1>0. /\ OwnInv /\ pc \in [Contexts -> Places] /\ finished \in [Pipes -> Seq(Bufs)]
      /\ compl_state \in [Contexts -> Seq(Items)] /\ completion_pendingq \in Seq(Items)
  BY DEF OrderInv, ThreadInv, CountInv, QueueType
<1>1. /\ pc[c] = "loop" /\ completion_pendingq # <<>>
      /\ compl_state' = [compl_state EXCEPT ![c] = <<Head(completion_pendingq)>>]
      /\ completion_pendingq' = Tail(completion_pendingq)
      /\ UNCHANGED <<srcDone, destDone, finished, compl_queue>>
  BY DEF Dequeue, ringVars
<1>2. PICK w \in {"post", "deliver"} : pc' = [pc EXCEPT ![c] = w]
  BY DEF Dequeue, Goto
<1>3. PICK i \in Items : i = Head(completion_pendingq)
  BY <1>0, <1>1, TailLen
<1>4. i.buf \in Bufs /\ i.pipe \in Pipes /\ BufOf[i] = i.buf /\ \A p : i \in Ofs(p) <=> i.pipe = p
  BY BufTypes DEF Ofs
<1>5. InHand = {} /\ InHand' = {c}
  <2>1. c \in Running /\ \A d \in Running : d = c
    BY <1>1 DEF Running, ThreadInv, SingleInstance
  <2>2. InHand \subseteq Running \ {c}
    BY <1>1 DEF InHand, Running
  <2>3. InHand = {}
    BY <2>1, <2>2
  <2>4. InHand' = InHand \cup {c}
    BY <1>0, <1>2 DEF InHand
  <2> QED
    BY <2>3, <2>4
<1>6. compl_state'[c] = <<i>> /\ Head(<<i>>) = i
  BY <1>0, <1>1, <1>3
<1>7. OwnInv'
  BY <1>0, <1>1, <1>2 DEF OwnInv, Pipes
<1>8. ASSUME NEW p \in Pipes PROVE \E s1, s2, s3, s4 \in Seq(Bufs) : Parts(p, s1, s2, s3, s4)'
  <2>1. PICK s1, s2, s3, s4 \in Seq(Bufs) : Parts(p, s1, s2, s3, s4)
    BY DEF OrderInv
  <2>2. /\ QueueHolds(p, s3)' /\ RingHolds(p, s4)'
        /\ s1 = <<>> /\ Picked(s2, completion_pendingq, Ofs(p), BufOf)
        /\ finished'[p] = Joined(s1, s2, s3, s4)
    BY <1>1, <1>5, <2>1 DEF Parts, HandHolds, RingHolds, QueueHolds, PendingHolds
  <2>3. CASE i.pipe = p
    <3>1. s2 # <<>> /\ Head(s2) = i.buf
          /\ Picked(Tail(s2), Tail(completion_pendingq), Ofs(p), BufOf)
      BY <1>0, <1>1, <1>3, <1>4, <2>2, <2>3, PickHead
    <3>2. PICK t1, t2 \in Seq(Bufs) : t1 = <<i.buf>> /\ t2 = Tail(s2)
      BY <3>1, JoinedTaken
    <3>3. HandHolds(p, t1)'
      BY <1>5, <1>6, <2>3, <3>2 DEF HandHolds
    <3>4. PendingHolds(p, t2)'
      BY <1>1, <3>1, <3>2 DEF PendingHolds
    <3>5. Joined(<<>>, s2, s3, s4) = Joined(<<Head(s2)>>, Tail(s2), s3, s4)
      BY <3>1, JoinedTaken
    <3>6. finished'[p] = Joined(t1, t2, s3, s4)
      BY <2>2, <3>1, <3>2, <3>5
    <3>7. Parts(p, t1, t2, s3, s4)'
      BY <2>2, <3>3, <3>4, <3>6 DEF Parts
    <3> QED
      BY <3>7
  <2>4. CASE i.pipe # p
    <3>1. Picked(s2, Tail(completion_pendingq), Ofs(p), BufOf)
      BY <1>0, <1>1, <1>3, <1>4, <2>2, <2>4, PickSkip
    <3>2. HandHolds(p, s1)'
      BY <1>5, <1>6, <2>2, <2>4 DEF HandHolds
    <3>3. PendingHolds(p, s2)'
      BY <1>1, <3>1 DEF PendingHolds
    <3>4. Parts(p, s1, s2, s3, s4)'
      BY <2>2, <3>2, <3>3 DEF Parts
    <3> QED
      BY <3>4
  <2> QED
    BY <2>3, <2>4
<1> QED
  BY <1>0, <1>1, <1>7, <1>8 DEF OrderInv

(* What is in the thread's hands is what finished first. *)
LEMMA HandIsFirst ==
  ASSUME OrderInv, CountInv, NEW c \in Contexts, pc[c] = "deliver"
  PROVE  LET i == Head(compl_state[c])
         IN  /\ i.pipe \in Pipes /\ finished[i.pipe] # <<>> /\ i.buf = Head(finished[i.pipe])
<1> DEFINE h == Head(compl_state[c])
<1>1. h \in Items /\ c \in InHand
  <2>1. compl_state[c] \in Seq(Items) /\ Len(compl_state[c]) = 1
    BY DEF CountInv, QueueType, HandledInv
  <2>2. Head(compl_state[c]) \in Items
    BY <2>1
  <2> QED
    BY <2>2 DEF InHand
<1> HIDE DEF h
<1>2. PICK p \in Pipes, b \in Bufs : p = h.pipe /\ b = h.buf
  BY <1>1, BufTypes
<1>3. PICK s1, s2, s3, s4 \in Seq(Bufs) : Parts(p, s1, s2, s3, s4)
  BY DEF OrderInv
<1>4. s1 = <<b>> /\ finished[p] = Joined(s1, s2, s3, s4)
  BY <1>1, <1>2, <1>3 DEF Parts, HandHolds, h
<1>5. Joined(<<b>>, s2, s3, s4) # <<>> /\ Head(Joined(<<b>>, s2, s3, s4)) = b
  BY JoinedDelivered
<1>6. h.pipe \in Pipes /\ finished[h.pipe] # <<>> /\ h.buf = Head(finished[h.pipe])
  BY <1>2, <1>4, <1>5
<1> QED
  BY <1>6 DEF h

LEMMA DeliverOrder ==
  ASSUME OrderInv, CountInv, ThreadInv, NEW c \in Contexts, Deliver(c)
  PROVE  OrderInv'
<1> DEFINE h == Head(compl_state[c])
<1>0. OwnInv /\ pc \in [Contexts -> Places] /\ finished \in [Pipes -> Seq(Bufs)]
  BY DEF OrderInv, ThreadInv
<1>1. /\ pc[c] = "deliver" /\ pc' = [pc EXCEPT ![c] = "recycle"]
      /\ finished' = [finished EXCEPT ![h.pipe] = RemoveFirst(@, h.buf)]
      /\ UNCHANGED <<srcDone, destDone, compl_queue, compl_state, completion_pendingq>>
  BY DEF Deliver, Goto
<1>2. h \in Items /\ c \in InHand
  <2>1. compl_state[c] \in Seq(Items) /\ Len(compl_state[c]) = 1
    BY <1>1 DEF CountInv, QueueType, HandledInv
  <2>2. Head(compl_state[c]) \in Items
    BY <2>1
  <2> QED
    BY <1>1, <2>2 DEF InHand
<1>3. InHand' = {}
  <2>1. \A d \in Running : d = c
    BY <1>1 DEF Running, ThreadInv, SingleInstance
  <2>2. InHand \subseteq Running
    BY DEF InHand, Running
  <2>3. InHand' = InHand \ {c}
    BY <1>0, <1>1 DEF InHand
  <2> QED
    BY <2>1, <2>2, <2>3
<1>4. OwnInv'
  BY <1>0, <1>1 DEF OwnInv, Pipes
<1> HIDE DEF h
<1>5. PICK r \in Pipes, b \in Bufs : r = h.pipe /\ b = h.buf
  BY <1>2, BufTypes
<1>6. finished' = [finished EXCEPT ![r] = RemoveFirst(finished[r], b)]
  BY <1>1, <1>5
<1>7. ASSUME NEW p \in Pipes
      PROVE  /\ finished'[p] \in Seq(Bufs)
             /\ \E s1, s2, s3, s4 \in Seq(Bufs) : Parts(p, s1, s2, s3, s4)'
  <2>1. PICK s1, s2, s3, s4 \in Seq(Bufs) : Parts(p, s1, s2, s3, s4)
    BY DEF OrderInv
  <2>2. /\ PendingHolds(p, s2)' /\ QueueHolds(p, s3)' /\ RingHolds(p, s4)'
        /\ finished[p] = Joined(s1, s2, s3, s4)
        /\ s1 = IF r = p THEN <<b>> ELSE <<>>
    BY <1>1, <1>2, <1>5, <2>1 DEF Parts, HandHolds, RingHolds, QueueHolds, PendingHolds, h
  <2>3. PICK e \in Seq(Bufs) : e = <<>>
    BY CatFacts
  <2>4. finished'[p] = Joined(e, s2, s3, s4)
    <3>1. CASE r = p
      <4>1. RemoveFirst(Joined(<<b>>, s2, s3, s4), b) = Joined(<<>>, s2, s3, s4)
        BY JoinedDelivered
      <4> QED
        BY <1>0, <1>6, <2>2, <2>3, <3>1, <4>1
    <3>2. CASE r # p
      BY <1>0, <1>6, <2>2, <2>3, <3>2
    <3> QED
      BY <3>1, <3>2
  <2>5. finished'[p] \in Seq(Bufs)
    BY <2>4, JoinedSeq
  <2>6. HandHolds(p, e)'
    BY <1>3, <2>3 DEF HandHolds
  <2>7. Parts(p, e, s2, s3, s4)'
    BY <2>2, <2>4, <2>6 DEF Parts
  <2> QED
    BY <2>5, <2>7
<1>8. finished' \in [Pipes -> Seq(Bufs)]
  <2>1. DOMAIN finished' = Pipes /\ finished' = [p \in Pipes |-> finished'[p]]
    BY <1>0, <1>6
  <2> QED
    BY <1>7, <2>1
<1> QED
  BY <1>4, <1>7, <1>8 DEF OrderInv

LEMMA NextOrder == OrderInv /\ CountInv /\ ThreadInv /\ [Next]_vars => OrderInv'
<1> SUFFICES ASSUME OrderInv, CountInv, ThreadInv, [Next]_vars PROVE OrderInv'
  OBVIOUS
<1>0. QueueType
  BY DEF CountInv
<1>1. CASE (\E b \in TxBufs : HIFSend_head(b)) \/ UNCHANGED vars
  <2>1. UNCHANGED <<finished, srcDone, destDone, completion_pendingq, compl_queue,
                    compl_state, pc>>
    BY <1>1 DEF HIFSend_head, vars, ringVars, thread
  <2>2. InHand' = InHand
    BY <2>1 DEF InHand
  <2> QED
    BY <2>1, <2>2, QuietOrder
<1>2. CASE CE_send_finished \/ CE_recv_finished
  BY <1>0, <1>2, SendFinishedOrder, RecvFinishedOrder
<1>3. CASE HIF_fw_interrupt_handler
  <2>1. /\ UNCHANGED <<finished, srcDone, destDone, completion_pendingq, compl_queue, compl_state>>
        /\ Tasklet \in Contexts /\ pc[Tasklet] = "idle" /\ pc' = [pc EXCEPT ![Tasklet] = "alert"]
        /\ "alert" \notin Pipes
    BY <1>3, PipesAssumption DEF HIF_fw_interrupt_handler, Goto, ringVars, Pipes
  <2> QED
    BY <2>1, MoveOrder
<1>4. ASSUME NEW c \in Contexts, Service(c) PROVE OrderInv'
  <2>1. CASE LeaveLoop(c)
    <3>1. PICK w \in {"idle", "append"} : pc' = [pc EXCEPT ![c] = w]
      BY <2>1 DEF LeaveLoop, Goto
    <3>2. /\ UNCHANGED <<finished, srcDone, destDone, completion_pendingq, compl_queue, compl_state>>
          /\ pc[c] \in {"tx", "rx"} /\ w \notin Pipes
      BY <2>1 DEF LeaveLoop, ringVars, Pipes
    <3> QED
      BY <3>1, <3>2, MoveOrder
  <2> QED
    BY <1>0, <1>4, <2>1, SendDoneOrder, RecvDataOrder, AppendOrder DEF Service
<1>5. ASSUME NEW c \in Contexts, Thread(c) PROVE OrderInv'
  <2>1. CASE TakeTurn(c) \/ NotTheLuckyOne(c) \/ StartThread(c) \/ LeaveThread(c)
    <3>1. PICK w \in {"start", "unlucky", "idle", "loop"} : pc' = [pc EXCEPT ![c] = w]
      BY <2>1 DEF TakeTurn, NotTheLuckyOne, StartThread, LeaveThread, Goto
    <3>2. /\ UNCHANGED <<finished, srcDone, destDone, completion_pendingq, compl_queue, compl_state>>
          /\ pc[c] \in {"alert", "unlucky", "start", "loop"} /\ w \notin Pipes
      BY <2>1 DEF TakeTurn, NotTheLuckyOne, StartThread, LeaveThread, ringVars, Pipes
    <3> QED
      BY <3>1, <3>2, MoveOrder
  <2>2. CASE HandleFwEvent(c) \/ PostRecvBuffer(c)
    <3>1. UNCHANGED <<finished, srcDone, destDone, completion_pendingq, compl_queue,
                      compl_state, pc>>
      BY <2>2 DEF HandleFwEvent, PostRecvBuffer, ringVars, thread
    <3>2. InHand' = InHand
      BY <3>1 DEF InHand
    <3> QED
      BY <3>1, <3>2, QuietOrder
  <2>3. CASE PostRecvEnd(c)
    <3>1. /\ UNCHANGED <<finished, srcDone, destDone, completion_pendingq, compl_queue, compl_state>>
          /\ pc[c] = "post" /\ pc' = [pc EXCEPT ![c] = "deliver"] /\ "deliver" \notin Pipes
      BY <2>3 DEF PostRecvEnd, Goto, ringVars, Pipes
    <3> QED
      BY <3>1, MoveOrder
  <2>4. CASE Recycle(c)
    <3>1. /\ UNCHANGED <<finished, srcDone, destDone, completion_pendingq, compl_queue>>
          /\ pc[c] = "recycle" /\ pc' = [pc EXCEPT ![c] = "loop"]
          /\ compl_state' = [compl_state EXCEPT ![c] = <<>>]
      BY <2>4 DEF Recycle, Goto, ringVars
    <3>2. pc \in [Contexts -> Places] /\ compl_state \in [Contexts -> Seq(Items)]
      BY <1>0 DEF ThreadInv, QueueType
    <3>3. /\ InHand' = InHand /\ c \notin InHand
          /\ \A d \in Contexts : pc'[d] = pc[d] \/ pc'[d] \notin Pipes
      BY <3>1, <3>2 DEF InHand, Pipes
    <3>4. \A d \in InHand : compl_state'[d] = compl_state[d]
      BY <3>1, <3>2, <3>3 DEF InHand
    <3> QED
      BY <3>1, <3>3, <3>4, QuietOrder
  <2> QED
    BY <1>5, <2>1, <2>2, <2>3, <2>4, DequeueOrder, DeliverOrder DEF Thread
<1> QED
  BY <1>1, <1>2, <1>3, <1>4, <1>5 DEF Next

LEMMA OrderInvariant == Spec => [](OrderInv /\ CountInv)
BY InitThread, NextThread, InitCount, NextCount, InitOrder, NextOrder, PTL DEF Spec

(* hif_completion_thread, "prevent out of order processing of messages":    *)
(* for any number of contexts, any split of the pipes among them, any ring  *)
(* sizes and fragments, what the thread hands to HTC is the completion of   *)
(* the transfer that finished first on its pipe, and each is handed once.   *)
THEOREM InOrder == Spec => CompletionInOrder
<1> DEFINE A == \A c \in Contexts :
                   (pc[c] = "deliver" /\ pc'[c] # "deliver") =>
                     LET i == Head(compl_state[c])
                     IN  finished[i.pipe] # <<>> /\ i.buf = Head(finished[i.pipe])
<1>1. OrderInv /\ CountInv /\ [Next]_vars => [A]_vars
  BY HandIsFirst
<1>2. (Spec => [][A]_vars) <=> (Spec => CompletionInOrder)
  BY DEF CompletionInOrder
<1> HIDE DEF A
<1>3. Spec => [][A]_vars
  BY <1>1, OrderInvariant, PTL DEF Spec
<1> QED
  BY <1>2, <1>3

-----------------------------------------------------------------------------
(* The flags. *)
FlagType == fw_event_pending \in {0, 1} /\ reset \in BOOLEAN /\ out_of_states \in BOOLEAN

LEMMA NextFlags == FlagType /\ [Next]_vars => FlagType'
<1> SUFFICES ASSUME FlagType, [Next]_vars PROVE FlagType'
  OBVIOUS
<1> USE DEF FlagType
<1>1. CASE \/ \E b \in TxBufs : HIFSend_head(b)
           \/ CE_send_finished \/ CE_recv_finished \/ HIF_fw_interrupt_handler \/ UNCHANGED vars
  BY <1>1 DEF HIFSend_head, CE_send_finished, CE_recv_finished, HIF_fw_interrupt_handler,
              vars, countVars, fwVars
<1>2. ASSUME NEW c \in Contexts, Service(c) PROVE FlagType'
  BY <1>2 DEF Service, HIF_PCI_CE_send_done, HIF_PCI_CE_recv_data, LeaveLoop, AppendPending,
              Park, countVars, fwVars
<1>3. ASSUME NEW c \in Contexts, Thread(c) PROVE FlagType'
  BY <1>3 DEF Thread, TakeTurn, NotTheLuckyOne, HandleFwEvent, StartThread, Dequeue,
              PostRecvBuffer, PostRecvEnd, Deliver, Recycle, LeaveThread, countVars, fwVars
<1> QED
  BY <1>1, <1>2, <1>3 DEF Next

(* Type correctness of the rings, the queues and the contexts, for any      *)
(* values of the constants.                                                 *)
THEOREM TypeCorrect == Spec => []TypeOK
<1>1. Init => FlagType
  BY DEF Init, FlagType
<1>2. OrderInv /\ CountInv /\ ThreadInv /\ FlagType => TypeOK
  BY DEF OrderInv, CountInv, QueueType, ThreadInv, FlagType, TypeOK, Bufs
<1> QED
  BY <1>1, <1>2, NextFlags, OrderInvariant, InitThread, NextThread, PTL DEF Spec

=============================================================================
