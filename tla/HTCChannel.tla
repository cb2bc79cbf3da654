----------------------------- MODULE HTCChannel -----------------------------
(***************************************************************************)
(* What an HTC endpoint promises its client about transmission: packets    *)
(* the client posts are queued first-in first-out, leave the queue for the *)
(* bus only from its head, come back from the bus in the order they were   *)
(* handed to it, and a flush gives back packets that never reached the     *)
(* bus.  A packet is with the client, in the queue or on the bus, never in *)
(* two of them.  HTCSend.tla is shown to implement this specification.     *)
(***************************************************************************)
EXTENDS Naturals, Sequences, FiniteSets, Functions

CONSTANT Packets    \* the HTC_PACKETs of the endpoint's client

VARIABLES
    queue,          \* accepted by HTC, not yet accepted by the bus
    bus,            \* accepted by the bus, completion not yet delivered
    urgent          \* is_nodrop_pkt: the next batch may overtake queued packets

vars == <<queue, bus, urgent>>

Client == Packets \ (Range(queue) \cup Range(bus))

(* The batches a client may post: its own packets, each once. *)
Batches == {s \in UNION {[1..n -> Client] : n \in 1..Cardinality(Client)} :
                IsInjective(s)}

TypeOK ==
    /\ queue \in Seq(Packets)
    /\ bus \in Seq(Packets)
    /\ urgent \in BOOLEAN

Init ==
    /\ queue = <<>>
    /\ bus = <<>>
    /\ urgent = FALSE

Accept == \E s \in Batches :
    /\ ~urgent
    /\ queue' = queue \o s
    /\ UNCHANGED <<bus, urgent>>

(* A batch posted while the nodrop flag is up is inserted ahead of queued  *)
(* packets (how far ahead depends on what the drainer already holds) and   *)
(* uses the flag up.                                                       *)
AcceptUrgent == \E s \in Batches, i \in 0..Len(queue) :
    /\ urgent
    /\ queue' = SubSeq(queue, 1, i) \o s \o SubSeq(queue, i + 1, Len(queue))
    /\ urgent' = FALSE
    /\ UNCHANGED bus

Transmit ==
    /\ queue # <<>>
    /\ queue' = Tail(queue)
    /\ bus' = Append(bus, Head(queue))
    /\ UNCHANGED urgent

Complete ==
    /\ bus # <<>>
    /\ bus' = Tail(bus)
    /\ UNCHANGED <<queue, urgent>>

(* A flush cancels the packets behind the ones already being issued. *)
Cancel == \E i \in 0..Len(queue) :
    /\ queue' = SubSeq(queue, 1, i)
    /\ UNCHANGED <<bus, urgent>>

SetUrgent ==
    /\ urgent' \in BOOLEAN
    /\ UNCHANGED <<queue, bus>>

Next == Accept \/ AcceptUrgent \/ Transmit \/ Complete \/ Cancel \/ SetUrgent

Spec == Init /\ [][Next]_vars

=============================================================================
