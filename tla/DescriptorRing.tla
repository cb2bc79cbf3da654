--------------------------- MODULE DescriptorRing ---------------------------
(***************************************************************************)
(* What a copy-engine ring promises HIF: the transfers that are posted are *)
(* finished by the target and given back by the host in the order of their *)
(* posting, each once, with the context they were posted with; the pieces  *)
(* of a sendlist are posted together or not at all; and never more than    *)
(* capacity transfers are outstanding.  CopyEngine.tla is shown to         *)
(* implement this specification twice, with its source and with its        *)
(* destination ring.                                                       *)
(***************************************************************************)
EXTENDS Naturals, Sequences

CONSTANT Lists  \* the lists of contexts that may be posted at once

VARIABLES
    capacity,   \* transfers the ring has room for
    fly,        \* posted, the target is not done with them
    done        \* finished by the target, not yet given back

vars == <<capacity, fly, done>>

Init == capacity \in Nat /\ fly = <<>> /\ done = <<>>

Post == \E s \in Lists :
    /\ Len(done) + Len(fly) + Len(s) <= capacity
    /\ fly' = fly \o s
    /\ UNCHANGED done

Finish ==
    /\ fly # <<>>
    /\ done' = Append(done, Head(fly)) /\ fly' = Tail(fly)

GiveBack ==
    /\ done # <<>>
    /\ done' = Tail(done)
    /\ UNCHANGED fly

(* At shutdown transfers come back although the target is not done. *)
Revoke ==
    /\ done = <<>> /\ fly # <<>>
    /\ fly' = Tail(fly)
    /\ UNCHANGED done

Next == (Post \/ Finish \/ GiveBack \/ Revoke) /\ UNCHANGED capacity

Spec == Init /\ [][Next]_vars

=============================================================================
