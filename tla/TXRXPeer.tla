------------------------------ MODULE TXRXPeer ------------------------------
(***************************************************************************)
(* The life of a peer object of the TXRX data path                         *)
(* (CORE/CLD_TXRX/TXRX/ol_txrx.c, ol_txrx_peer_find.c): attached and       *)
(* detached by the VOSS main controller thread on behalf of WMA            *)
(* (wma_create_peer, wma_remove_peer, wma_vdev_detach), given and deprived *)
(* of peer IDs by the HTT tasklet (PEER_MAP and PEER_UNMAP of the target), *)
(* used meanwhile by other threads (WLANTL_ChangeSTAState of TL shim), and *)
(* freed by whoever drops the last reference.                              *)
(*                                                                         *)
(* One step is one section under peer_ref_mutex or local_peer_ids.lock, or *)
(* one access outside them.  One vdev; each peer object is allocated once. *)
(***************************************************************************)
EXTENDS Integers, Sequences, FiniteSets, FiniteSetsExt, SequencesExt

CONSTANTS
    MaxPeers,    \* peer objects; each is allocated once, in order
    Macs,        \* MAC addresses of remote peers
    LocalIds,    \* the number of local peer IDs, OL_TXRX_NUM_LOCAL_PEER_IDS
    PeerIds,     \* the number of peer IDs the target has
    IdsPerPeer,  \* peer IDs the target gives one peer: 1, or 2 on Peregrine and Rome
    Users,       \* other threads that change a station's state
    Peekers,     \* the ones that also call ol_txrx_find_peer_by_addr
    num_peers    \* wlan_resource_config.num_peers

ASSUME PeerAssumption ==
    /\ MaxPeers \in Nat /\ LocalIds \in Nat \ {0} /\ PeerIds \in Nat /\ num_peers \in Nat
    /\ IdsPerPeer \in {1, 2}
    /\ IsFiniteSet(Users) /\ Peekers \subseteq Users /\ Users \cap {"mc", "tasklet"} = {}

VARIABLES
    pc,         \* where each thread is
    cur,        \* the peer its operation is about
    got,        \* the peer its last hash lookup returned
    bare,       \* the peer it still follows after it dropped the lookup's reference
    mac,        \* the MAC address its operation is about
    peer,       \* the peer objects
    peer_list,  \* vdev->peer_list
    hash,       \* peer_hash: the bins, whose order is the order of insertion
    freelist,   \* local_peer_ids.freelist
    map,        \* local_peer_ids.map
    peer_id_to_obj_map,
    vdev,       \* "up", "pending" (delete.pending) or "freed"
    wait_on_peer_id,
    wait_delete_comp,
    peer_count, \* wma->interfaces[].peer_count
    cmds,       \* WMI peer commands on their way to the target
    targetIds,  \* the peer IDs the target uses, by MAC address
    msgs        \* PEER_MAP and PEER_UNMAP messages on their way to the host

threads == <<pc, cur, got, bare, mac>>
tables  == <<peer_list, hash, wait_on_peer_id, wait_delete_comp, vdev>>
locals  == <<freelist, map>>
target  == <<cmds, targetIds, msgs>>
vars    == <<threads, peer, tables, locals, peer_id_to_obj_map, peer_count, target>>

MC       == "mc"
Tasklet  == "tasklet"
Threads  == {MC, Tasklet} \cup Users
Peers    == 1..MaxPeers
NoPeer   == 0
NoMac    == "nomac"
INVALID  == -1              \* OL_TXRX_INVALID_LOCAL_PEER_ID
Ids      == 0..(PeerIds - 1)
Lids     == 0..(LocalIds - 1)

(* adf_os_mem_zero, with the fields that matter here. *)
Zeroed == [mem |-> "none", mac |-> NoMac, ref_cnt |-> 0, valid |-> FALSE,
           delete_in_progress |-> FALSE, local_id |-> 0, peer_ids |-> <<>>]

Init ==
    /\ pc = [t \in Threads |-> "idle"]
    /\ cur = [t \in Threads |-> NoPeer] /\ got = [t \in Threads |-> NoPeer]
    /\ bare = [t \in Threads |-> NoPeer] /\ mac = [t \in Threads |-> NoMac]
    /\ peer = [p \in Peers |-> Zeroed]
    /\ peer_list = <<>> /\ hash = <<>>
    /\ freelist = [i \in 1..LocalIds |-> i - 1]
    /\ map = [i \in Lids |-> NoPeer]
    /\ peer_id_to_obj_map = [i \in Ids |-> NoPeer]
    /\ vdev = "up" /\ wait_on_peer_id = INVALID /\ wait_delete_comp = FALSE
    /\ peer_count = 0
    /\ cmds = <<>> /\ targetIds = [m \in Macs |-> <<>>] /\ msgs = <<>>

Goto(t, step) == pc' = [pc EXCEPT ![t] = step]

(* A thread that is done forgets its operands. *)
Leave(t) ==
    /\ Goto(t, "idle")
    /\ cur' = [cur EXCEPT ![t] = NoPeer] /\ got' = [got EXCEPT ![t] = NoPeer]
    /\ bare' = [bare EXCEPT ![t] = NoPeer] /\ mac' = [mac EXCEPT ![t] = NoMac]

-----------------------------------------------------------------------------
(* Lookups and references                                                  *)

(* The first peer of the bin with this address that passes check_valid.    *)
ol_txrx_peer_find_hash_find(m, check_valid) ==
    LET hits == {i \in DOMAIN hash : /\ peer[hash[i]].mac = m
                                     /\ check_valid => peer[hash[i]].valid}
    IN IF hits = {} THEN NoPeer ELSE hash[Min(hits)]

(* TAILQ_REMOVE. *)
Without(s, p) ==
    LET at == {i \in DOMAIN s : s[i] = p}
    IN IF at = {} THEN s ELSE RemoveAt(s, Min(at))

(* Mutant: nobody who waits for the deletion is woken. *)
DeletePeerNoWake(p, objects) ==
    /\ hash' = Without(hash, p) /\ peer_list' = Without(peer_list, p)
    /\ peer' = [objects EXCEPT ![p].mem = "freed", ![p].ref_cnt = 0,
                               ![p].delete_in_progress = FALSE]
    /\ vdev' = IF peer_list' = <<>> /\ vdev = "pending" THEN "freed" ELSE vdev
    /\ UNCHANGED <<wait_delete_comp, wait_on_peer_id>>

(* The part of ol_txrx_peer_unref_delete under peer_ref_mutex when the     *)
(* count reached zero, the free of the peer and of its vdev included.      *)
DeletePeer(p, objects) ==
    /\ hash' = Without(hash, p) /\ peer_list' = Without(peer_list, p)
    /\ peer' = [objects EXCEPT ![p].mem = "freed", ![p].ref_cnt = 0,
                               ![p].delete_in_progress = FALSE]
    /\ IF objects[p].local_id = wait_on_peer_id
         THEN wait_delete_comp' = TRUE /\ wait_on_peer_id' = INVALID
         ELSE UNCHANGED <<wait_delete_comp, wait_on_peer_id>>
    /\ vdev' = IF peer_list' = <<>> /\ vdev = "pending" THEN "freed" ELSE vdev

(* Drops one reference to p; objects are the peers as the caller left them. *)
(* A count that is already zero is asserted against and left alone.        *)
ol_txrx_peer_unref_delete(p, objects) ==
    IF objects[p].ref_cnt = 1
      THEN DeletePeer(p, objects)
      ELSE /\ peer' = [objects EXCEPT ![p].ref_cnt = IF @ = 0 THEN 0 ELSE @ - 1]
           /\ UNCHANGED tables

-----------------------------------------------------------------------------
(* wma_create_peer and ol_txrx_peer_attach                                 *)

(* Over num_peers the call fails and changes nothing. *)
WmaCreatePeer(m) ==
    /\ pc[MC] = "idle" /\ vdev = "up" /\ peer_count < num_peers
    /\ peer_count' = peer_count + 1
    /\ mac' = [mac EXCEPT ![MC] = m] /\ Goto(MC, "dup_check")
    /\ UNCHANGED <<cur, got, bare, peer, tables, locals, peer_id_to_obj_map, target>>

CreateFailed == peer_count' = peer_count - 1 /\ Leave(MC)

(* The walk over peer_list for peers of the same address: one that is being *)
(* deleted is waited for, by its local ID; one that is not ends the walk    *)
(* and the attach, and leaves the wait registered by the peers before it.   *)
CheckDuplicate ==
    LET dups    == {i \in DOMAIN peer_list : peer[peer_list[i]].mac = mac[MC]}
        kept    == {i \in dups : ~peer[peer_list[i]].delete_in_progress}
        waiting == {i \in dups : \A k \in kept : i < k}
    IN /\ pc[MC] = "dup_check"
       /\ IF waiting = {}
            THEN UNCHANGED <<wait_on_peer_id, wait_delete_comp>>
            ELSE /\ wait_on_peer_id' = peer[peer_list[Max(waiting)]].local_id
                 /\ wait_delete_comp' = FALSE
       /\ IF kept # {}
            THEN CreateFailed
            ELSE /\ Goto(MC, IF waiting = {} THEN "alloc" ELSE "wait")
                 /\ UNCHANGED <<cur, got, bare, mac, peer_count>>
       /\ UNCHANGED <<peer, peer_list, hash, vdev, locals, peer_id_to_obj_map, target>>

Woken ==
    /\ pc[MC] = "wait" /\ wait_delete_comp
    /\ Goto(MC, "alloc")
    /\ UNCHANGED <<cur, got, bare, mac, peer, tables, locals, peer_id_to_obj_map, peer_count, target>>

(* PEER_DELETION_TIMEOUT passes; wait_on_peer_id is reset without the lock. *)
WaitTimeout ==
    /\ pc[MC] = "wait" /\ ~wait_delete_comp
    /\ wait_on_peer_id' = INVALID
    /\ CreateFailed
    /\ UNCHANGED <<peer, peer_list, hash, vdev, wait_delete_comp, locals, peer_id_to_obj_map, target>>

AllocPeer ==
    /\ pc[MC] = "alloc"
    /\ \/ \E p \in Peers :
            /\ peer[p].mem = "none" /\ \A q \in 1..(p - 1) : peer[q].mem # "none"
            /\ peer' = [peer EXCEPT ![p].mem = "live", ![p].mac = mac[MC]]
            /\ cur' = [cur EXCEPT ![MC] = p] /\ Goto(MC, "insert")
            /\ UNCHANGED <<got, bare, mac, peer_count>>
       \/ CreateFailed /\ UNCHANGED peer
    /\ UNCHANGED <<tables, locals, peer_id_to_obj_map, target>>

InsertPeer ==
    /\ pc[MC] = "insert"
    /\ peer_list' = Append(peer_list, cur[MC])
    /\ Goto(MC, "init")
    /\ UNCHANGED <<cur, got, bare, mac, peer, hash, wait_on_peer_id, wait_delete_comp, vdev,
                   locals, peer_id_to_obj_map, peer_count, target>>

(* One reference for the attach, one for ol_rx_peer_map_handler. *)
InitPeer ==
    /\ pc[MC] = "init"
    /\ peer' = [peer EXCEPT ![cur[MC]].ref_cnt = 2, ![cur[MC]].valid = TRUE,
                            ![cur[MC]].delete_in_progress = FALSE,
                            ![cur[MC]].peer_ids = <<>>]
    /\ Goto(MC, "hash_add")
    /\ UNCHANGED <<cur, got, bare, mac, tables, locals, peer_id_to_obj_map, peer_count, target>>

ol_txrx_peer_find_hash_add ==
    /\ pc[MC] = "hash_add"
    /\ hash' = Append(hash, cur[MC])
    /\ Goto(MC, "update")
    /\ UNCHANGED <<cur, got, bare, mac, peer, peer_list, wait_on_peer_id, wait_delete_comp, vdev,
                   locals, peer_id_to_obj_map, peer_count, target>>

(* The head of the free list, or no ID when it is empty. *)
OL_TXRX_LOCAL_PEER_ID_ALLOC ==
    /\ pc[MC] = "local_id"
    /\ IF freelist = <<>>
         THEN peer' = [peer EXCEPT ![cur[MC]].local_id = INVALID] /\ UNCHANGED locals
         ELSE /\ peer' = [peer EXCEPT ![cur[MC]].local_id = Head(freelist)]
              /\ map' = [map EXCEPT ![Head(freelist)] = cur[MC]]
              /\ freelist' = Tail(freelist)
    /\ Goto(MC, "create_send")
    /\ UNCHANGED <<cur, got, bare, mac, tables, peer_id_to_obj_map, peer_count, target>>

(* WMI_PEER_CREATE_CMDID; a command that cannot be sent detaches the peer. *)
CreateSend ==
    /\ pc[MC] = "create_send"
    /\ \/ cmds' = Append(cmds, [type |-> "create", mac |-> mac[MC]])
          /\ Leave(MC) /\ UNCHANGED peer_count
       \/ /\ peer_count' = peer_count - 1
          /\ Goto(MC, "detach") /\ UNCHANGED <<cmds, cur, got, bare, mac>>
    /\ UNCHANGED <<peer, tables, locals, peer_id_to_obj_map, targetIds, msgs>>

-----------------------------------------------------------------------------
(* Lookups that return a peer without a reference, and                     *)
(* ol_txrx_peer_state_update: find, then a plain decrement                 *)

(* WMA looks up the peer it is about to remove; a peeker any address. *)
StartFind(t, m) ==
    /\ pc[t] = "idle"
    /\ t = MC => \E p \in Peers : peer[p].mac = m /\ peer[p].valid
    /\ mac' = [mac EXCEPT ![t] = m] /\ Goto(t, "find")
    /\ UNCHANGED <<cur, got, bare, peer, tables, locals, peer_id_to_obj_map, peer_count, target>>

(* What comes after the lookup in each caller. *)
AfterFind(t) ==
    CASE pc[t] \in {"update", "update_dec", "write"} -> IF t = MC THEN "local_id" ELSE "release"
      [] OTHER -> IF t = MC THEN "remove_send" ELSE "idle"

GotoNext(t) ==
    /\ Goto(t, AfterFind(t))
    /\ mac' = [mac EXCEPT ![t] = IF AfterFind(t) = "idle" THEN NoMac ELSE @]

ol_txrx_find_peer_by_addr(t) ==
    LET p == ol_txrx_peer_find_hash_find(mac[t], TRUE) IN
    /\ pc[t] \in {"find", "update"}
    /\ got' = [got EXCEPT ![t] = p]
    /\ IF p = NoPeer
         THEN GotoNext(t) /\ UNCHANGED peer
         ELSE /\ peer' = [peer EXCEPT ![p].ref_cnt = @ + 1]
              /\ Goto(t, IF pc[t] = "find" THEN "find_dec" ELSE "update_dec")
              /\ UNCHANGED mac
    /\ UNCHANGED <<cur, bare, tables, locals, peer_id_to_obj_map, peer_count, target>>

(* adf_os_atomic_dec: the count is not tested.  WMA removes the peer it     *)
(* found; a peeker and a state update that changes the state follow the    *)
(* pointer once more, without the reference.                               *)
PlainDec(t) ==
    LET p == got[t] IN
    /\ pc[t] \in {"find_dec", "update_dec"}
    /\ peer' = [peer EXCEPT ![p].ref_cnt = @ - 1]
    /\ got' = [got EXCEPT ![t] = NoPeer]
    /\ \/ /\ pc[t] = "find_dec" /\ t = MC
          /\ GotoNext(t) /\ cur' = [cur EXCEPT ![t] = p] /\ UNCHANGED bare
       \/ pc[t] = "update_dec" /\ GotoNext(t) /\ UNCHANGED <<cur, bare>>
       \/ /\ t = MC => pc[t] = "update_dec"
          /\ Goto(t, IF pc[t] = "find_dec" THEN "peeked" ELSE "write")
          /\ bare' = [bare EXCEPT ![t] = p] /\ UNCHANGED <<cur, mac>>
    /\ UNCHANGED <<tables, locals, peer_id_to_obj_map, peer_count, target>>

(* The write of peer->state, and a peeker's read of local_id or vdev. *)
FollowBare(t) ==
    /\ pc[t] \in {"peeked", "write"}
    /\ GotoNext(t)
    /\ bare' = [bare EXCEPT ![t] = NoPeer]
    /\ UNCHANGED <<cur, got, peer, tables, locals, peer_id_to_obj_map, peer_count, target>>

-----------------------------------------------------------------------------
(* wma_remove_peer, ol_txrx_peer_detach and ol_txrx_vdev_detach            *)

(* A WMI_PEER_DELETE_CMDID that cannot be sent is not noticed; nothing is  *)
(* done on a vdev whose peer_count is zero.                                *)
WmaRemovePeer ==
    /\ pc[MC] = "remove_send"
    /\ IF peer_count = 0
         THEN Leave(MC) /\ UNCHANGED <<cmds, peer_count>>
         ELSE /\ cmds' \in {cmds, Append(cmds, [type |-> "delete", mac |-> mac[MC]])}
              /\ peer_count' = peer_count - 1
              /\ IF cur[MC] = NoPeer THEN Leave(MC)
                                     ELSE Goto(MC, "detach") /\ UNCHANGED <<cur, got, bare, mac>>
    /\ UNCHANGED <<peer, tables, locals, peer_id_to_obj_map, targetIds, msgs>>

InvalidatePeer ==
    /\ pc[MC] = "detach"
    /\ peer' = [peer EXCEPT ![cur[MC]].valid = FALSE]
    /\ Goto(MC, "free_id")
    /\ UNCHANGED <<cur, got, bare, mac, tables, locals, peer_id_to_obj_map, peer_count, target>>

(* Mutant: the map keeps the peer under its freed ID. *)
LocalPeerIdFreeKeepsMap ==
    LET i == peer[cur[MC]].local_id IN
    /\ pc[MC] = "free_id"
    /\ freelist' = IF i = INVALID THEN freelist ELSE <<i>> \o freelist
    /\ Goto(MC, "mark")
    /\ UNCHANGED <<cur, got, bare, mac, peer, tables, map, peer_id_to_obj_map, peer_count, target>>

(* The ID goes back to the head of the free list; the peer keeps the number. *)
OL_TXRX_LOCAL_PEER_ID_FREE ==
    LET i == peer[cur[MC]].local_id IN
    /\ pc[MC] = "free_id"
    /\ IF i = INVALID THEN UNCHANGED locals
                      ELSE freelist' = <<i>> \o freelist /\ map' = [map EXCEPT ![i] = NoPeer]
    /\ Goto(MC, "mark")
    /\ UNCHANGED <<cur, got, bare, mac, peer, tables, peer_id_to_obj_map, peer_count, target>>

MarkDeleted ==
    /\ pc[MC] = "mark"
    /\ peer' = [peer EXCEPT ![cur[MC]].delete_in_progress = TRUE]
    /\ Goto(MC, "detach_unref")
    /\ UNCHANGED <<cur, got, bare, mac, tables, locals, peer_id_to_obj_map, peer_count, target>>

(* Mutant: the detach drops its reference without the test for zero. *)
DetachUnrefPlain ==
    /\ pc[MC] = "detach_unref"
    /\ peer' = [peer EXCEPT ![cur[MC]].ref_cnt = @ - 1]
    /\ Leave(MC)
    /\ UNCHANGED <<tables, locals, peer_id_to_obj_map, peer_count, target>>

DetachUnref ==
    /\ pc[MC] = "detach_unref"
    /\ ol_txrx_peer_unref_delete(cur[MC], peer)
    /\ Leave(MC)
    /\ UNCHANGED <<locals, peer_id_to_obj_map, peer_count, target>>

(* Mutant: the vdev is freed although peers are left. *)
VdevDetachAtOnce ==
    /\ pc[MC] = "idle" /\ vdev = "up"
    /\ \A p \in Peers : ~peer[p].valid
    /\ vdev' = "freed"
    /\ UNCHANGED <<threads, peer, peer_list, hash, wait_on_peer_id, wait_delete_comp,
                   locals, peer_id_to_obj_map, peer_count, target>>

(* After the BSS was stopped, so with every peer detached. *)
ol_txrx_vdev_detach ==
    /\ pc[MC] = "idle" /\ vdev = "up"
    /\ \A p \in Peers : ~peer[p].valid
    /\ vdev' = IF peer_list = <<>> THEN "freed" ELSE "pending"
    /\ UNCHANGED <<threads, peer, peer_list, hash, wait_on_peer_id, wait_delete_comp,
                   locals, peer_id_to_obj_map, peer_count, target>>

-----------------------------------------------------------------------------
(* The target (external) and the HTT tasklet                               *)

TargetCreate ==
    LET free == Ids \ UNION {ToSet(targetIds[m]) : m \in Macs}
        a    == Min(free)
        ids  == IF IdsPerPeer = 1 THEN <<a>> ELSE <<a, Min(free \ {a})>>
        m    == Head(cmds).mac
    IN /\ cmds # <<>> /\ Head(cmds).type = "create" /\ Cardinality(free) >= IdsPerPeer
       /\ targetIds' = [targetIds EXCEPT ![m] = ids]
       /\ msgs' = msgs \o [i \in 1..Len(ids) |-> [type |-> "map", id |-> ids[i], mac |-> m]]
       /\ cmds' = Tail(cmds)
       /\ UNCHANGED <<threads, peer, tables, locals, peer_id_to_obj_map, peer_count>>

TargetDelete ==
    LET m   == Head(cmds).mac
        ids == targetIds[m]
    IN /\ cmds # <<>> /\ Head(cmds).type = "delete"
       /\ targetIds' = [targetIds EXCEPT ![m] = <<>>]
       /\ msgs' = msgs \o [i \in 1..Len(ids) |-> [type |-> "unmap", id |-> ids[i], mac |-> m]]
       /\ cmds' = Tail(cmds)
       /\ UNCHANGED <<threads, peer, tables, locals, peer_id_to_obj_map, peer_count>>

(* ol_rx_peer_map_handler: the lookup of ol_txrx_peer_find_add_id. *)
MapFind ==
    LET p == ol_txrx_peer_find_hash_find(Head(msgs).mac, FALSE) IN
    /\ pc[Tasklet] = "idle" /\ msgs # <<>> /\ Head(msgs).type = "map"
    /\ IF p = NoPeer
         THEN msgs' = Tail(msgs) /\ UNCHANGED <<pc, cur, peer>>
         ELSE /\ peer' = [peer EXCEPT ![p].ref_cnt = @ + 1]
              /\ cur' = [cur EXCEPT ![Tasklet] = p] /\ Goto(Tasklet, "map")
              /\ UNCHANGED msgs
    /\ UNCHANGED <<got, bare, mac, tables, locals, peer_id_to_obj_map, peer_count, cmds, targetIds>>

(* Mutant: every ID, not only the first, takes over a reference. *)
MapAddIdAlwaysUnref ==
    LET p == cur[Tasklet]
        id == Head(msgs).id
    IN /\ pc[Tasklet] = "map"
       /\ peer_id_to_obj_map' = [peer_id_to_obj_map EXCEPT ![id] = p]
       /\ ol_txrx_peer_unref_delete(p, [peer EXCEPT ![p].peer_ids = Append(@, id)])
       /\ msgs' = Tail(msgs)
       /\ Leave(Tasklet)
       /\ UNCHANGED <<locals, peer_count, cmds, targetIds>>

(* The first ID takes over the map handler's reference.  The code enters   *)
(* the ID into peer_ids afterwards: only this tasklet reads peer_ids, and  *)
(* the reference the ID now stands for keeps the peer.                     *)
MapAddId ==
    LET p == cur[Tasklet]
        id == Head(msgs).id
        objects == [peer EXCEPT ![p].peer_ids = Append(@, id)]
    IN /\ pc[Tasklet] = "map"
       /\ peer_id_to_obj_map' = [peer_id_to_obj_map EXCEPT ![id] = p]
       /\ IF peer[p].peer_ids = <<>>
            THEN ol_txrx_peer_unref_delete(p, objects)
            ELSE peer' = objects /\ UNCHANGED tables
       /\ msgs' = Tail(msgs)
       /\ Leave(Tasklet)
       /\ UNCHANGED <<locals, peer_count, cmds, targetIds>>

(* Mutant: the reference of the ID is not dropped. *)
PeerUnmapKeepsRef ==
    /\ pc[Tasklet] = "idle" /\ msgs # <<>> /\ Head(msgs).type = "unmap"
    /\ peer_id_to_obj_map' = [peer_id_to_obj_map EXCEPT ![Head(msgs).id] = NoPeer]
    /\ msgs' = Tail(msgs)
    /\ UNCHANGED <<threads, peer, tables, locals, peer_count, cmds, targetIds>>

ol_rx_peer_unmap_handler ==
    LET id == Head(msgs).id
        p  == peer_id_to_obj_map[id]
    IN /\ pc[Tasklet] = "idle" /\ msgs # <<>> /\ Head(msgs).type = "unmap"
       /\ peer_id_to_obj_map' = [peer_id_to_obj_map EXCEPT ![id] = NoPeer]
       /\ IF p = NoPeer THEN UNCHANGED <<peer, tables>>
                        ELSE ol_txrx_peer_unref_delete(p, peer)
       /\ msgs' = Tail(msgs)
       /\ UNCHANGED <<threads, locals, peer_count, cmds, targetIds>>

-----------------------------------------------------------------------------
(* WLANTL_ChangeSTAState, in another thread                                *)

(* Mutant: the lookup by local ID takes no reference. *)
FindByLocalIdNoRef(u, i) ==
    /\ pc[u] = "idle" /\ map[i] # NoPeer
    /\ cur' = [cur EXCEPT ![u] = map[i]] /\ Goto(u, "held")
    /\ UNCHANGED <<got, bare, mac, peer, tables, locals, peer_id_to_obj_map, peer_count, target>>

ol_txrx_peer_find_with_ref_by_local_id(u, i) ==
    /\ pc[u] = "idle" /\ map[i] # NoPeer
    /\ peer' = [peer EXCEPT ![map[i]].ref_cnt = @ + 1]
    /\ cur' = [cur EXCEPT ![u] = map[i]] /\ Goto(u, "held")
    /\ UNCHANGED <<got, bare, mac, tables, locals, peer_id_to_obj_map, peer_count, target>>

(* A peer that is being deleted is let go, any other gets its new state. *)
ChangeState(u) ==
    /\ pc[u] = "held"
    /\ mac' = [mac EXCEPT ![u] = peer[cur[u]].mac]
    /\ Goto(u, IF peer[cur[u]].delete_in_progress THEN "release" ELSE "update")
    /\ UNCHANGED <<cur, got, bare, peer, tables, locals, peer_id_to_obj_map, peer_count, target>>

ReleasePeer(u) ==
    /\ pc[u] = "release"
    /\ ol_txrx_peer_unref_delete(cur[u], peer)
    /\ Leave(u)
    /\ UNCHANGED <<locals, peer_id_to_obj_map, peer_count, target>>

-----------------------------------------------------------------------------
ThreadStep(t) == ol_txrx_find_peer_by_addr(t) \/ PlainDec(t) \/ FollowBare(t)

McStep ==
    \/ CheckDuplicate \/ Woken \/ WaitTimeout \/ AllocPeer \/ InsertPeer \/ InitPeer
    \/ ol_txrx_peer_find_hash_add \/ OL_TXRX_LOCAL_PEER_ID_ALLOC \/ CreateSend
    \/ WmaRemovePeer \/ InvalidatePeer \/ OL_TXRX_LOCAL_PEER_ID_FREE
    \/ MarkDeleted \/ DetachUnref

TargetStep  == TargetCreate \/ TargetDelete
TaskletStep == MapFind \/ MapAddId \/ ol_rx_peer_unmap_handler
UserStep(u) == ChangeState(u) \/ ReleasePeer(u)

Next ==
    \/ \E m \in Macs : WmaCreatePeer(m)
    \/ \E t \in {MC} \cup Peekers, m \in Macs : StartFind(t, m)
    \/ ol_txrx_vdev_detach
    \/ McStep
    \/ \E t \in {MC} \cup Users : ThreadStep(t)
    \/ TargetStep \/ TaskletStep
    \/ \E u \in Users, i \in Lids : ol_txrx_peer_find_with_ref_by_local_id(u, i)
    \/ \E u \in Users : UserStep(u)

(* A thread inside an operation runs on, the tasklet handles what arrived, *)
(* the target answers; nobody need start an operation.                     *)
Spec ==
    /\ Init /\ [][Next]_vars
    /\ WF_vars(McStep \/ ThreadStep(MC)) /\ WF_vars(TargetStep) /\ WF_vars(TaskletStep)
    /\ \A u \in Users : WF_vars(UserStep(u) \/ ThreadStep(u))

-----------------------------------------------------------------------------
(* Properties                                                              *)

Live(p) == peer[p].mem = "live"

Steps == {"idle", "dup_check", "wait", "alloc", "insert", "init", "hash_add", "update",
          "update_dec", "local_id", "create_send", "find", "find_dec", "remove_send",
          "peeked", "write", "detach", "free_id", "mark", "detach_unref", "map", "held",
          "release"}

(* Every variable keeps its type; only bare is no reference of the thread. *)
BareOK == bare \in [Threads -> Peers \cup {NoPeer}]
StateOK ==
    /\ pc \in [Threads -> Steps]
    /\ cur \in [Threads -> Peers \cup {NoPeer}] /\ got \in [Threads -> Peers \cup {NoPeer}]
    /\ mac \in [Threads -> Macs \cup {NoMac}]
    /\ peer \in [Peers -> [mem: {"none", "live", "freed"}, mac: Macs \cup {NoMac}, ref_cnt: Nat,
                           valid: BOOLEAN, delete_in_progress: BOOLEAN,
                           local_id: Lids \cup {INVALID}, peer_ids: Seq(Ids)]]
    /\ peer_list \in Seq(Peers) /\ hash \in Seq(Peers)
    /\ freelist \in Seq(Lids) /\ map \in [Lids -> Peers \cup {NoPeer}]
    /\ peer_id_to_obj_map \in [Ids -> Peers \cup {NoPeer}]
    /\ vdev \in {"up", "pending", "freed"}
    /\ wait_on_peer_id \in Lids \cup {INVALID} /\ wait_delete_comp \in BOOLEAN
    /\ peer_count \in 0..num_peers
    /\ cmds \in Seq([type: {"create", "delete"}, mac: Macs])
    /\ targetIds \in [Macs -> Seq(Ids)]
    /\ msgs \in Seq([type: {"map", "unmap"}, id: Ids, mac: Macs])
TypeOK == StateOK /\ BareOK

(* No table points to a freed peer, and no thread does in an operation for *)
(* which it holds a reference or, like WMA's removal, relies on being the  *)
(* one that detaches: a lookup by hash, local ID or peer ID can be         *)
(* followed safely, and so can the pointer kept across an unlock.          *)
NoDangling ==
    /\ \A p \in ToSet(hash) \cup ToSet(peer_list) : Live(p)
    /\ \A i \in Lids : map[i] # NoPeer => Live(map[i])
    /\ \A i \in Ids : peer_id_to_obj_map[i] # NoPeer => Live(peer_id_to_obj_map[i])
    /\ \A t \in Threads : /\ cur[t] # NoPeer => Live(cur[t])
                          /\ got[t] # NoPeer => Live(got[t])

(* ol_txrx_peer_state_update writes peer->state after it dropped the       *)
(* reference of its lookup (ol_txrx.c:1759-1762): it writes into a peer    *)
(* that is still there, whoever releases it in between.  (What a peeker    *)
(* reads through its pointer may be freed.)                                *)
StateWriteSafe == \A t \in {MC} \cup Users : pc[t] = "write" => Live(bare[t])

(* What a peer's count stands for: the attach, until ol_txrx_peer_detach;  *)
(* the map handler's, taken over by the first ID, or the IDs mapped since; *)
(* the threads between a lookup and its release.                           *)
Attached(p) ==
    \/ peer[p].valid
    \/ cur[MC] = p /\ pc[MC] \in {"free_id", "mark", "detach_unref"}
References(p) ==
    (IF Attached(p) THEN 1 ELSE 0)
    + (IF peer[p].peer_ids = <<>> THEN 1
       ELSE Cardinality({i \in Ids : peer_id_to_obj_map[i] = p}))
    + Cardinality({t \in Threads : got[t] = p})
    + Cardinality({t \in Threads \ {MC} : cur[t] = p})

(* The count of a peer in the hash table is the number of references to    *)
(* it, whoever takes and drops them in whatever order.                     *)
RefsAccounted == \A p \in ToSet(hash) : peer[p].ref_cnt = References(p)

(* A peer whose last reference is dropped is deleted: it stays behind in   *)
(* the tables without references, where no later release finds it, only if *)
(* a caller of ol_txrx_find_peer_by_addr that has no reference of its own  *)
(* made the last decrement.                                                *)
Forgotten(p) == p \in ToSet(hash) /\ peer[p].ref_cnt = 0
OnlyPeekersForget ==
    [][\A p \in Peers : Forgotten(p)' =>
           Forgotten(p) \/ \E t \in Peekers : pc[t] = "find_dec" /\ got[t] = p /\ PlainDec(t)]_vars

(* An attach that waits, and has not been woken, waits for a peer that is  *)
(* still there under the local ID it registered: the deletion cannot slip  *)
(* between the check of peer_list and the wait.                            *)
NoMissedWake ==
    pc[MC] = "wait" /\ ~wait_delete_comp =>
        \E p \in ToSet(peer_list) : /\ peer[p].mac = mac[MC]
                                    /\ peer[p].local_id = wait_on_peer_id

(* The vdev is freed with its last peer: never under a peer that still     *)
(* points to it, and not later once its deletion is pending.               *)
VdevFreedWithLastPeer ==
    /\ vdev = "freed" => \A p \in Peers : ~Live(p)
    /\ vdev = "pending" => peer_list # <<>>

(* The vdev's list never holds two peers of one address: what the check    *)
(* for a duplicate in ol_txrx_peer_attach is there for.                    *)
UniqueMac ==
    \A i, j \in DOMAIN peer_list :
        peer[peer_list[i]].mac = peer[peer_list[j]].mac => i = j

(* A peer that was detached and whose IDs the target has unmapped is freed *)
(* in the end, unless a peeker made the last decrement.                    *)
Orphaned(p) ==
    /\ Live(p) /\ peer[p].delete_in_progress /\ peer[p].peer_ids # <<>>
    /\ \A i \in Ids : peer_id_to_obj_map[i] # p
PeerReclaimed == \A p \in Peers : Orphaned(p) ~> ~Orphaned(p) \/ Forgotten(p)

=============================================================================
