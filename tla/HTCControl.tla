----------------------------- MODULE HTCControl -----------------------------
(***************************************************************************)
(* Bringing HTC up: HTCWaitTarget, HTCConnectService for each service and  *)
(* HTCStart (CORE/SERVICES/HTC/htc.c, htc_services.c), run by the driver's *)
(* start-up thread, against the endpoint-0 branch of                       *)
(* HTCRxCompletionHandler (htc_recv.c), run by the HIF completion thread.  *)
(*                                                                         *)
(* The two share one response buffer, the flag CtrlResponseProcessing and  *)
(* the completion CtrlResponseValid.  The handler tests the flag without   *)
(* the lock, stores under it and completes after it: three steps.          *)
(***************************************************************************)
EXTENDS Integers, Sequences, FiniteSets, Functions

CONSTANTS
    ConnectOrder,   \* the services connected at start-up, in order
    QCA_TX_HTT2_SUPPORT,
    NoCreditFlow,   \* services that ask for or get no credit flow control
    Epping,         \* WLAN_IS_EPPING_ENABLED
    ENDPOINT_MAX,
    CreditCounts    \* credit counts a ready message may carry

(* htt_htc_attach goes on without HTT_DATA2_MSG_SVC, connected only with   *)
(* QCA_TX_HTT2_SUPPORT; every other client gives up, and start-up with it. *)
Tolerated == IF QCA_TX_HTT2_SUPPORT THEN {"HTT_DATA2_MSG_SVC"} ELSE {}

Services  == Range(ConnectOrder)
Control   == "HTC_CTRL_RSVD_SVC"
Unused    == "none"
Endpoints == 0..(ENDPOINT_MAX - 1)

ASSUME ControlAssumption ==
    /\ ConnectOrder \in Seq(Services) /\ IsInjective(ConnectOrder)
    /\ Services \cap {Control, Unused} = {}
    /\ NoCreditFlow \subseteq Services
    /\ Epping \in BOOLEAN /\ QCA_TX_HTT2_SUPPORT \in BOOLEAN
    /\ ENDPOINT_MAX \in Nat \ {0}
    /\ CreditCounts \subseteq Nat

VARIABLES
    pc,                     \* where the start-up thread is
    req,                    \* the request it is at: 0 is the target's ready message
    CtrlResponseValid,      \* the completion's count
    CtrlResponseProcessing,
    CtrlResponseBuffer,
    hpc, netbuf,            \* the handler and the message it is at
    requests,               \* requests the target has not answered
    wire,                   \* control messages on their way to the handler
    EndPoint,               \* the endpoint table
    TotalTransmitCredits,
    connected,              \* [Services -> the endpoint its client was given, or -1]
    bug                     \* VOS_BUG was reached

completion == <<CtrlResponseValid, CtrlResponseProcessing, CtrlResponseBuffer>>
handler    == <<hpc, netbuf, bug>>
link       == <<requests, wire>>
table      == <<EndPoint, TotalTransmitCredits, connected>>
vars       == <<pc, req, completion, handler, link, table>>

-----------------------------------------------------------------------------
(* Control messages, reduced to what the host looks at: valid stands for   *)
(* the checks of message id and length, answers for the request the target *)
(* answered, which the host does not look at.                              *)

Readies == [answers : {0}, valid : BOOLEAN, credits : CreditCounts]

Responses(i) == [answers : {i}, valid : BOOLEAN, success : BOOLEAN,
                 endpoint : 0..ENDPOINT_MAX, maxMsgSize : {0, 1}]

Answers(i) == IF i = 0 THEN Readies ELSE Responses(i)

(* The target answers each request once, in order; it may take longer than *)
(* the host waits.                                                         *)
TargetAnswer ==
    /\ requests # <<>>
    /\ requests' = Tail(requests)
    /\ \E m \in Answers(Head(requests)) : wire' = Append(wire, m)
    /\ UNCHANGED <<pc, req, completion, handler, table>>

-----------------------------------------------------------------------------
(* HTCRxCompletionHandler, endpoint 0.                                     *)

HTCRxCompletionHandler ==
    /\ hpc = "idle" /\ wire # <<>>
    /\ wire' = Tail(wire)
    /\ IF CtrlResponseProcessing
       THEN bug' = TRUE /\ UNCHANGED <<hpc, netbuf>>
       ELSE hpc' = "store" /\ netbuf' = <<Head(wire)>> /\ UNCHANGED bug
    /\ UNCHANGED <<pc, req, completion, requests, table>>

StoreCtrlResponse ==
    /\ hpc = "store"
    /\ CtrlResponseBuffer' = netbuf
    /\ CtrlResponseProcessing' = TRUE
    /\ hpc' = "complete" /\ netbuf' = <<>>
    /\ UNCHANGED <<pc, req, CtrlResponseValid, bug, link, table>>

CompleteCtrlResponse ==
    /\ hpc = "complete"
    /\ CtrlResponseValid' = CtrlResponseValid + 1
    /\ hpc' = "idle"
    /\ UNCHANGED <<pc, req, CtrlResponseProcessing, CtrlResponseBuffer, netbuf, bug, link,
                   table>>

-----------------------------------------------------------------------------
(* The start-up thread.                                                    *)

(* Mutant: start-up goes on after a failed request. *)
FailIgnored == pc' = "connect" /\ req' = req + 1

(* Start-up ends, unless the client of the service can do without it. *)
Fail ==
    IF req > 0 /\ ConnectOrder[req] \in Tolerated
    THEN pc' = "connect" /\ req' = req + 1
    ELSE pc' = "failed" /\ UNCHANGED req

(* HTCWaitTarget starts HIF, which posts the buffers the ready message     *)
(* will be received in.                                                    *)
HIFStart ==
    /\ pc = "off"
    /\ \/ pc' = "sent" /\ requests' = Append(requests, req)
       \/ pc' = "failed" /\ UNCHANGED requests
    /\ UNCHANGED <<req, completion, handler, wire, table>>

(* HTCConnectService sends the request; the allocation of the packet can   *)
(* fail.                                                                   *)
SendConnect ==
    /\ pc = "connect" /\ req \in DOMAIN ConnectOrder
    /\ \/ pc' = "sent" /\ requests' = Append(requests, req) /\ UNCHANGED req
       \/ Fail /\ UNCHANGED requests
    /\ UNCHANGED <<completion, handler, wire, table>>

(* Mutant: the completion itself is re-initialised. *)
ReInitCompletionByReference ==
    /\ pc = "sent"
    /\ pc' = "wait"
    /\ CtrlResponseValid' = 0
    /\ UNCHANGED <<req, CtrlResponseProcessing, CtrlResponseBuffer, handler, link, table>>

(* adf_os_re_init_completion takes the completion by value: it resets a    *)
(* copy.                                                                   *)
ReInitCompletion ==
    /\ pc = "sent"
    /\ pc' = "wait"
    /\ UNCHANGED <<req, completion, handler, link, table>>

WaitForCompletion ==
    /\ pc = "wait" /\ CtrlResponseValid > 0
    /\ CtrlResponseValid' = CtrlResponseValid - 1
    /\ pc' = "parse"
    /\ UNCHANGED <<req, CtrlResponseProcessing, CtrlResponseBuffer, handler, link, table>>

(* Mutant: the wait has no timeout. *)
WaitForever == FALSE /\ UNCHANGED vars

(* HTC_CONTROL_RX_TIMEOUT passed.  hif_set_target_reset is empty on PCIe.  *)
WaitTimeout ==
    /\ pc = "wait" /\ CtrlResponseValid = 0
    /\ Fail
    /\ UNCHANGED <<completion, handler, link, table>>

(* ServiceTxAllocTable with HIF_PCI; CreditAllocation is an A_UINT8. *)
HTCSetupTargetBufferAssignments(total) ==
    [svc \in {"WMI_CONTROL_SVC"}
             \cup (IF Epping THEN {"WMI_DATA_BE_SVC", "WMI_DATA_BK_SVC"} ELSE {}) |->
        (IF svc = "WMI_CONTROL_SVC" THEN total ELSE total \div 2) % 256]

(* Mutant: a service that is not in the table gets all the credits. *)
HTCGetCreditAllocationDefault(svc, total) ==
    LET ServiceTxAllocTable == HTCSetupTargetBufferAssignments(total)
    IN  IF svc \in DOMAIN ServiceTxAllocTable THEN ServiceTxAllocTable[svc] ELSE total % 256

HTCGetCreditAllocation(svc, total) ==
    LET ServiceTxAllocTable == HTCSetupTargetBufferAssignments(total)
    IN  IF svc \in DOMAIN ServiceTxAllocTable THEN ServiceTxAllocTable[svc] ELSE 0

Reset == [ServiceID |-> Unused, TxCredits |-> 0, TxCreditFlowEnabled |-> TRUE]

(* The endpoint is given to a service. *)
Assigned(svc, credits) ==
    [ServiceID |-> svc, TxCredits |-> credits,
     TxCreditFlowEnabled |-> svc \notin NoCreditFlow]

(* HTCWaitTarget looks at the ready message and connects the control       *)
(* service.                                                                *)
HTCWaitTarget ==
    LET m == Head(CtrlResponseBuffer)
    IN  /\ pc = "parse" /\ req = 0
        /\ TotalTransmitCredits' = IF m.valid THEN m.credits ELSE TotalTransmitCredits
        /\ IF m.valid /\ m.credits # 0
           THEN /\ CtrlResponseProcessing' = FALSE
                /\ EndPoint' = [EndPoint EXCEPT ![0] = Assigned(Control, 0)]
                /\ pc' = "connect" /\ req' = 1
           ELSE Fail /\ UNCHANGED <<CtrlResponseProcessing, EndPoint>>
        /\ UNCHANGED <<CtrlResponseValid, CtrlResponseBuffer, handler, link, connected>>

(* HTCConnectService looks at the response: a message that is not valid,   *)
(* a service the target refused, an endpoint that cannot be used.          *)
BadResponse ==
    LET m == Head(CtrlResponseBuffer)
    IN  /\ pc = "parse" /\ req > 0
        /\ ~(m.valid /\ m.success)
        /\ CtrlResponseProcessing' = (CtrlResponseProcessing /\ ~(m.valid /\ QCA_TX_HTT2_SUPPORT))
        /\ Fail
        /\ UNCHANGED <<CtrlResponseValid, CtrlResponseBuffer, handler, link, table>>

(* Mutant: an endpoint in use is given out again. *)
UsableUnchecked(m) == m.endpoint < ENDPOINT_MAX /\ m.maxMsgSize # 0

Usable(m) ==
    /\ m.endpoint < ENDPOINT_MAX
    /\ m.maxMsgSize # 0
    /\ EndPoint[m.endpoint].ServiceID = Unused

(* Mutant: the response buffer is not released. *)
HTCConnectServiceKeepsBuffer ==
    LET m   == Head(CtrlResponseBuffer)
        svc == ConnectOrder[req]
    IN  /\ pc = "parse" /\ req > 0
        /\ m.valid /\ m.success
        /\ IF Usable(m)
           THEN /\ EndPoint' = [EndPoint EXCEPT ![m.endpoint] =
                      Assigned(svc, HTCGetCreditAllocation(svc, TotalTransmitCredits))]
                /\ connected' = [connected EXCEPT ![svc] = m.endpoint]
                /\ pc' = "connect" /\ req' = req + 1
           ELSE Fail /\ UNCHANGED <<EndPoint, connected>>
        /\ UNCHANGED <<completion, handler, link, TotalTransmitCredits>>

HTCConnectService ==
    LET m   == Head(CtrlResponseBuffer)
        svc == ConnectOrder[req]
    IN  /\ pc = "parse" /\ req > 0
        /\ m.valid /\ m.success
        /\ CtrlResponseProcessing' = FALSE
        /\ IF Usable(m)
           THEN /\ EndPoint' = [EndPoint EXCEPT ![m.endpoint] =
                      Assigned(svc, HTCGetCreditAllocation(svc, TotalTransmitCredits))]
                /\ connected' = [connected EXCEPT ![svc] = m.endpoint]
                /\ pc' = "connect" /\ req' = req + 1
           ELSE Fail /\ UNCHANGED <<EndPoint, connected>>
        /\ UNCHANGED <<CtrlResponseValid, CtrlResponseBuffer, handler, link,
                       TotalTransmitCredits>>

(* HTCStart sends the setup-complete message, which has no answer. *)
HTCStart ==
    /\ pc = "connect" /\ req \notin DOMAIN ConnectOrder
    /\ pc' \in {"started", "failed"}
    /\ UNCHANGED <<req, completion, handler, link, table>>

(* HTCStop: ResetEndpointStates, after the flush HTCSend models. *)
HTCStop ==
    /\ pc \in {"started", "failed"}
    /\ pc' = "stopped"
    /\ EndPoint' = [e \in Endpoints |-> [EndPoint[e] EXCEPT !.ServiceID = Unused,
                                                            !.TxCreditFlowEnabled = TRUE]]
    /\ UNCHANGED <<req, completion, handler, link, TotalTransmitCredits, connected>>

-----------------------------------------------------------------------------
(* HTCCreate: the HTC_TARGET is zeroed, the completion initialised.        *)
Init ==
    /\ pc = "off" /\ req = 0
    /\ CtrlResponseValid = 0 /\ CtrlResponseProcessing = FALSE
    /\ CtrlResponseBuffer = <<>>
    /\ hpc = "idle" /\ netbuf = <<>> /\ bug = FALSE
    /\ requests = <<>> /\ wire = <<>>
    /\ EndPoint = [e \in Endpoints |-> Reset]
    /\ TotalTransmitCredits = 0
    /\ connected = [s \in Services |-> -1]

Handler == HTCRxCompletionHandler \/ StoreCtrlResponse \/ CompleteCtrlResponse

StartUp ==
    \/ HIFStart
    \/ SendConnect
    \/ ReInitCompletion
    \/ WaitForCompletion
    \/ WaitTimeout
    \/ HTCWaitTarget
    \/ BadResponse
    \/ HTCConnectService
    \/ HTCStart

Next == TargetAnswer \/ Handler \/ StartUp \/ HTCStop

Spec == Init /\ [][Next]_vars

(* The start-up thread and the softirq are scheduled; nothing is assumed   *)
(* of the target.                                                          *)
FairSpec == Spec /\ WF_vars(StartUp) /\ WF_vars(Handler)

-----------------------------------------------------------------------------
(* Properties.                                                             *)

Messages == UNION {Answers(i) : i \in 0..Len(ConnectOrder)}

(* Type correctness of the start-up state. *)
TypeOK ==
    /\ pc \in {"off", "sent", "wait", "parse", "connect", "failed", "started", "stopped"}
    /\ req \in 0..(Len(ConnectOrder) + 1)
    /\ CtrlResponseValid \in {0, 1}
    /\ CtrlResponseProcessing \in BOOLEAN /\ bug \in BOOLEAN
    /\ hpc \in {"idle", "store", "complete"}
    /\ \A s \in {CtrlResponseBuffer, netbuf} : s = <<>> \/ (Len(s) = 1 /\ s[1] \in Messages)
    /\ \A i \in DOMAIN requests : requests[i] \in 0..Len(ConnectOrder)
    /\ \A i \in DOMAIN wire : wire[i] \in Messages
    /\ EndPoint \in [Endpoints -> [ServiceID : Services \cup {Control, Unused},
                                   TxCredits : Nat, TxCreditFlowEnabled : BOOLEAN]]
    /\ TotalTransmitCredits \in Nat
    /\ connected \in [Services -> -1..(ENDPOINT_MAX - 1)]

(* HTCRxCompletionHandler, "this is a fatal error, target should not be    *)
(* sending unsolicited messages": a target that only answers requests      *)
(* never makes the host reach VOS_BUG, whenever its answers arrive.        *)
NoSpuriousBug == ~bug

(* "wait for response": HTCConnectService only ever looks at the answer to *)
(* its own request, although it compares neither service nor sequence      *)
(* number and late answers are not discarded.                              *)
ResponseMatchesRequest == pc = "parse" => Head(CtrlResponseBuffer).answers = req

(* HTCWaitRecvCtrlMessage: a request whose answer the handler completed,   *)
(* be it before the wait began, does not time out.                         *)
AnsweredNotTimedOut == [][
    (pc = "wait" /\ pc' \in {"failed", "connect"}) =>
        ~(/\ CtrlResponseProcessing /\ hpc # "complete"
          /\ Head(CtrlResponseBuffer).answers = req)]_vars

(* HTCConnectService: services are not given an endpoint twice, endpoint 0 *)
(* stays the control service's, and the endpoint a client was told is the  *)
(* one in the table, whatever endpoints the target answers with.           *)
EndpointsConsistent ==
    pc # "stopped" =>
        /\ \A s \in Services : connected[s] # -1 => EndPoint[connected[s]].ServiceID = s
        /\ \A e \in Endpoints : EndPoint[e].ServiceID \in Services =>
              connected[EndPoint[e].ServiceID] = e
        /\ req > 0 => EndPoint[0].ServiceID = Control

(* HTCSetupTargetBufferAssignments: the endpoints together never have more *)
(* credits than the target announced.                                      *)
CreditUnits(t) == UNION {{e} \X (1..t[e].TxCredits) : e \in Endpoints}

CreditsBounded == Cardinality(CreditUnits(EndPoint)) <= TotalTransmitCredits

(* Start-up ends, with or without success, however the target behaves: no  *)
(* wait is for ever.                                                       *)
StartUpEnds == <>(pc \in {"failed", "started", "stopped"})

=============================================================================
