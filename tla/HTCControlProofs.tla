-------------------------- MODULE HTCControlProofs --------------------------
(***************************************************************************)
(* For any number of services, in a build without QCA_TX_HTT2_SUPPORT:     *)
(* between the start-up thread, the target and the handler there is at     *)
(* most one control message, and while the thread waits it is the answer   *)
(* to its current request (MessageInv).  Hence services are connected in   *)
(* order and once each, which keeps the endpoint table consistent          *)
(* (TableInv): services not yet asked for have no endpoint.  An endpoint   *)
(* has the credits of its service, so no more are given out than announced *)
(* (CreditInv), unless WMI and endpoint ping are connected together.       *)
(***************************************************************************)
EXTENDS HTCControl, FiniteSetTheorems, TLAPS

(* The one message and where it is. *)
Idle ==
    /\ requests = <<>> /\ wire = <<>> /\ hpc = "idle"
    /\ CtrlResponseProcessing = FALSE /\ CtrlResponseValid = 0

Asked ==
    /\ \E i \in 0..Len(ConnectOrder) : requests = <<i>> /\ i = req
    /\ wire = <<>> /\ hpc = "idle"
    /\ CtrlResponseProcessing = FALSE /\ CtrlResponseValid = 0

OnWire ==
    /\ \E m \in Answers(req) : wire = <<m>>
    /\ requests = <<>> /\ hpc = "idle"
    /\ CtrlResponseProcessing = FALSE /\ CtrlResponseValid = 0

InHandler ==
    /\ \E m \in Answers(req) : netbuf = <<m>>
    /\ requests = <<>> /\ wire = <<>> /\ hpc = "store"
    /\ CtrlResponseProcessing = FALSE /\ CtrlResponseValid = 0

Stored(where, count) ==
    /\ \E m \in Answers(req) : CtrlResponseBuffer = <<m>>
    /\ requests = <<>> /\ wire = <<>> /\ hpc = where
    /\ CtrlResponseProcessing = TRUE /\ CtrlResponseValid = count

Awaited == Asked \/ OnWire \/ InHandler \/ Stored("complete", 0) \/ Stored("idle", 1)

(* The inductive invariant. *)
MessageInv ==
    /\ bug = FALSE
    /\ req \in Nat
    /\ pc \in {"off", "sent", "wait", "parse", "connect", "failed", "started", "stopped"}
    /\ pc = "off" => Idle /\ req = 0
    /\ pc = "connect" => Idle
    /\ pc \in {"sent", "wait"} => Awaited /\ req \in 0..Len(ConnectOrder)
    /\ pc = "parse" => Stored("idle", 0) /\ req \in 0..Len(ConnectOrder)
    /\ pc \in {"failed", "started", "stopped"} => Idle \/ Awaited \/ Stored("idle", 0)

LEMMA InitMessage == Init => MessageInv
  BY DEF Init, MessageInv, Idle

LEMMA AnswersAnswer ==
    ASSUME NEW i, NEW m \in Answers(i) PROVE m.answers = i
  BY DEF Answers, Readies, Responses

(* A step leaves the message where it was, or moves it on. *)
LEMMA NextMessage ==
    ASSUME ~QCA_TX_HTT2_SUPPORT, MessageInv, [Next]_vars
    PROVE  MessageInv'
<1> USE ControlAssumption
<1>t. Len(ConnectOrder) \in Nat /\ DOMAIN ConnectOrder = 1..Len(ConnectOrder)
  BY DEF ControlAssumption
<1>0. Tolerated = {}
  BY DEF Tolerated
<1>f. ASSUME Fail PROVE pc' = "failed" /\ req' = req
  BY <1>f, <1>0 DEF Fail
<1>1. CASE TargetAnswer
  <2>1. Asked /\ pc \in {"sent", "wait", "failed", "started", "stopped"}
    BY <1>1 DEF TargetAnswer, MessageInv, Idle, Awaited, OnWire, InHandler, Stored
  <2>2. requests = <<req>> /\ Head(requests) = req /\ requests' = <<>>
    BY <1>1, <2>1 DEF TargetAnswer, Asked
  <2>3. PICK m \in Answers(req) : wire' = Append(wire, m)
    BY <1>1, <2>2 DEF TargetAnswer
  <2>4. wire' = <<m>>
    BY <2>1, <2>3 DEF Asked
  <2>5. OnWire'
    BY <1>1, <2>1, <2>2, <2>4 DEF TargetAnswer, Asked, OnWire, completion, handler
  <2> QED
    BY <1>1, <2>1, <2>5 DEF TargetAnswer, MessageInv, Awaited, handler
<1>2. CASE HTCRxCompletionHandler
  <2>1. OnWire /\ pc \in {"sent", "wait", "failed", "started", "stopped"}
    BY <1>2 DEF HTCRxCompletionHandler, MessageInv, Idle, Awaited, Asked, InHandler, Stored
  <2>2. PICK m \in Answers(req) : wire = <<m>>
    BY <2>1 DEF OnWire
  <2>3. Head(wire) = m /\ Tail(wire) = <<>>
    BY <2>2
  <2>4. InHandler' /\ bug' = bug
    BY <1>2, <2>1, <2>3 DEF HTCRxCompletionHandler, OnWire, InHandler, completion
  <2> QED
    BY <1>2, <2>1, <2>4 DEF HTCRxCompletionHandler, MessageInv, Awaited
<1>3. CASE StoreCtrlResponse
  BY <1>3, <1>t DEF StoreCtrlResponse, MessageInv, Idle, Awaited, Asked, OnWire, InHandler, Stored, link, table
<1>4. CASE CompleteCtrlResponse
  BY <1>4, <1>t DEF CompleteCtrlResponse, MessageInv, Idle, Awaited, Asked, OnWire, InHandler, Stored, link, table
<1>5. CASE HIFStart
  BY <1>5, <1>t DEF HIFStart, MessageInv, Idle, Awaited, Asked, completion, handler, table
<1>6. CASE SendConnect
  <2>1. CASE Fail /\ UNCHANGED requests
    BY <1>6, <2>1, <1>f DEF SendConnect, MessageInv, Idle, completion, handler, table
  <2>2. CASE pc' = "sent" /\ requests' = Append(requests, req) /\ UNCHANGED req
    BY <1>6, <2>2, <1>t DEF SendConnect, MessageInv, Idle, Awaited, Asked, completion, handler, table
  <2> QED
    BY <1>6, <2>1, <2>2 DEF SendConnect
<1>7. CASE ReInitCompletion
  BY <1>7 DEF ReInitCompletion, MessageInv, Idle, Awaited, Asked, OnWire, InHandler, Stored, completion, handler, link, table
<1>8. CASE WaitForCompletion
  BY <1>8 DEF WaitForCompletion, MessageInv, Idle, Awaited, Asked, OnWire, InHandler, Stored, handler, link, table
<1>9. CASE WaitTimeout
  <2>1. Awaited /\ pc' = "failed" /\ req' = req
    BY <1>9, <1>f DEF WaitTimeout, MessageInv
  <2>2. Awaited'
    BY <1>9, <2>1 DEF WaitTimeout, Awaited, Asked, OnWire, InHandler, Stored, completion,
                      handler, link
  <2> QED
    BY <1>9, <2>1, <2>2 DEF WaitTimeout, MessageInv, handler
<1>10. CASE HTCWaitTarget
  <2>1. Stored("idle", 0)
    BY <1>10 DEF HTCWaitTarget, MessageInv
  <2>2. CASE CtrlResponseProcessing' = FALSE /\ pc' = "connect" /\ req' = 1
    BY <1>10, <2>1, <2>2 DEF HTCWaitTarget, MessageInv, Idle, Stored, handler, link
  <2>3. CASE Fail /\ UNCHANGED CtrlResponseProcessing
    <3>1. pc' = "failed" /\ req' = req
      BY <2>3, <1>f
    <3>2. Stored("idle", 0)'
      BY <1>10, <2>1, <2>3, <3>1 DEF HTCWaitTarget, Stored, handler, link
    <3> QED
      BY <1>10, <3>1, <3>2 DEF HTCWaitTarget, MessageInv, handler
  <2> QED
    BY <1>10, <2>2, <2>3 DEF HTCWaitTarget
<1>11. CASE BadResponse
  BY <1>11, <1>f DEF BadResponse, MessageInv, Idle, Awaited, Stored, handler, link, table
<1>12. CASE HTCConnectService
  BY <1>12, <1>f DEF HTCConnectService, MessageInv, Idle, Awaited, Stored, handler, link
<1>13. CASE HTCStart
  BY <1>13 DEF HTCStart, MessageInv, Idle, Awaited, Asked, OnWire, InHandler, Stored, completion, handler, link, table
<1>14. CASE HTCStop
  BY <1>14 DEF HTCStop, MessageInv, Idle, Awaited, Asked, OnWire, InHandler, Stored, completion, handler, link
<1>15. CASE UNCHANGED vars
  BY <1>15 DEF vars, MessageInv, Idle, Awaited, Asked, OnWire, InHandler, Stored, completion, handler, link, table
<1> QED
  BY <1>1, <1>2, <1>3, <1>4, <1>5, <1>6, <1>7, <1>8, <1>9, <1>10, <1>11, <1>12, <1>13,
     <1>14, <1>15 DEF Next, Handler, StartUp

(* However many services are connected and however late the target's       *)
(* answers come, HTCRxCompletionHandler never finds a response still being *)
(* processed (VOS_BUG).                                                    *)
THEOREM NoBug ==
    ASSUME ~QCA_TX_HTT2_SUPPORT PROVE Spec => []NoSpuriousBug
<1>1. MessageInv /\ [Next]_vars => MessageInv'
  BY NextMessage
<1>2. MessageInv => NoSpuriousBug
  BY DEF MessageInv, NoSpuriousBug
<1> QED
  BY InitMessage, <1>1, <1>2, PTL DEF Spec

(* However many services are connected, HTCConnectService and              *)
(* HTCWaitTarget only ever look at the answer to their own request.        *)
THEOREM OwnResponse ==
    ASSUME ~QCA_TX_HTT2_SUPPORT PROVE Spec => []ResponseMatchesRequest
<1>1. MessageInv /\ [Next]_vars => MessageInv'
  BY NextMessage
<1>2. MessageInv => ResponseMatchesRequest
  BY AnswersAnswer DEF MessageInv, Stored, ResponseMatchesRequest
<1> QED
  BY InitMessage, <1>1, <1>2, PTL DEF Spec

(* An answer the handler has completed is in the count while the thread     *)
(* waits: the wait cannot time out over it, however many services there    *)
(* are and however the handler's three steps fall around the re-init of    *)
(* the completion and the wait.                                            *)
THEOREM AnswerEndsTheWait ==
    ASSUME ~QCA_TX_HTT2_SUPPORT PROVE Spec => AnsweredNotTimedOut
<1> DEFINE P == (pc = "wait" /\ pc' \in {"failed", "connect"}) =>
                  ~(/\ CtrlResponseProcessing /\ hpc # "complete"
                    /\ Head(CtrlResponseBuffer).answers = req)
<1>1. MessageInv /\ [Next]_vars => MessageInv'
  BY NextMessage
<1>2. MessageInv /\ [Next]_vars => [P]_vars
  <2> SUFFICES ASSUME MessageInv, Next, pc = "wait", pc' \in {"failed", "connect"},
                      CtrlResponseProcessing, hpc # "complete"
               PROVE  FALSE
    OBVIOUS
  <2>1. CtrlResponseValid = 1
    BY DEF MessageInv, Awaited, Asked, OnWire, InHandler, Stored
  <2>2. CtrlResponseValid = 0
    BY DEF Next, TargetAnswer, Handler, HTCRxCompletionHandler, StoreCtrlResponse,
           CompleteCtrlResponse, StartUp, HIFStart, SendConnect, ReInitCompletion,
           WaitForCompletion, WaitTimeout, HTCWaitTarget, BadResponse, HTCConnectService,
           HTCStart, HTCStop
  <2> QED
    BY <2>1, <2>2
<1> QED
  BY InitMessage, <1>1, <1>2, PTL DEF Spec, AnsweredNotTimedOut

-----------------------------------------------------------------------------
(* The endpoint table *)

(* Beside EndpointsConsistent: services still to be connected have no      *)
(* endpoint.                                                               *)
TableInv ==
    /\ req \in Nat /\ (pc = "off" => req = 0)
    /\ DOMAIN EndPoint = Endpoints /\ \A e \in Endpoints : "ServiceID" \in DOMAIN EndPoint[e]
    /\ connected \in [Services -> -1..(ENDPOINT_MAX - 1)]
    /\ pc # "stopped" => \A i \in DOMAIN ConnectOrder : i >= req => connected[ConnectOrder[i]] = -1
    /\ EndpointsConsistent

LEMMA AnswerShape ==
    ASSUME NEW i \in Nat \ {0}, NEW m \in Answers(i), m.endpoint < ENDPOINT_MAX
    PROVE  m.endpoint \in Endpoints
  BY ControlAssumption DEF Answers, Responses, Endpoints

LEMMA OrderFacts ==
    /\ Len(ConnectOrder) \in Nat /\ DOMAIN ConnectOrder = 1..Len(ConnectOrder)
    /\ \A i \in DOMAIN ConnectOrder : ConnectOrder[i] \in Services
    /\ \A i, j \in DOMAIN ConnectOrder : ConnectOrder[i] = ConnectOrder[j] => i = j
    /\ \A s \in Services : s # Control /\ s # Unused /\ \E i \in DOMAIN ConnectOrder : s = ConnectOrder[i]
    /\ Control # Unused /\ 0 \in Endpoints
<1>1. ConnectOrder \in Seq(Services) /\ Services \cap {Control, Unused} = {}
      /\ ENDPOINT_MAX \in Nat \ {0}
  BY ControlAssumption
<1>2. \A i, j \in DOMAIN ConnectOrder : ConnectOrder[i] = ConnectOrder[j] => i = j
  BY ControlAssumption DEF IsInjective
<1>3. \A s \in Services : \E i \in DOMAIN ConnectOrder : s = ConnectOrder[i]
  BY DEF Services, Range
<1> QED
  BY <1>1, <1>2, <1>3 DEF Control, Unused, Endpoints

LEMMA InitTable == Init => TableInv
<1> SUFFICES ASSUME Init PROVE TableInv
  OBVIOUS
<1>1. \A e \in Endpoints : EndPoint[e].ServiceID = Unused /\ "ServiceID" \in DOMAIN EndPoint[e]
  BY DEF Init, Reset
<1>2. DOMAIN EndPoint = Endpoints /\ req = 0
      /\ connected \in [Services -> -1..(ENDPOINT_MAX - 1)] /\ \A s \in Services : connected[s] = -1
  BY ControlAssumption DEF Init
<1>3. EndpointsConsistent
  BY <1>1, <1>2, OrderFacts DEF EndpointsConsistent
<1> QED
  BY <1>1, <1>2, <1>3, OrderFacts DEF TableInv

(* The table changes when an endpoint is assigned, and when all are reset. *)
LEMMA NextTable ==
    ASSUME ~QCA_TX_HTT2_SUPPORT, MessageInv, TableInv, [Next]_vars
    PROVE  TableInv'
<1>0. Tolerated = {}
  BY DEF Tolerated
<1>f. ASSUME Fail PROVE pc' = "failed" /\ req' = req
  BY <1>f, <1>0 DEF Fail
<1>1. CASE HTCWaitTarget /\ pc' = "connect"
  <2>1. /\ EndPoint' = [EndPoint EXCEPT ![0] = Assigned(Control, 0)]
        /\ req = 0 /\ req' = 1 /\ pc = "parse" /\ pc' = "connect" /\ UNCHANGED connected
    BY <1>1, <1>f DEF HTCWaitTarget
  <2>2. \A s \in Services : connected[s] = -1
    BY <2>1, OrderFacts DEF TableInv
  <2>3. \A e \in Endpoints : EndPoint[e].ServiceID \notin Services
    <3>1. \A e \in Endpoints : e # -1
      BY ControlAssumption DEF Endpoints
    <3> QED
      BY <2>1, <2>2, <3>1 DEF TableInv, EndpointsConsistent
  <2>4. DOMAIN EndPoint' = Endpoints /\ EndPoint'[0].ServiceID = Control
        /\ \A e \in Endpoints \ {0} : EndPoint'[e] = EndPoint[e]
    BY <2>1, OrderFacts DEF TableInv, Assigned
  <2>5. \A e \in Endpoints : "ServiceID" \in DOMAIN EndPoint'[e] /\ EndPoint'[e].ServiceID \notin Services
    <3>1. "ServiceID" \in DOMAIN EndPoint'[0]
      BY <2>1, OrderFacts DEF TableInv, Assigned
    <3> QED
      BY <2>3, <2>4, <3>1, OrderFacts DEF TableInv
  <2>6. EndpointsConsistent'
    BY <2>1, <2>2, <2>4, <2>5 DEF EndpointsConsistent
  <2> QED
    BY <2>1, <2>2, <2>4, <2>5, <2>6, OrderFacts DEF TableInv
<1>2. CASE HTCConnectService /\ pc' = "connect"
  <2> DEFINE m == Head(CtrlResponseBuffer)
             s == ConnectOrder[req]
             x == m.endpoint
  <2>1. /\ EndPoint' = [EndPoint EXCEPT ![x] =
              Assigned(s, HTCGetCreditAllocation(s, TotalTransmitCredits))]
        /\ connected' = [connected EXCEPT ![s] = x]
        /\ req > 0 /\ req' = req + 1 /\ pc = "parse" /\ pc' = "connect" /\ Usable(m)
    BY <1>2, <1>f DEF HTCConnectService
  <2>2. m \in Answers(req) /\ req \in DOMAIN ConnectOrder
    <3>1. PICK a \in Answers(req) : CtrlResponseBuffer = <<a>>
      BY <2>1 DEF MessageInv, Stored
    <3>2. m = a
      BY <3>1
    <3> QED
      BY <2>1, <3>2, OrderFacts DEF MessageInv
  <2>3. x \in Endpoints /\ EndPoint[x].ServiceID = Unused /\ s \in Services
    BY <2>1, <2>2, AnswerShape, OrderFacts DEF Usable, TableInv
  <2>4. x \in -1..(ENDPOINT_MAX - 1) /\ x # -1
    BY <2>3, ControlAssumption DEF Endpoints
  <2> HIDE DEF x, s, m
  <2>5. DOMAIN EndPoint' = Endpoints /\ EndPoint'[x].ServiceID = s
        /\ "ServiceID" \in DOMAIN EndPoint'[x]
        /\ \A e \in Endpoints \ {x} : EndPoint'[e] = EndPoint[e]
    BY <2>1, <2>3 DEF TableInv, Assigned
  <2>6. connected[s] = -1
    BY <2>1, <2>2 DEF TableInv, s
  <2>7. connected' \in [Services -> -1..(ENDPOINT_MAX - 1)] /\ connected'[s] = x
        /\ \A t \in Services \ {s} : connected'[t] = connected[t]
    BY <2>1, <2>3, <2>4 DEF TableInv
  <2>8. EndpointsConsistent'
    <3>1. \A t \in Services : connected'[t] # -1 => EndPoint'[connected'[t]].ServiceID = t
      <4> SUFFICES ASSUME NEW t \in Services, connected'[t] # -1
                   PROVE  EndPoint'[connected'[t]].ServiceID = t
        OBVIOUS
      <4>1. CASE t = s
        BY <2>5, <2>7, <4>1
      <4>2. CASE t # s
        <5>1. connected'[t] = connected[t] /\ EndPoint[connected[t]].ServiceID = t
          BY <2>1, <2>7, <4>2 DEF TableInv, EndpointsConsistent
        <5>2. connected[t] # x /\ connected[t] \in Endpoints
          BY <2>3, <2>7, <5>1, OrderFacts, ControlAssumption DEF TableInv, Endpoints
        <5> QED
          BY <2>5, <5>1, <5>2
      <4> QED
        BY <4>1, <4>2
    <3>2. \A e \in Endpoints : EndPoint'[e].ServiceID \in Services =>
             connected'[EndPoint'[e].ServiceID] = e
      <4> SUFFICES ASSUME NEW e \in Endpoints, EndPoint'[e].ServiceID \in Services
                   PROVE  connected'[EndPoint'[e].ServiceID] = e
        OBVIOUS
      <4>1. CASE e = x
        BY <2>5, <2>7, <4>1
      <4>2. CASE e # x
        <5>1. EndPoint'[e] = EndPoint[e] /\ connected[EndPoint[e].ServiceID] = e
          BY <2>1, <2>5, <4>2 DEF TableInv, EndpointsConsistent
        <5>2. EndPoint[e].ServiceID # s
          BY <2>6, <5>1, ControlAssumption DEF Endpoints
        <5> QED
          BY <2>7, <5>1, <5>2
      <4> QED
        BY <4>1, <4>2
    <3>3. EndPoint'[0].ServiceID = Control
      <4>1. EndPoint[0].ServiceID = Control
        BY <2>1 DEF TableInv, EndpointsConsistent
      <4>2. x # 0
        BY <2>3, <4>1, OrderFacts
      <4> QED
        BY <2>5, <4>1, <4>2, OrderFacts
    <3> QED
      BY <3>1, <3>2, <3>3 DEF EndpointsConsistent
  <2>9. \A i \in DOMAIN ConnectOrder : i >= req' => connected'[ConnectOrder[i]] = -1
    <3> SUFFICES ASSUME NEW i \in DOMAIN ConnectOrder, i >= req'
                 PROVE  connected'[ConnectOrder[i]] = -1
      OBVIOUS
    <3>1. i > req /\ i >= req
      BY <2>1, <2>2, OrderFacts
    <3>2. ConnectOrder[i] # s /\ ConnectOrder[i] \in Services
      BY <2>2, <3>1, OrderFacts DEF s
    <3> QED
      BY <2>1, <2>7, <3>1, <3>2 DEF TableInv
  <2> QED
    BY <2>1, <2>3, <2>5, <2>7, <2>8, <2>9 DEF TableInv
<1>3. CASE HTCStop
  <2>1. pc' = "stopped" /\ UNCHANGED <<req, connected>>
        /\ EndPoint' = [e \in Endpoints |-> [EndPoint[e] EXCEPT !.ServiceID = Unused,
                                                                !.TxCreditFlowEnabled = TRUE]]
    BY <1>3 DEF HTCStop
  <2>2. \A e \in Endpoints : "ServiceID" \in DOMAIN EndPoint'[e]
    BY <2>1 DEF TableInv
  <2> QED
    BY <2>1, <2>2 DEF TableInv, EndpointsConsistent
<1>4. CASE UNCHANGED <<EndPoint, connected, req>> /\ pc' # "off" /\ pc # "stopped"
  BY <1>4 DEF TableInv, EndpointsConsistent
<1>5. CASE UNCHANGED <<pc, req, EndPoint, connected>>
  BY <1>5 DEF TableInv, EndpointsConsistent
<1>6. CASE TargetAnswer \/ Handler \/ UNCHANGED vars
  BY <1>5, <1>6 DEF TargetAnswer, Handler, HTCRxCompletionHandler, StoreCtrlResponse,
                    CompleteCtrlResponse, table, vars
<1>7. CASE \/ HIFStart \/ SendConnect \/ ReInitCompletion \/ WaitForCompletion \/ WaitTimeout
           \/ BadResponse \/ HTCStart
           \/ (HTCWaitTarget \/ HTCConnectService) /\ pc' # "connect"
  <2>1. pc # "stopped" /\ pc' # "off" /\ req' = req /\ UNCHANGED <<EndPoint, connected>>
    BY <1>f, <1>7 DEF HIFStart, SendConnect, ReInitCompletion, WaitForCompletion, WaitTimeout,
                      BadResponse, HTCStart, HTCWaitTarget, HTCConnectService, table
  <2> QED
    BY <1>4, <2>1
<1> QED
  BY <1>1, <1>2, <1>3, <1>6, <1>7 DEF Next, StartUp

(* However many services and endpoints there are and whatever endpoints     *)
(* the target answers with, no endpoint is given out twice, endpoint 0     *)
(* stays the control service's, and a client's endpoint is the table's.    *)
THEOREM TableConsistent ==
    ASSUME ~QCA_TX_HTT2_SUPPORT PROVE Spec => []EndpointsConsistent
<1>1. MessageInv /\ TableInv /\ [Next]_vars => MessageInv' /\ TableInv'
  BY NextMessage, NextTable
<1>2. TableInv => EndpointsConsistent
  BY DEF TableInv
<1> QED
  BY InitMessage, InitTable, <1>1, <1>2, PTL DEF Spec

-----------------------------------------------------------------------------
(* The credits *)

WMI   == "WMI_CONTROL_SVC"
Pings == {"WMI_DATA_BE_SVC", "WMI_DATA_BK_SVC"}

(* What HTCSetupTargetBufferAssignments gives a service. *)
LEMMA AllocationFacts ==
    ASSUME NEW svc, NEW total \in Nat, NEW a, a = HTCGetCreditAllocation(svc, total)
    PROVE  /\ a \in Nat
           /\ a > 0 => \/ svc = WMI /\ a <= total
                       \/ Epping /\ svc \in Pings /\ 2 * a <= total
<1> DEFINE T == {WMI} \cup (IF Epping THEN Pings ELSE {})
           half == total \div 2
<1>1. half \in Nat /\ 2 * half <= total
  OBVIOUS
<1>2. \A n \in Nat : n % 256 \in Nat /\ n % 256 <= n
  OBVIOUS
<1>3. HTCSetupTargetBufferAssignments(total)
        = [t \in T |-> (IF t = WMI THEN total ELSE half) % 256]
  BY DEF HTCSetupTargetBufferAssignments, WMI, Pings
<1> HIDE DEF half
<1>4. CASE svc = WMI
  <2>1. a = total % 256
    BY <1>3, <1>4 DEF HTCGetCreditAllocation
  <2> QED
    BY <1>2, <1>4, <2>1
<1>5. CASE svc \in T /\ svc # WMI
  <2>1. a = half % 256 /\ Epping /\ svc \in Pings
    BY <1>3, <1>5 DEF HTCGetCreditAllocation
  <2>2. a \in Nat /\ a <= half
    BY <1>1, <1>2, <2>1
  <2> QED
    BY <1>1, <2>1, <2>2
<1>6. CASE svc \notin T
  BY <1>3, <1>6 DEF HTCGetCreditAllocation
<1> QED
  BY <1>4, <1>5, <1>6

(* The units of one endpoint are as many as its credits. *)
LEMMA UnitsOf ==
    ASSUME NEW e, NEW n \in Nat
    PROVE  IsFiniteSet({e} \X (1..n)) /\ Cardinality({e} \X (1..n)) = n
<1>1. IsFiniteSet({e}) /\ Cardinality({e}) = 1
  BY FS_Singleton
<1>2. IsFiniteSet(1..n) /\ Cardinality(1..n) = n
  BY FS_Interval
<1>3. /\ IsFiniteSet({e} \X (1..n))
      /\ Cardinality({e} \X (1..n)) = Cardinality({e}) * Cardinality(1..n)
  BY <1>1, <1>2, FS_Product
<1> QED
  BY <1>1, <1>2, <1>3

(* Where at most two endpoints have credits, their sum decides. *)
LEMMA TwoHolders ==
    ASSUME NEW t, NEW total \in Nat, NEW a \in Endpoints, NEW b \in Endpoints,
           \A e \in Endpoints : t[e].TxCredits \in Nat,
           \A e \in Endpoints : t[e].TxCredits > 0 => e \in {a, b},
           IF a = b THEN t[a].TxCredits <= total
                    ELSE t[a].TxCredits + t[b].TxCredits <= total
    PROVE  Cardinality(CreditUnits(t)) <= total
<1> DEFINE U(e) == {e} \X (1..t[e].TxCredits)
<1>1. CreditUnits(t) = U(a) \cup U(b)
  <2>1. \A e \in Endpoints : e \notin {a, b} => U(e) = {}
    OBVIOUS
  <2> QED
    BY <2>1 DEF CreditUnits
<1>2. /\ IsFiniteSet(U(a)) /\ Cardinality(U(a)) = t[a].TxCredits
      /\ IsFiniteSet(U(b)) /\ Cardinality(U(b)) = t[b].TxCredits
  BY UnitsOf
<1> HIDE DEF U
<1>3. CASE a = b
  <2>1. CreditUnits(t) = U(a)
    BY <1>1, <1>3
  <2> QED
    BY <1>2, <1>3, <2>1
<1>4. CASE a # b
  <2>1. /\ Cardinality(U(a) \cup U(b))
             = Cardinality(U(a)) + Cardinality(U(b)) - Cardinality(U(a) \cap U(b))
        /\ IsFiniteSet(U(a) \cap U(b))
    BY <1>2, FS_Union, FS_Intersection
  <2>2. Cardinality(U(a) \cap U(b)) \in Nat
    BY <2>1, FS_CardinalityType
  <2> QED
    BY <1>1, <1>2, <1>4, <2>1, <2>2
<1> QED
  BY <1>3, <1>4

(* An endpoint has the credits of the service it is given to, and none     *)
(* before the target has said how many there are.  HTCStop takes the       *)
(* services away and leaves the credits.                                   *)
CreditInv ==
    /\ TotalTransmitCredits \in Nat
    /\ EndPoint \in [Endpoints -> [ServiceID : Services \cup {Control, Unused},
                                   TxCredits : Nat, TxCreditFlowEnabled : BOOLEAN]]
    /\ req = 0 => \A e \in Endpoints : EndPoint[e].TxCredits = 0
    /\ pc # "stopped" => \A e \in Endpoints : EndPoint[e].TxCredits > 0 =>
          /\ EndPoint[e].ServiceID \in Services
          /\ EndPoint[e].TxCredits =
                HTCGetCreditAllocation(EndPoint[e].ServiceID, TotalTransmitCredits)
    /\ CreditsBounded

(* A table in which no service has two endpoints is within the total. *)
LEMMA TableWithin ==
    ASSUME NEW t, NEW total \in Nat, ~Epping \/ WMI \notin Services,
           \A e \in Endpoints : t[e].TxCredits \in Nat,
           \A e \in Endpoints : t[e].TxCredits > 0 =>
              /\ t[e].ServiceID \in Services
              /\ t[e].TxCredits = HTCGetCreditAllocation(t[e].ServiceID, total),
           \A d, e \in Endpoints :
              t[d].ServiceID \in Services /\ t[d].ServiceID = t[e].ServiceID => d = e
    PROVE  Cardinality(CreditUnits(t)) <= total
<1> DEFINE svc(e) == t[e].ServiceID
           c(e)   == t[e].TxCredits
<1>1. \A d, e \in Endpoints : c(d) > 0 /\ c(e) > 0 /\ svc(d) = svc(e) => d = e
  OBVIOUS
<1>2. \A e \in Endpoints : c(e) > 0 =>
         \/ svc(e) = WMI /\ WMI \in Services /\ c(e) <= total
         \/ Epping /\ svc(e) \in Pings /\ 2 * c(e) <= total
  BY AllocationFacts
<1>3. CASE \A e \in Endpoints : ~(c(e) > 0)
  <2>1. 0 \in Endpoints /\ c(0) = 0
    BY <1>3, OrderFacts
  <2> QED
    BY <1>3, <2>1, TwoHolders
<1>4. ASSUME NEW a \in Endpoints, c(a) > 0 PROVE Cardinality(CreditUnits(t)) <= total
  <2>1. c(a) \in Nat /\ c(a) <= total
    BY <1>2, <1>4
  <2>2. CASE \A e \in Endpoints : c(e) > 0 => e = a
    BY <2>1, <2>2, TwoHolders
  <2>3. ASSUME NEW b \in Endpoints, c(b) > 0, b # a
        PROVE  Cardinality(CreditUnits(t)) <= total
    <3>1. svc(a) # svc(b)
      BY <1>1, <1>4, <2>3
    <3>2. svc(a) \in Pings /\ svc(b) \in Pings /\ 2 * c(a) <= total /\ 2 * c(b) <= total
      BY <1>2, <1>4, <2>3, <3>1
    <3>3. \A e \in Endpoints : c(e) > 0 => svc(e) \in Pings
      BY <1>2, <1>4, <3>2 DEF Pings, WMI
    <3>4. \A e \in Endpoints : c(e) > 0 => e \in {a, b}
      BY <1>1, <1>4, <2>3, <3>1, <3>2, <3>3 DEF Pings
    <3>5. c(a) + c(b) <= total
      BY <3>2
    <3> QED
      BY <2>3, <3>4, <3>5, TwoHolders
  <2> QED
    BY <2>2, <2>3
<1> QED
  BY <1>3, <1>4

LEMMA NoCredits ==
    ASSUME NEW t, NEW total \in Nat, \A e \in Endpoints : t[e].TxCredits = 0
    PROVE  Cardinality(CreditUnits(t)) <= total
<1>1. 0 \in Endpoints
  BY OrderFacts
<1> QED
  BY <1>1, TwoHolders

LEMMA InitCredits == Init => CreditInv
<1> SUFFICES ASSUME Init PROVE CreditInv
  OBVIOUS
<1>1. \A e \in Endpoints : EndPoint[e].TxCredits = 0 /\ EndPoint[e] \in
         [ServiceID : Services \cup {Control, Unused}, TxCredits : Nat,
          TxCreditFlowEnabled : BOOLEAN]
  BY DEF Init, Reset
<1>2. CreditsBounded
  BY <1>1, NoCredits DEF Init, CreditsBounded
<1> QED
  BY <1>1, <1>2 DEF Init, CreditInv

(* A step that leaves the table alone. *)
LEMMA CreditsKept ==
    ASSUME CreditInv, UNCHANGED <<EndPoint, TotalTransmitCredits>>,
           req' = 0 => req = 0, pc = "stopped" => pc' = "stopped"
    PROVE  CreditInv'
  BY DEF CreditInv, CreditsBounded

LEMMA NextCredits ==
    ASSUME ~QCA_TX_HTT2_SUPPORT, ~Epping \/ WMI \notin Services,
           MessageInv, TableInv, TableInv', CreditInv, [Next]_vars
    PROVE  CreditInv'
<1>0. Tolerated = {}
  BY DEF Tolerated
<1>f. ASSUME Fail PROVE pc' = "failed" /\ req' = req
  BY <1>f, <1>0 DEF Fail
<1> DEFINE Row == [ServiceID : Services \cup {Control, Unused}, TxCredits : Nat,
                   TxCreditFlowEnabled : BOOLEAN]
<1>a. \A s \in Services \cup {Control}, n \in Nat :
         /\ Assigned(s, n) \in Row
         /\ Assigned(s, n).TxCredits = n /\ Assigned(s, n).ServiceID = s
  BY DEF Assigned
<1>1. CASE HTCWaitTarget
  <2>1. req = 0 /\ pc = "parse" /\ \A e \in Endpoints : EndPoint[e].TxCredits = 0
    BY <1>1 DEF HTCWaitTarget, CreditInv
  <2>2. TotalTransmitCredits' \in Nat
    <3>1. PICK m \in Answers(req) : CtrlResponseBuffer = <<m>>
      BY <2>1 DEF MessageInv, Stored
    <3>2. m = Head(CtrlResponseBuffer)
      BY <3>1
    <3>3. m \in Readies
      BY <2>1 DEF Answers
    <3>4. m.credits \in Nat
      BY <3>3, ControlAssumption DEF Readies
    <3> QED
      BY <1>1, <3>2, <3>4 DEF HTCWaitTarget, CreditInv
  <2>c. Assigned(Control, 0) \in Row /\ Assigned(Control, 0).TxCredits = 0
    BY <1>a
  <2>d. UNCHANGED EndPoint \/ EndPoint' = [EndPoint EXCEPT ![0] = Assigned(Control, 0)]
    BY <1>1 DEF HTCWaitTarget
  <2>3. EndPoint' \in [Endpoints -> Row]
    BY <2>c, <2>d DEF CreditInv
  <2>4. \A e \in Endpoints : EndPoint'[e].TxCredits = 0
    BY <2>1, <2>c, <2>d DEF CreditInv
  <2>5. CreditsBounded'
    BY <2>2, <2>4, NoCredits DEF CreditsBounded
  <2> QED
    BY <2>2, <2>3, <2>4, <2>5 DEF CreditInv
<1>2. CASE HTCConnectService /\ pc' = "connect"
  <2> DEFINE m == Head(CtrlResponseBuffer)
             s == ConnectOrder[req]
             x == m.endpoint
             n == HTCGetCreditAllocation(s, TotalTransmitCredits)
  <2>1. /\ EndPoint' = [EndPoint EXCEPT ![x] = Assigned(s, n)]
        /\ UNCHANGED TotalTransmitCredits
        /\ req > 0 /\ req' = req + 1 /\ pc = "parse" /\ pc' = "connect" /\ Usable(m)
    BY <1>2, <1>f DEF HTCConnectService
  <2>2. m \in Answers(req) /\ req \in DOMAIN ConnectOrder
    <3>1. PICK a \in Answers(req) : CtrlResponseBuffer = <<a>>
      BY <2>1 DEF MessageInv, Stored
    <3>2. m = a
      BY <3>1
    <3> QED
      BY <2>1, <3>2, OrderFacts DEF MessageInv
  <2>3. x \in Endpoints /\ s \in Services
    BY <2>1, <2>2, AnswerShape, OrderFacts DEF Usable, TableInv
  <2>4. n \in Nat
    BY AllocationFacts DEF CreditInv
  <2> HIDE DEF x, s, m, n
  <2>5. Assigned(s, n) \in Row /\ Assigned(s, n).TxCredits = n /\ Assigned(s, n).ServiceID = s
    BY <1>a, <2>3, <2>4
  <2>6. /\ EndPoint' \in [Endpoints -> Row]
        /\ EndPoint'[x] = Assigned(s, n)
        /\ \A e \in Endpoints \ {x} : EndPoint'[e] = EndPoint[e]
    BY <2>1, <2>3, <2>5 DEF CreditInv
  <2>7. ASSUME NEW e \in Endpoints, EndPoint'[e].TxCredits > 0
        PROVE  /\ EndPoint'[e].ServiceID \in Services
               /\ EndPoint'[e].TxCredits =
                     HTCGetCreditAllocation(EndPoint'[e].ServiceID, TotalTransmitCredits')
    <3>1. CASE e = x
      BY <2>1, <2>3, <2>5, <2>6, <3>1 DEF n
    <3>2. CASE e # x
      BY <2>1, <2>6, <2>7, <3>2 DEF CreditInv
    <3> QED
      BY <3>1, <3>2
  <2>8. CreditsBounded'
    <3>1. /\ TotalTransmitCredits' \in Nat
          /\ \A e \in Endpoints : EndPoint'[e].TxCredits \in Nat
      BY <2>1, <2>6 DEF CreditInv
    <3>2. \A d, e \in Endpoints :
             EndPoint'[d].ServiceID \in Services /\ EndPoint'[d].ServiceID = EndPoint'[e].ServiceID
               => d = e
      BY <2>1 DEF TableInv, EndpointsConsistent
    <3> QED
      BY <2>7, <3>1, <3>2, TableWithin DEF CreditsBounded
  <2> QED
    BY <2>1, <2>6, <2>7, <2>8 DEF CreditInv, TableInv
<1>3. CASE HTCStop
  <2>1. /\ pc' = "stopped" /\ UNCHANGED <<req, TotalTransmitCredits>>
        /\ EndPoint' = [e \in Endpoints |-> [EndPoint[e] EXCEPT !.ServiceID = Unused,
                                                                !.TxCreditFlowEnabled = TRUE]]
    BY <1>3 DEF HTCStop
  <2>2. ASSUME NEW e \in Endpoints
        PROVE  EndPoint'[e] \in Row /\ EndPoint'[e].TxCredits = EndPoint[e].TxCredits
    BY <2>1 DEF CreditInv
  <2>3. CreditUnits(EndPoint') = CreditUnits(EndPoint)
    <3>1. \A e \in Endpoints :
             {e} \X (1..EndPoint'[e].TxCredits) = {e} \X (1..EndPoint[e].TxCredits)
      BY <2>2
    <3> QED
      BY <3>1 DEF CreditUnits
  <2>4. EndPoint' \in [Endpoints -> Row]
    BY <2>1, <2>2
  <2> QED
    BY <2>1, <2>2, <2>3, <2>4 DEF CreditInv, CreditsBounded
<1>4. CASE TargetAnswer \/ Handler
  BY <1>4, CreditsKept DEF TargetAnswer, Handler, HTCRxCompletionHandler, StoreCtrlResponse,
                           CompleteCtrlResponse, table
<1>5. CASE \/ HIFStart \/ SendConnect \/ ReInitCompletion \/ WaitForCompletion \/ WaitTimeout
           \/ BadResponse \/ HTCStart \/ (HTCConnectService /\ pc' # "connect")
  <2>1. pc # "stopped" /\ req' = req /\ UNCHANGED <<EndPoint, TotalTransmitCredits>>
    BY <1>f, <1>5 DEF HIFStart, SendConnect, ReInitCompletion, WaitForCompletion, WaitTimeout,
                      BadResponse, HTCStart, HTCConnectService, table
  <2> QED
    BY <2>1, CreditsKept
<1>6. CASE HTCConnectService
  BY <1>2, <1>5, <1>6
<1>7. CASE UNCHANGED vars
  BY <1>7, CreditsKept DEF table, vars
<1>8. CASE StartUp
  BY <1>1, <1>5, <1>6, <1>8 DEF StartUp
<1>9. CASE Next
  BY <1>3, <1>4, <1>8, <1>9 DEF Next
<1> QED
  BY <1>7, <1>9

(* Whatever credits the target announces and whatever endpoints it answers *)
(* with, the endpoints together never have more than it announced: with    *)
(* the wlan driver's services, and with the ones of endpoint ping, which   *)
(* does not connect WMI_CONTROL_SVC.                                       *)
THEOREM CreditsWithinTotal ==
    ASSUME ~QCA_TX_HTT2_SUPPORT, ~Epping \/ WMI \notin Services
    PROVE  Spec => []CreditsBounded
<1>1. MessageInv /\ TableInv /\ CreditInv /\ [Next]_vars
        => MessageInv' /\ TableInv' /\ CreditInv'
  BY NextMessage, NextTable, NextCredits
<1>2. CreditInv => CreditsBounded
  BY DEF CreditInv
<1> QED
  BY InitMessage, InitTable, InitCredits, <1>1, <1>2, PTL DEF Spec

=============================================================================
