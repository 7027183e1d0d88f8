-------------------------- MODULE HtcControlProofs --------------------------
(***************************************************************************)
(* HandshakeInv: one answer is on its way at most, and it is for the step  *)
(* the thread is in; hence the response a step reads is the answer to its  *)
(* own request, and the receive handler never finds the buffer in use.     *)
(*                                                                         *)
(* EndpointInv rests on it: what the thread reads is then a message the    *)
(* target can have sent in this step, so an accepted connection names an   *)
(* endpoint, the endpoint is free, and every endpoint in use belongs to    *)
(* one connected service and has the credits allocated to it.              *)
(***************************************************************************)
EXTENDS HtcControl, FiniteSetTheorems, TLAPS

\* Where the one answer on its way may be: not yet announced, asked for, sent, copied to the
\* buffer and about to be signalled, or signalled and not yet waited for.
OneAnswer ==
    /\ ~booted => toTarget = <<>> /\ toHost = <<>> /\ rx = "idle" /\ CtrlResponseValid = 0
    /\ toTarget # <<>> => toHost = <<>> /\ rx = "idle" /\ CtrlResponseValid = 0
    /\ toHost # <<>> => rx = "idle" /\ CtrlResponseValid = 0
    /\ rx = "signal" => CtrlResponseValid = 0

\* It answers the step the handshake is in, also after a timeout, because a handshake that has
\* failed does not go on.
AnswerIsForService ==
    /\ ~booted => service = 0
    /\ toTarget = <<>> \/ toTarget = <<service>>
    /\ toHost = <<>> \/ (toHost = <<Head(toHost)>> /\ Head(toHost).about = service)
    /\ rx = "signal" \/ CtrlResponseValid = 1 \/ pc \in {"ready", "response"} =>
           CtrlResponseProcessing /\ CtrlResponseBuffer.about = service

\* The buffer is free while the answer has not reached it.
BufferFree ==
    /\ ~booted \/ toTarget # <<>> \/ toHost # <<>> => CtrlResponseProcessing = FALSE
    /\ pc = "connect" => CtrlResponseProcessing = FALSE

\* No answer is on its way when the thread looks at one or is about to ask.
NoneOutstanding ==
    pc \in {"ready", "response", "connect"} =>
        booted /\ toTarget = <<>> /\ toHost = <<>> /\ rx = "idle" /\ CtrlResponseValid = 0

HandshakeInv ==
    /\ booted \in BOOLEAN /\ rx \in {"idle", "signal"} /\ CtrlResponseValid \in 0..1
    /\ bug = FALSE
    /\ OneAnswer /\ AnswerIsForService /\ BufferFree /\ NoneOutstanding

\* A message made by the target names the request it answers.
LEMMA AnswerNamesRequest == ASSUME NEW n, NEW m \in Answers(n) PROVE m.about = n
<1>1. CASE m \in Malformed(n)
  BY <1>1 DEF Malformed
<1>2. CASE n = 0 /\ m \in Ready
  BY <1>2 DEF Ready
<1>3. CASE m \in Refused(n)
  BY <1>3 DEF Refused
<1>4. CASE m \in Accepted(n)
  BY <1>4 DEF Accepted
<1> QED
  BY <1>1, <1>2, <1>3, <1>4 DEF Answers

\* The invariant behind both theorems: at most one answer is on its way, it is for the step the
\* handshake is in, and the buffer is free until it arrives.
THEOREM HandshakeInvariant == Spec => []HandshakeInv
<1>1. Init => HandshakeInv
  <2> SUFFICES ASSUME Init PROVE HandshakeInv
    OBVIOUS
  <2>1. booted \in BOOLEAN /\ bug = FALSE
    BY Zenon DEF Init
  <2>4. rx \in {"idle", "signal"} /\ CtrlResponseValid \in 0..1
    BY DEF Init
  <2>2. OneAnswer /\ NoneOutstanding
    BY DEF Init, OneAnswer, NoneOutstanding
  <2>3. AnswerIsForService /\ BufferFree
    BY DEF Init, AnswerIsForService, BufferFree
  <2> QED
    BY <2>1, <2>2, <2>3, <2>4 DEF HandshakeInv
<1>2. HandshakeInv /\ [Next]_vars => HandshakeInv'
  <2> SUFFICES ASSUME HandshakeInv, [Next]_vars PROVE HandshakeInv'
    OBVIOUS
  <2>1. CASE UNCHANGED vars
    BY <2>1 DEF HandshakeInv, OneAnswer, AnswerIsForService, BufferFree, NoneOutstanding,
        vars, respVars, tgtVars
  <2>2. CASE HTCWaitTarget
    BY <2>2 DEF HTCWaitTarget, Goto, Fail, respVars, tgtVars,
        HandshakeInv, OneAnswer, AnswerIsForService, BufferFree, NoneOutstanding
  <2>3. CASE ReInit
    BY <2>3 DEF ReInit, ReInitCompletion, Goto, tgtVars,
        HandshakeInv, OneAnswer, AnswerIsForService, BufferFree, NoneOutstanding
  <2>4. CASE WaitForCompletion
    BY <2>4 DEF WaitForCompletion, Goto, tgtVars,
        HandshakeInv, OneAnswer, AnswerIsForService, BufferFree, NoneOutstanding
  <2>5. CASE ReadyMsg
    <3>1. \/ pc' = "failed" /\ service' = service
          \/ pc' = "connect" /\ service' = service + 1 /\ CtrlResponseProcessing' = FALSE
      BY <2>5 DEF ReadyMsg, Goto, Fail, NextService, ResponseDone
    <3>2. UNCHANGED <<rx, bug, CtrlResponseValid, booted, toTarget, toHost>>
      BY <2>5 DEF ReadyMsg, tgtVars
    <3>3. booted /\ toTarget = <<>> /\ toHost = <<>> /\ rx = "idle" /\ CtrlResponseValid = 0
      BY <2>5 DEF ReadyMsg, HandshakeInv, NoneOutstanding
    <3> QED
      BY <3>1, <3>2, <3>3
      DEF HandshakeInv, OneAnswer, AnswerIsForService, BufferFree, NoneOutstanding
  <2>6. CASE HTCConnectService
    BY <2>6 DEF HTCConnectService, Goto, Fail, respVars,
        HandshakeInv, OneAnswer, AnswerIsForService, BufferFree, NoneOutstanding
  <2>7. CASE ConnectResponse
    <3>1. \/ pc' = "failed" /\ service' = service
          \/ pc' = "connect" /\ service' = service + 1 /\ CtrlResponseProcessing' = FALSE
      BY <2>7 DEF ConnectResponse, Goto, Fail, NextService, ResponseDone
    <3>2. UNCHANGED <<rx, bug, CtrlResponseValid, booted, toTarget, toHost>>
      BY <2>7 DEF ConnectResponse, tgtVars
    <3>3. booted /\ toTarget = <<>> /\ toHost = <<>> /\ rx = "idle" /\ CtrlResponseValid = 0
      BY <2>7 DEF ConnectResponse, HandshakeInv, NoneOutstanding
    <3> QED
      BY <3>1, <3>2, <3>3
      DEF HandshakeInv, OneAnswer, AnswerIsForService, BufferFree, NoneOutstanding
  <2>8. CASE HTCStart
    BY <2>8 DEF HTCStart, Goto, Fail, respVars, tgtVars,
        HandshakeInv, OneAnswer, AnswerIsForService, BufferFree, NoneOutstanding
  <2>9. CASE Timeout
    BY <2>9 DEF Timeout, Goto, Fail, respVars, tgtVars,
        HandshakeInv, OneAnswer, AnswerIsForService, BufferFree, NoneOutstanding
  <2>10. CASE HTCRxCompletionHandler
    BY <2>10 DEF HTCRxCompletionHandler, respVars,
        HandshakeInv, OneAnswer, AnswerIsForService, BufferFree, NoneOutstanding
  <2>11. CASE Signal
    BY <2>11 DEF Signal, Complete, tgtVars,
        HandshakeInv, OneAnswer, AnswerIsForService, BufferFree, NoneOutstanding
  <2>12. CASE TargetBoot
    <3>1. PICK m \in Answers(0) : toHost' = Append(toHost, m)
      BY <2>12 DEF TargetBoot
    <3>2. m.about = service
      BY <3>1, <2>12, AnswerNamesRequest DEF TargetBoot, HandshakeInv, AnswerIsForService
    <3>3. toHost' = <<m>>
      <4>1. toHost = <<>>
        BY <2>12 DEF TargetBoot, HandshakeInv, OneAnswer
      <4>2. Append(<<>>, m) = <<m>>
        OBVIOUS
      <4> QED
        BY <3>1, <4>1, <4>2
    <3>4. toTarget' = <<>>
      BY <2>12 DEF TargetBoot, HandshakeInv, OneAnswer, AnswerIsForService
    <3> QED
      BY <2>12, <3>2, <3>3, <3>4 DEF TargetBoot, respVars,
        HandshakeInv, OneAnswer, AnswerIsForService, BufferFree, NoneOutstanding
  <2>13. CASE TargetAnswer
    <3>1. PICK m \in Answers(Head(toTarget)) : toHost' = Append(toHost, m)
      BY <2>13 DEF TargetAnswer
    <3>2. m.about = service
      BY <3>1, <2>13, AnswerNamesRequest DEF TargetAnswer, HandshakeInv, AnswerIsForService
    <3>3. toHost' = <<m>>
      <4>1. toHost = <<>>
        BY <2>13 DEF TargetAnswer, HandshakeInv, OneAnswer
      <4>2. Append(<<>>, m) = <<m>>
        OBVIOUS
      <4> QED
        BY <3>1, <4>1, <4>2
    <3>4. toTarget' = <<>>
      BY <2>13 DEF TargetAnswer, HandshakeInv, OneAnswer, AnswerIsForService
    <3> QED
      BY <2>13, <3>2, <3>3, <3>4 DEF TargetAnswer, respVars,
        HandshakeInv, OneAnswer, AnswerIsForService, BufferFree, NoneOutstanding
  <2> QED
    BY <2>1, <2>2, <2>3, <2>4, <2>5, <2>6, <2>7, <2>8, <2>9, <2>10, <2>11, <2>12, <2>13
    DEF Next, Host, Receive, Target
<1> QED
  BY <1>1, <1>2, PTL DEF Spec

\* HTCRxCompletionHandler never reaches VOS_BUG for a control message: a target that only
\* answers finds the response buffer free, although a refused or malformed response leaves
\* CtrlResponseProcessing set.
THEOREM NoFatalReceiveAlways == Spec => []NoFatalReceive
<1>1. HandshakeInv => NoFatalReceive
  BY DEF HandshakeInv, NoFatalReceive
<1> QED
  BY <1>1, HandshakeInvariant, PTL

\* HTCWaitTarget and HTCConnectService only ever read the answer to the request they made, for
\* any number of late answers, endpoints and credit offers.
THEOREM ResponseMatchesRequestAlways == Spec => []ResponseMatchesRequest
<1>1. HandshakeInv => ResponseMatchesRequest
  BY DEF HandshakeInv, AnswerIsForService, ResponseMatchesRequest
<1> QED
  BY <1>1, HandshakeInvariant, PTL

----------------------------------------------------------------------------
(* Endpoints and credits                                                   *)

EndpointTypeOK ==
    /\ service \in 0..3
    /\ TotalTransmitCredits \in CreditOffers \cup {0}
    /\ ServiceID \in [Endpoints -> ServiceIds \cup {NoService}]
    /\ TxCredits \in [Endpoints -> Nat]

\* What the thread will read is a message the target can have sent in this step.
AnswersTyped ==
    /\ toHost # <<>> => Head(toHost) \in Answers(service)
    /\ rx = "signal" \/ CtrlResponseValid = 1 \/ pc \in {"ready", "response"} =>
           CtrlResponseBuffer \in Answers(service)

\* The service the thread is at.
Progress ==
    /\ pc \in {"waitTarget", "ready"} => service = 0
    /\ pc \in {"reInit", "wait"} => service \in 0..2
    /\ pc = "response" => service \in 1..2
    /\ pc = "connect" => service # 0
    /\ pc = "started" => service = 3

\* A service that is connected has one endpoint.
Connected ==
    \A i \in 1..2 : i < service =>
        \E e \in Endpoints : /\ ServiceID[e] = Services[i]
                             /\ \A f \in Endpoints : ServiceID[f] = Services[i] => f = e

\* An endpoint in use is that of the control service or of a service that is connected, and has
\* the credits allocated to it.
Allocated ==
    \A e \in Endpoints :
        \/ ServiceID[e] = NoService /\ TxCredits[e] = 0
        \/ ServiceID[e] = HTC_CTRL_RSVD_SVC /\ TxCredits[e] = 0 /\ service # 0
        \/ \E i \in 1..2 : /\ i < service /\ ServiceID[e] = Services[i]
                           /\ TxCredits[e] = CreditAllocation(Services[i])

EndpointInv == EndpointTypeOK /\ AnswersTyped /\ Progress /\ Connected /\ Allocated

\* Two different services are connected, neither of them the control service.
LEMMA TwoServices ==
    /\ Len(Services) = 2 /\ Services[1] # Services[2]
    /\ \A i \in 1..2 : Services[i] \in ServiceIds \ {NoService, HTC_CTRL_RSVD_SVC}
<1>1. CASE epping
  <2>1. Services = <<WMI_DATA_BE_SVC, WMI_DATA_BK_SVC>>
    BY <1>1 DEF Services
  <2>2. /\ Len(Services) = 2
        /\ Services[1] = WMI_DATA_BE_SVC /\ Services[2] = WMI_DATA_BK_SVC
    BY <2>1
  <2>3. WMI_DATA_BE_SVC # WMI_DATA_BK_SVC
    BY ServiceAssumption
  <2>4. {WMI_DATA_BE_SVC, WMI_DATA_BK_SVC} \subseteq ServiceIds \ {NoService, HTC_CTRL_RSVD_SVC}
    BY ServiceAssumption DEF ServiceIds
  <2>5. \A i \in 1..2 : i = 1 \/ i = 2
    OBVIOUS
  <2> QED
    BY <2>2, <2>3, <2>4, <2>5
<1>2. CASE ~epping
  <2>1. Services = <<HTT_DATA_MSG_SVC, WMI_CONTROL_SVC>>
    BY <1>2 DEF Services
  <2>2. /\ Len(Services) = 2
        /\ Services[1] = HTT_DATA_MSG_SVC /\ Services[2] = WMI_CONTROL_SVC
    BY <2>1
  <2>3. HTT_DATA_MSG_SVC # WMI_CONTROL_SVC
    BY ServiceAssumption
  <2>4. {HTT_DATA_MSG_SVC, WMI_CONTROL_SVC} \subseteq ServiceIds \ {NoService, HTC_CTRL_RSVD_SVC}
    BY ServiceAssumption DEF ServiceIds
  <2>5. \A i \in 1..2 : i = 1 \/ i = 2
    OBVIOUS
  <2> QED
    BY <2>2, <2>3, <2>4, <2>5
<1> QED
  BY <1>1, <1>2

\* What the messages carry.
LEMMA AnswerFields ==
    ASSUME NEW n, NEW m \in Answers(n)
    PROVE  /\ m.id = "ready" => n = 0 /\ m.credits \in CreditOffers
           /\ m.id = "response" => \/ m.refused = TRUE
                                   \/ m.refused = FALSE /\ m.ep \in 0..EndpointMax
<1>1. CASE m \in Malformed(n)
  BY <1>1 DEF Malformed
<1>2. CASE n = 0 /\ m \in Ready
  BY <1>2 DEF Ready
<1>3. CASE m \in Refused(n)
  BY <1>3 DEF Refused
<1>4. CASE m \in Accepted(n)
  BY <1>4 DEF Accepted
<1> QED
  BY <1>1, <1>2, <1>3, <1>4 DEF Answers

\* A step that leaves the endpoints alone.
LEMMA EndpointsKept ==
    ASSUME EndpointInv, UNCHANGED <<epping, service, epVars>>, AnswersTyped', Progress'
    PROVE  EndpointInv'
<1>1. EndpointTypeOK'
  BY DEF EndpointInv, EndpointTypeOK, epVars
<1>2. Services' = Services
  BY DEF Services
<1>3. \A s : CreditAllocation(s)' = CreditAllocation(s)
  BY DEF CreditAllocation, epVars
<1>4. Connected'
  BY <1>2 DEF EndpointInv, Connected, epVars
<1>5. Allocated'
  BY <1>2, <1>3 DEF EndpointInv, Allocated, epVars
<1> QED
  BY <1>1, <1>4, <1>5 DEF EndpointInv

\* The thread takes READY, or the response for a service, and sets an endpoint up.
LEMMA ReadyStep == ASSUME HandshakeInv, EndpointInv, ReadyMsg PROVE EndpointInv'
<1>p. /\ pc = "ready" /\ service = 0 /\ EndpointTypeOK /\ Allocated
      /\ CtrlResponseBuffer \in Answers(service)
      /\ toHost = <<>> /\ rx = "idle" /\ CtrlResponseValid = 0
  BY DEF ReadyMsg, HandshakeInv, NoneOutstanding, EndpointInv, AnswersTyped, Progress
<1>u. UNCHANGED <<epping, rx, CtrlResponseValid, toHost>>
  BY DEF ReadyMsg, tgtVars
<1>n. \A e \in Endpoints : ServiceID[e] = NoService /\ TxCredits[e] = 0
  BY <1>p DEF Allocated
<1>c. \/ pc' = "failed" /\ service' = 0 /\ UNCHANGED <<ServiceID, TxCredits>>
      \/ /\ pc' = "connect" /\ service' = 1
         /\ ServiceID' = [ServiceID EXCEPT ![0] = HTC_CTRL_RSVD_SVC]
         /\ TxCredits' = [TxCredits EXCEPT ![0] = 0]
  BY <1>p DEF ReadyMsg, Fail, Goto, NextService, SetupEndpoint, epVars
<1>t. TotalTransmitCredits' \in CreditOffers \cup {0}
  <2>1. CASE CtrlResponseBuffer.id = "ready"
    BY <1>p, <2>1, AnswerFields DEF ReadyMsg
  <2>2. CASE CtrlResponseBuffer.id # "ready"
    BY <1>p, <2>2 DEF ReadyMsg, epVars, EndpointTypeOK
  <2> QED
    BY <2>1, <2>2
<1>1. EndpointTypeOK'
  BY <1>c, <1>p, <1>t DEF EndpointTypeOK, ServiceIds
<1>2. AnswersTyped' /\ Progress'
  BY <1>c, <1>p, <1>u DEF AnswersTyped, Progress
<1>3. Connected'
  BY <1>c DEF Connected
<1>4. Allocated'
  BY <1>c, <1>n, <1>p DEF Allocated, EndpointTypeOK
<1> QED
  BY <1>1, <1>2, <1>3, <1>4 DEF EndpointInv

\* An accepted connection gets a free endpoint and the credits of its service.
LEMMA ResponseStep == ASSUME HandshakeInv, EndpointInv, ConnectResponse PROVE EndpointInv'
<1>p. /\ pc = "response" /\ service \in 1..2 /\ EndpointTypeOK /\ Connected /\ Allocated
      /\ CtrlResponseBuffer \in Answers(service)
      /\ toHost = <<>> /\ rx = "idle" /\ CtrlResponseValid = 0
  BY DEF ConnectResponse, HandshakeInv, NoneOutstanding, EndpointInv, AnswersTyped, Progress
<1>u. /\ UNCHANGED <<epping, rx, CtrlResponseValid, toHost, TotalTransmitCredits>>
      /\ Services' = Services /\ \A s : CreditAllocation(s)' = CreditAllocation(s)
  BY DEF ConnectResponse, tgtVars, Services, CreditAllocation
<1>c. \/ pc' = "failed" /\ UNCHANGED <<service, ServiceID, TxCredits>>
      \/ \E ep \in Endpoints :
            /\ pc' = "connect" /\ service' = service + 1 /\ ServiceID[ep] = NoService
            /\ ServiceID' = [ServiceID EXCEPT ![ep] = Services[service]]
            /\ TxCredits' = [TxCredits EXCEPT ![ep] = CreditAllocation(Services[service])]
  <2> DEFINE m == CtrlResponseBuffer
  <2>1. CASE m.id = "response" /\ ~m.refused /\ Acceptable(m)
    <3>1. m.ep \in Endpoints /\ ServiceID[m.ep] = NoService
      <4>1. m.ep \in 0..EndpointMax
        BY <1>p, <2>1, AnswerFields
      <4>2. m.ep < EndpointMax /\ ServiceID[m.ep] = NoService
        BY <2>1 DEF Acceptable, InUse
      <4>3. EndpointMax \in Nat
        BY ControlAssumption
      <4> QED
        BY <4>1, <4>2, <4>3 DEF Endpoints
    <3> QED
      BY <2>1, <3>1 DEF ConnectResponse, NextService, SetupEndpoint
  <2>2. CASE ~(m.id = "response" /\ ~m.refused /\ Acceptable(m))
    BY <2>2 DEF ConnectResponse, Fail, Goto
  <2> QED
    BY <2>1, <2>2
<1>1. CASE pc' = "failed" /\ UNCHANGED <<service, ServiceID, TxCredits>>
  <2>1. AnswersTyped' /\ Progress'
    BY <1>1, <1>p, <1>u DEF AnswersTyped, Progress
  <2> QED
    BY <1>1, <1>u, <2>1, EndpointsKept DEF epVars
<1>2. ASSUME NEW ep \in Endpoints,
             pc' = "connect", service' = service + 1, ServiceID[ep] = NoService,
             ServiceID' = [ServiceID EXCEPT ![ep] = Services[service]],
             TxCredits' = [TxCredits EXCEPT ![ep] = CreditAllocation(Services[service])]
      PROVE  EndpointInv'
  <2>1. EndpointTypeOK'
    <3>1. CreditAllocation(Services[service]) \in Nat
      <4>1. TotalTransmitCredits \in Nat
        <5>1. TotalTransmitCredits \in CreditOffers \cup {0}
          BY <1>p DEF EndpointTypeOK
        <5>2. CreditOffers \subseteq Nat
          BY ControlAssumption
        <5> QED
          BY <5>1, <5>2
      <4>2. TotalTransmitCredits % 256 \in Nat /\ (TotalTransmitCredits \div 2) % 256 \in Nat
        BY <4>1
      <4> QED
        BY <4>2 DEF CreditAllocation
    <3>2. TxCredits' \in [Endpoints -> Nat]
      BY <1>2, <1>p, <3>1 DEF EndpointTypeOK
    <3>3. ServiceID' \in [Endpoints -> ServiceIds \cup {NoService}]
      <4>1. Services[service] \in ServiceIds
        BY <1>p, TwoServices
      <4> QED
        BY <1>2, <1>p, <4>1 DEF EndpointTypeOK
    <3> QED
      BY <1>2, <1>p, <1>u, <3>2, <3>3 DEF EndpointTypeOK
  <2>2. AnswersTyped' /\ Progress'
    BY <1>2, <1>p, <1>u DEF AnswersTyped, Progress
  <2>e. /\ ServiceID'[ep] = Services[service] /\ TxCredits'[ep] = CreditAllocation(Services[service])
        /\ \A f \in Endpoints : f # ep => ServiceID'[f] = ServiceID[f] /\ TxCredits'[f] = TxCredits[f]
    BY <1>2, <1>p DEF EndpointTypeOK
  <2>3. Connected'
    <3> SUFFICES ASSUME NEW i \in 1..2, i < service + 1
                 PROVE  \E e \in Endpoints :
                           /\ ServiceID'[e] = Services[i]
                           /\ \A f \in Endpoints : ServiceID'[f] = Services[i] => f = e
      BY <1>2, <1>u DEF Connected
    <3>1. CASE i < service
      <4>1. i = 1 /\ service = 2
        BY <1>p, <3>1
      <4>2. PICK e \in Endpoints : /\ ServiceID[e] = Services[i]
                                   /\ \A f \in Endpoints : ServiceID[f] = Services[i] => f = e
        BY <1>p, <3>1 DEF Connected
      <4>3. Services[i] # Services[service] /\ Services[i] # NoService
        <5>1. Services[1] # Services[2] /\ Services[1] # NoService
          BY TwoServices
        <5> QED
          BY <4>1, <5>1
      <4> QED
        BY <1>2, <2>e, <4>2, <4>3
    <3>2. CASE i = service
      <4>1. ASSUME NEW f \in Endpoints, f # ep PROVE ServiceID[f] # Services[i]
        <5>1. Services[i] # NoService /\ Services[i] # HTC_CTRL_RSVD_SVC
          BY TwoServices
        <5>2. ASSUME NEW j \in 1..2, j < service PROVE Services[j] # Services[i]
          <6>1. j = 1 /\ i = 2
            BY <1>p, <3>2, <5>2
          <6> QED
            BY <6>1, TwoServices
        <5> QED
          BY <1>p, <5>1, <5>2 DEF Allocated
      <4> QED
        BY <2>e, <3>2, <4>1
    <3> QED
      BY <1>p, <3>1, <3>2
  <2>4. Allocated'
    <3> SUFFICES ASSUME NEW e \in Endpoints
                 PROVE  \/ ServiceID'[e] = NoService /\ TxCredits'[e] = 0
                        \/ /\ ServiceID'[e] = HTC_CTRL_RSVD_SVC /\ TxCredits'[e] = 0
                           /\ service' # 0
                        \/ \E i \in 1..2 : /\ i < service' /\ ServiceID'[e] = Services[i]
                                           /\ TxCredits'[e] = CreditAllocation(Services[i])
      BY <1>u DEF Allocated
    <3>1. service < service' /\ service' # 0 /\ \A i \in 1..2 : i < service => i < service'
      BY <1>2, <1>p
    <3>2. CASE e = ep
      BY <1>p, <2>e, <3>1, <3>2
    <3>3. CASE e # ep
      <4>1. ServiceID'[e] = ServiceID[e] /\ TxCredits'[e] = TxCredits[e]
        BY <2>e, <3>3
      <4> QED
        BY <1>p, <3>1, <4>1, Zenon DEF Allocated
    <3> QED
      BY <3>2, <3>3
  <2> QED
    BY <2>1, <2>2, <2>3, <2>4 DEF EndpointInv
<1> QED
  BY <1>c, <1>1, <1>2

\* Every step keeps the endpoints in order.  A connection is only accepted on an endpoint that is
\* free, so the services that were connected before keep theirs.
LEMMA EndpointStep ==
    ASSUME HandshakeInv, HandshakeInv', EndpointInv, [Next]_vars PROVE EndpointInv'
<1>p. AnswersTyped /\ Progress /\ service \in 0..3
  BY DEF EndpointInv, EndpointTypeOK
<1>1. CASE UNCHANGED vars
  BY <1>1, <1>p, EndpointsKept DEF vars, respVars, tgtVars, AnswersTyped, Progress
<1>2. CASE HTCWaitTarget
  <2>1. AnswersTyped' /\ Progress'
    BY <1>2, <1>p DEF HTCWaitTarget, Goto, Fail, respVars, tgtVars, AnswersTyped, Progress
  <2> QED
    BY <1>2, <2>1, EndpointsKept DEF HTCWaitTarget, Goto, Fail
<1>3. CASE ReInit
  <2>1. AnswersTyped' /\ Progress'
    BY <1>3, <1>p DEF ReInit, ReInitCompletion, Goto, tgtVars, AnswersTyped, Progress
  <2> QED
    BY <1>3, <2>1, EndpointsKept DEF ReInit, Goto
<1>4. CASE WaitForCompletion
  <2>1. CtrlResponseValid = 1 /\ CtrlResponseValid' = 0
    BY <1>4 DEF WaitForCompletion, HandshakeInv
  <2>2. pc' = (IF service = 0 THEN "ready" ELSE "response") /\ service' = service
    BY <1>4 DEF WaitForCompletion, Goto
  <2>3. AnswersTyped' /\ Progress'
    BY <1>4, <1>p, <2>1, <2>2 DEF WaitForCompletion, tgtVars, AnswersTyped, Progress
  <2> QED
    BY <1>4, <2>2, <2>3, EndpointsKept DEF WaitForCompletion
<1>5. CASE ReadyMsg
  BY <1>5, ReadyStep
<1>6. CASE HTCConnectService
  <2>1. service \in 1..2 /\ service' = service /\ pc' \in {"reInit", "failed"}
    BY <1>6, <1>p, TwoServices DEF HTCConnectService, Goto, Fail, Progress
  <2>2. AnswersTyped' /\ Progress'
    BY <1>6, <1>p, <2>1 DEF HTCConnectService, respVars, AnswersTyped, Progress
  <2> QED
    BY <1>6, <2>1, <2>2, EndpointsKept DEF HTCConnectService
<1>7. CASE ConnectResponse
  BY <1>7, ResponseStep
<1>8. CASE HTCStart
  <2>1. service = 3 /\ service' = service /\ pc' \in {"started", "failed"}
    BY <1>8, <1>p, TwoServices DEF HTCStart, Goto, Fail
  <2>2. AnswersTyped' /\ Progress'
    BY <1>8, <1>p, <2>1 DEF HTCStart, respVars, tgtVars, AnswersTyped, Progress
  <2> QED
    BY <1>8, <2>1, <2>2, EndpointsKept DEF HTCStart
<1>9. CASE Timeout
  <2>1. AnswersTyped' /\ Progress'
    BY <1>9, <1>p DEF Timeout, Goto, Fail, respVars, tgtVars, AnswersTyped, Progress
  <2> QED
    BY <1>9, <2>1, EndpointsKept DEF Timeout, Goto, Fail
<1>10. CASE HTCRxCompletionHandler
  <2>1. UNCHANGED <<epping, pc, service, epVars>>
    BY <1>10 DEF HTCRxCompletionHandler
  <2>2. toHost # <<>> /\ Head(toHost) \in Answers(service)
    BY <1>10, <1>p DEF HTCRxCompletionHandler, AnswersTyped
  <2>3. toHost' = <<>> /\ CtrlResponseBuffer' = Head(toHost)
    <3>1. toHost = <<Head(toHost)>> /\ CtrlResponseProcessing = FALSE
      BY <2>2 DEF HandshakeInv, AnswerIsForService, BufferFree
    <3>2. toHost' = Tail(toHost)
      BY <1>10 DEF HTCRxCompletionHandler
    <3>3. CtrlResponseBuffer' = Head(toHost)
      BY <1>10, <3>1 DEF HTCRxCompletionHandler
    <3> QED
      BY <3>1, <3>2, <3>3
  <2>4. AnswersTyped' /\ Progress'
    BY <1>p, <2>1, <2>2, <2>3 DEF AnswersTyped, Progress
  <2> QED
    BY <2>1, <2>4, EndpointsKept
<1>11. CASE Signal
  <2>1. UNCHANGED <<epping, pc, service, epVars, CtrlResponseBuffer, toHost>> /\ rx = "signal"
    BY <1>11 DEF Signal, tgtVars
  <2>2. AnswersTyped' /\ Progress'
    BY <1>p, <2>1 DEF AnswersTyped, Progress
  <2> QED
    BY <2>1, <2>2, EndpointsKept
<1>12. CASE Target
  <2>1. UNCHANGED <<epping, pc, service, respVars, rx, epVars>>
    BY <1>12 DEF Target, TargetBoot, TargetAnswer
  <2>2. toHost = <<>> /\ \E m \in Answers(service) : toHost' = <<m>>
    <3>1. CASE TargetBoot
      <4>1. service = 0 /\ toHost = <<>>
        BY <3>1 DEF TargetBoot, HandshakeInv, OneAnswer, AnswerIsForService
      <4> QED
        BY <3>1, <4>1 DEF TargetBoot
    <3>2. CASE TargetAnswer
      <4>1. toTarget = <<service>> /\ toHost = <<>>
        BY <3>2 DEF TargetAnswer, HandshakeInv, OneAnswer, AnswerIsForService
      <4>2. Head(toTarget) = service
        BY <4>1
      <4> QED
        BY <3>2, <4>1, <4>2 DEF TargetAnswer
    <3> QED
      BY <1>12, <3>1, <3>2 DEF Target
  <2>3. AnswersTyped' /\ Progress'
    BY <1>p, <2>1, <2>2 DEF AnswersTyped, Progress, respVars
  <2> QED
    BY <2>1, <2>3, EndpointsKept
<1> QED
  BY <1>1, <1>2, <1>3, <1>4, <1>5, <1>6, <1>7, <1>8, <1>9, <1>10, <1>11, <1>12
  DEF Next, Host, Receive

\* Nothing is connected at first.
LEMMA EndpointInit == Init => EndpointInv
<1> SUFFICES ASSUME Init PROVE EndpointInv
  OBVIOUS
<1>1. EndpointTypeOK
  BY DEF Init, EndpointTypeOK
<1>2. AnswersTyped /\ Progress
  BY DEF Init, AnswersTyped, Progress
<1>3. Connected
  BY DEF Init, Connected
<1>4. Allocated
  BY DEF Init, Allocated
<1> QED
  BY <1>1, <1>2, <1>3, <1>4 DEF EndpointInv

\* Every service that is connected has one endpoint, and an endpoint the credits of its service.
THEOREM EndpointInvariant == Spec => []EndpointInv
<1>1. HandshakeInv /\ HandshakeInv' /\ EndpointInv /\ [Next]_vars => EndpointInv'
  BY EndpointStep
<1> QED
  BY <1>1, EndpointInit, HandshakeInvariant, PTL DEF Spec

\* HTCConnectService refuses an endpoint that is in use, so every service that was told it is
\* connected keeps its endpoint, for any assignment by the target and any number of endpoints.
THEOREM ServicesKeepEndpointsAlways == Spec => []ServicesKeepEndpoints
<1>1. EndpointInv => ServicesKeepEndpoints
  <2> SUFFICES ASSUME EndpointInv, NEW i \in 1..2, i < service
               PROVE  Cardinality({e \in Endpoints : ServiceID[e] = Services[i]}) = 1
    BY TwoServices DEF ServicesKeepEndpoints
  <2>1. PICK e \in Endpoints : /\ ServiceID[e] = Services[i]
                               /\ \A f \in Endpoints : ServiceID[f] = Services[i] => f = e
    BY DEF EndpointInv, Connected
  <2>2. {f \in Endpoints : ServiceID[f] = Services[i]} = {e}
    BY <2>1
  <2> QED
    BY <2>2, FS_Singleton
<1> QED
  BY <1>1, EndpointInvariant, PTL

\* The endpoint of one service has as many credits as are allocated to the service.
LEMMA GrantedToOne ==
    ASSUME EndpointInv, NEW i \in 1..2
    PROVE  LET own == {x \in Granted : ServiceID[x[1]] = Services[i] /\ i < service}
               h == CreditAllocation(Services[i])
           IN h \in Nat /\ IsFiniteSet(own) /\ Cardinality(own) \in Nat /\ Cardinality(own) <= h
<1> DEFINE own == {x \in Granted : ServiceID[x[1]] = Services[i] /\ i < service}
           h == CreditAllocation(Services[i])
<1>1. h \in Nat
  <2>1. TotalTransmitCredits \in CreditOffers \cup {0} /\ CreditOffers \subseteq Nat
    BY ControlAssumption DEF EndpointInv, EndpointTypeOK
  <2>2. TotalTransmitCredits % 256 \in Nat /\ (TotalTransmitCredits \div 2) % 256 \in Nat
    BY <2>1
  <2> QED
    BY <2>2 DEF CreditAllocation
<1>2. CASE ~(i < service)
  <2>1. own = {}
    BY <1>2
  <2> QED
    BY <1>1, <2>1, FS_EmptySet
<1>3. CASE i < service
  <2>1. PICK e \in Endpoints : /\ ServiceID[e] = Services[i]
                               /\ \A f \in Endpoints : ServiceID[f] = Services[i] => f = e
    BY <1>3 DEF EndpointInv, Connected
  <2>2. TxCredits[e] = h
    <3>1. Services[i] # NoService /\ Services[i] # HTC_CTRL_RSVD_SVC
      BY TwoServices
    <3>2. PICK j \in 1..2 : Services[i] = Services[j] /\ TxCredits[e] = CreditAllocation(Services[j])
      BY <2>1, <3>1 DEF EndpointInv, Allocated
    <3> QED
      BY <3>2
  <2>3. own \subseteq {e} \X (1..h)
    BY <2>1, <2>2 DEF Granted
  <2>4. IsFiniteSet({e}) /\ Cardinality({e}) = 1 /\ IsFiniteSet(1..h) /\ Cardinality(1..h) = h
    <3>1. ASSUME NEW n \in Nat PROVE IsFiniteSet(1..n) /\ Cardinality(1..n) = n
      <4>1. IsFiniteSet(1..n) /\ Cardinality(1..n) = IF 1 > n THEN 0 ELSE n - 1 + 1
        BY FS_Interval
      <4> QED
        BY <4>1
    <3> HIDE DEF h
    <3> QED
      BY <1>1, <3>1, FS_Singleton
  <2> HIDE DEF h, own
  <2>5. IsFiniteSet({e} \X (1..h)) /\ Cardinality({e} \X (1..h)) = Cardinality({e}) * Cardinality(1..h)
    BY <2>4, FS_Product, Zenon
  <2>6. Cardinality({e} \X (1..h)) = h
    BY <1>1, <2>4, <2>5
  <2> QED
    BY <1>1, <2>3, <2>5, <2>6, FS_Subset, FS_CardinalityType DEF h, own
<1> QED
  BY <1>2, <1>3

\* HTCSetupTargetBufferAssignments divides what the READY message offered: the endpoints never
\* have more, for every offer a 16 bit field can hold.
LEMMA GrantedWithinOffer == Spec => [](Cardinality(Granted) <= TotalTransmitCredits)
<1>1. EndpointInv => Cardinality(Granted) <= TotalTransmitCredits
  <2> SUFFICES ASSUME EndpointInv PROVE Cardinality(Granted) <= TotalTransmitCredits
    OBVIOUS
  <2> DEFINE own(i) == {x \in Granted : ServiceID[x[1]] = Services[i] /\ i < service}
             h(i) == CreditAllocation(Services[i])
  <2>1. /\ h(1) \in Nat /\ IsFiniteSet(own(1)) /\ Cardinality(own(1)) \in Nat
        /\ Cardinality(own(1)) <= h(1)
    BY GrantedToOne
  <2>2. /\ h(2) \in Nat /\ IsFiniteSet(own(2)) /\ Cardinality(own(2)) \in Nat
        /\ Cardinality(own(2)) <= h(2)
    BY GrantedToOne
  <2>3. h(1) + h(2) <= TotalTransmitCredits
    <3>1. TotalTransmitCredits \in Nat
      <4>1. TotalTransmitCredits \in CreditOffers \cup {0} /\ CreditOffers \subseteq Nat
        BY ControlAssumption DEF EndpointInv, EndpointTypeOK
      <4> QED
        BY <4>1
    <3>2. CASE epping
      <4>1. Services[1] = WMI_DATA_BE_SVC /\ Services[2] = WMI_DATA_BK_SVC
        BY <3>2 DEF Services
      <4>2. h(1) = (TotalTransmitCredits \div 2) % 256 /\ h(2) = (TotalTransmitCredits \div 2) % 256
        BY <3>2, <4>1, ServiceAssumption DEF CreditAllocation
      <4>3. /\ TotalTransmitCredits \div 2 \in Nat /\ 2 * (TotalTransmitCredits \div 2) <= TotalTransmitCredits
            /\ \A n \in Nat : n % 256 <= n /\ n % 256 \in Nat
        BY <3>1
      <4> QED
        BY <3>1, <4>2, <4>3
    <3>3. CASE ~epping
      <4>1. Services[1] = HTT_DATA_MSG_SVC /\ Services[2] = WMI_CONTROL_SVC
        BY <3>3 DEF Services
      <4>2. h(1) = 0 /\ h(2) = TotalTransmitCredits % 256
        BY <3>3, <4>1, ServiceAssumption DEF CreditAllocation
      <4>3. TotalTransmitCredits % 256 <= TotalTransmitCredits
        BY <3>1
      <4> QED
        BY <3>1, <4>2, <4>3
    <3> QED
      BY <3>2, <3>3
  <2>4. Granted = own(1) \cup own(2)
    <3>1. ASSUME NEW x \in Granted PROVE x \in own(1) \cup own(2)
      <4>1. PICK e \in Endpoints : x \in {e} \X (1..TxCredits[e])
        BY <3>1 DEF Granted
      <4>2. TxCredits[e] \in Nat
        BY DEF EndpointInv, EndpointTypeOK
      <4>3. x[1] = e /\ TxCredits[e] # 0
        BY <4>1, <4>2
      <4>4. PICK i \in 1..2 : i < service /\ ServiceID[e] = Services[i]
        BY <4>3 DEF EndpointInv, Allocated
      <4>5. i = 1 \/ i = 2
        OBVIOUS
      <4> QED
        BY <3>1, <4>3, <4>4, <4>5
    <3> QED
      BY <3>1
  <2> HIDE DEF own, h
  <2>5. /\ Cardinality(own(1) \cup own(2)) =
             Cardinality(own(1)) + Cardinality(own(2)) - Cardinality(own(1) \cap own(2))
        /\ Cardinality(own(1) \cap own(2)) \in Nat
    BY <2>1, <2>2, FS_Union, FS_Intersection, FS_CardinalityType
  <2>6. TotalTransmitCredits \in Int
    <3>1. TotalTransmitCredits \in CreditOffers \cup {0} /\ CreditOffers \subseteq Nat
      BY ControlAssumption DEF EndpointInv, EndpointTypeOK
    <3> QED
      BY <3>1
  <2> QED
    BY <2>1, <2>2, <2>3, <2>4, <2>5, <2>6
<1> QED
  BY <1>1, EndpointInvariant, PTL

\* The endpoints share what was offered, for every offer of 16 bits, and WMI has all of it at the end
\* if 8 bits can hold it.
THEOREM CreditsWithinOfferAlways == Spec => []CreditsWithinOffer
<1>1. EndpointInv /\ Cardinality(Granted) <= TotalTransmitCredits => CreditsWithinOffer
  <2> SUFFICES ASSUME EndpointInv, pc = "started", ~epping
               PROVE  \E e \in Endpoints :
                         /\ ServiceID[e] = WMI_CONTROL_SVC
                         /\ TotalTransmitCredits < 2^8 => TxCredits[e] = TotalTransmitCredits
    BY DEF CreditsWithinOffer
  <2>1. service = 3 /\ Services[2] = WMI_CONTROL_SVC
    BY DEF EndpointInv, Progress, Services
  <2>2. PICK e \in Endpoints : ServiceID[e] = WMI_CONTROL_SVC
    BY <2>1 DEF EndpointInv, Connected
  <2>3. WMI_CONTROL_SVC # NoService /\ WMI_CONTROL_SVC # HTC_CTRL_RSVD_SVC
    BY ServiceAssumption DEF ServiceIds
  <2>4. TxCredits[e] = CreditAllocation(WMI_CONTROL_SVC)
    BY <2>2, <2>3 DEF EndpointInv, Allocated
  <2>5. TotalTransmitCredits \in CreditOffers \cup {0}
    BY DEF EndpointInv, EndpointTypeOK
  <2>6. TotalTransmitCredits \in Nat
    BY <2>5, ControlAssumption
  <2>7. TotalTransmitCredits < 2^8 => TotalTransmitCredits % 256 = TotalTransmitCredits
    <3>1. 2^8 = 256
      OBVIOUS
    <3> QED
      BY <2>6, <3>1
  <2> QED
    BY <2>2, <2>4, <2>7 DEF CreditAllocation
<1> QED
  BY <1>1, EndpointInvariant, GrantedWithinOffer, PTL
=============================================================================
