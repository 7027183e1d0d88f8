----------------------------- MODULE HtcControl -----------------------------
(***************************************************************************)
(* Bringing HTC up (SERVICES/HTC/htc.c, htc_services.c, htc_recv.c): one   *)
(* thread waits for the target's READY message, connects one service after *)
(* the other and sends SETUP_COMPLETE.  Every answer comes through one     *)
(* response buffer, guarded by CtrlResponseProcessing and announced by the *)
(* completion CtrlResponseValid, which the receive context signals.  An    *)
(* answer that takes longer than HTC_CONTROL_RX_TIMEOUT is given up, but   *)
(* on PCIe nothing is reset then and the answer may still arrive.          *)
(***************************************************************************)
EXTENDS Integers, Sequences, FiniteSets

CONSTANTS
    WMI_CONTROL_SVC, HTT_DATA_MSG_SVC, WMI_DATA_BE_SVC, WMI_DATA_BK_SVC, HTC_CTRL_RSVD_SVC,
    NoService, NoMessage,
    EndpointMax,         \* ENDPOINT_MAX
    CreditOffers         \* credit counts a READY message may announce

ServiceIds == {WMI_CONTROL_SVC, HTT_DATA_MSG_SVC, WMI_DATA_BE_SVC, WMI_DATA_BK_SVC,
               HTC_CTRL_RSVD_SVC}

ASSUME ControlAssumption ==
    /\ EndpointMax \in Nat \ {0}
    /\ CreditOffers \subseteq Nat /\ \A n \in CreditOffers : n < 2^16

\* MAKE_SERVICE_ID gives every service a number of its own
ASSUME ServiceAssumption ==
    /\ WMI_CONTROL_SVC \notin {HTT_DATA_MSG_SVC, WMI_DATA_BE_SVC, WMI_DATA_BK_SVC}
    /\ WMI_DATA_BE_SVC # WMI_DATA_BK_SVC
    /\ HTC_CTRL_RSVD_SVC \notin {WMI_CONTROL_SVC, HTT_DATA_MSG_SVC, WMI_DATA_BE_SVC,
                                 WMI_DATA_BK_SVC}
    /\ NoService \notin ServiceIds

VARIABLES
    epping,                  \* WLAN_IS_EPPING_ENABLED(vos_get_conparam())
    pc,                      \* the thread that brings HTC up
    service,                 \* 0 in HTCWaitTarget, then the service being connected
    CtrlResponseProcessing, CtrlResponseBuffer, CtrlResponseValid,
    rx,                      \* the receive context: "idle", or about to "signal"
    bug,                     \* VOS_BUG in HTCRxCompletionHandler
    TotalTransmitCredits, ServiceID, TxCredits,
    booted, toTarget, toHost \* the target and the control messages on their way

respVars == <<CtrlResponseProcessing, CtrlResponseBuffer, CtrlResponseValid>>
epVars   == <<TotalTransmitCredits, ServiceID, TxCredits>>
tgtVars  == <<booted, toTarget, toHost>>
vars     == <<epping, pc, service, respVars, rx, bug, epVars, tgtVars>>

Endpoints == 0..EndpointMax - 1

\* the services connected, in this order: HTT by WLANTL_Open and WMI by wma_pre_start, or the
\* two of endpoint ping
Services == IF epping THEN <<WMI_DATA_BE_SVC, WMI_DATA_BK_SVC>>
                      ELSE <<HTT_DATA_MSG_SVC, WMI_CONTROL_SVC>>

\* Control messages, each with the step of the handshake it answers; "other" is a message with
\* another id or one that is too short.
Malformed(n) == [about : {n}, id : {"other"}]
Ready == [about : {0}, id : {"ready"}, credits : CreditOffers]
Refused(n) == [about : {n}, id : {"response"}, refused : {TRUE}]
Accepted(n) == [about : {n}, id : {"response"}, refused : {FALSE},
                ep : 0..EndpointMax, maxMsgSize : {0, 1536}]
Answers(n) == Malformed(n) \cup (IF n = 0 THEN Ready ELSE Refused(n) \cup Accepted(n))

----------------------------------------------------------------------------
Init ==
    /\ epping \in BOOLEAN
    /\ pc = "waitTarget" /\ service = 0
    /\ CtrlResponseProcessing = FALSE /\ CtrlResponseBuffer = NoMessage
    /\ CtrlResponseValid = 0
    /\ rx = "idle" /\ bug = FALSE
    /\ TotalTransmitCredits = 0
    /\ ServiceID = [e \in Endpoints |-> NoService]
    /\ TxCredits = [e \in Endpoints |-> 0]
    /\ booted = FALSE /\ toTarget = <<>> /\ toHost = <<>>

Goto(label) == pc' = label /\ UNCHANGED service

\* seeded faults: the caller goes on with the next service; the re-initialisation takes effect;
\* the flag stays; a used endpoint is not recognised; both
\* services of endpoint ping get everything
FailTolerated ==
    IF service \in 1..Len(Services)
    THEN pc' = "connect" /\ service' = service + 1
    ELSE pc' = "failed" /\ UNCHANGED service
ReInitCompletionReally(done) == 0
ResponseDoneForgotten == CtrlResponseProcessing' = CtrlResponseProcessing
InUseNever(e) == FALSE
CreditAllocationWhole(s) ==
    IF s \in {WMI_CONTROL_SVC, WMI_DATA_BE_SVC, WMI_DATA_BK_SVC}
    THEN TotalTransmitCredits % 256 ELSE 0

\* vos_open, vos_preStart and epping_enable give up when a step of the handshake fails
Fail == Goto("failed")

\* adf_os_re_init_completion takes its argument by value: the caller's completion is unchanged
ReInitCompletion(done) == done

\* adf_os_complete
Complete(done) == done + 1

\* "done processing response buffer"
ResponseDone == CtrlResponseProcessing' = FALSE

\* "endpoint already in use!"
InUse(e) == ServiceID[e] # NoService

\* HTCSetupTargetBufferAssignments and HTCGetCreditAllocation; an entry has 8 bits
CreditAllocation(s) ==
    IF s = WMI_CONTROL_SVC THEN TotalTransmitCredits % 256
    ELSE IF epping /\ s \in {WMI_DATA_BE_SVC, WMI_DATA_BK_SVC}
         THEN (TotalTransmitCredits \div 2) % 256
         ELSE 0

----------------------------------------------------------------------------
(* The thread that brings HTC up                                           *)

\* HIFStart posts the receive buffers, or fails
HTCWaitTarget ==
    /\ pc = "waitTarget"
    /\ Goto("reInit") \/ Fail
    /\ UNCHANGED <<epping, respVars, rx, bug, epVars, tgtVars>>

\* HTCWaitRecvCtrlMessage, in two steps
ReInit ==
    /\ pc = "reInit"
    /\ CtrlResponseValid' = ReInitCompletion(CtrlResponseValid)
    /\ Goto("wait")
    /\ UNCHANGED <<epping, CtrlResponseProcessing, CtrlResponseBuffer, rx, bug, epVars, tgtVars>>

WaitForCompletion ==
    /\ pc = "wait" /\ CtrlResponseValid > 0
    /\ CtrlResponseValid' = CtrlResponseValid - 1
    /\ Goto(IF service = 0 THEN "ready" ELSE "response")
    /\ UNCHANGED <<epping, CtrlResponseProcessing, CtrlResponseBuffer, rx, bug, epVars, tgtVars>>

Timeout ==
    /\ pc = "wait" /\ CtrlResponseValid = 0
    /\ Fail
    /\ UNCHANGED <<epping, respVars, rx, bug, epVars, tgtVars>>

\* endpoint e is set up for service s: "this marks the endpoint in use"
SetupEndpoint(e, s, credits) ==
    /\ ServiceID' = [ServiceID EXCEPT ![e] = s]
    /\ TxCredits' = [TxCredits EXCEPT ![e] = credits]

NextService == pc' = "connect" /\ service' = service + 1

\* READY: the credits are recorded, then the pseudo control service is connected to endpoint 0.
\* The errors return with CtrlResponseProcessing set.
ReadyMsg ==
    /\ pc = "ready"
    /\ IF CtrlResponseBuffer.id # "ready"
       THEN Fail /\ UNCHANGED <<CtrlResponseProcessing, epVars>>
       ELSE /\ TotalTransmitCredits' = CtrlResponseBuffer.credits
            /\ IF CtrlResponseBuffer.credits = 0
               THEN Fail /\ UNCHANGED <<CtrlResponseProcessing, ServiceID, TxCredits>>
               ELSE ResponseDone /\ NextService /\ SetupEndpoint(0, HTC_CTRL_RSVD_SVC, 0)
    /\ UNCHANGED <<epping, CtrlResponseBuffer, CtrlResponseValid, rx, bug, tgtVars>>

\* HTCConnectService up to the request; the packet for it may not be available
HTCConnectService ==
    /\ pc = "connect" /\ service <= Len(Services)
    /\ \/ Goto("reInit") /\ toTarget' = Append(toTarget, service)
       \/ Fail /\ UNCHANGED toTarget
    /\ UNCHANGED <<epping, respVars, rx, bug, epVars, booted, toHost>>

\* the parameter checks on an accepted connection
Acceptable(m) == m.ep < EndpointMax /\ m.maxMsgSize # 0 /\ ~InUse(m.ep)

\* HTCConnectService from the response on; a refusal or an invalid message returns with
\* CtrlResponseProcessing set
ConnectResponse ==
    /\ pc = "response"
    /\ LET m == CtrlResponseBuffer IN
       IF m.id # "response" \/ (m.id = "response" /\ m.refused)
       THEN Fail /\ UNCHANGED <<CtrlResponseProcessing, ServiceID, TxCredits>>
       ELSE /\ ResponseDone
            /\ IF Acceptable(m)
               THEN /\ NextService
                    /\ SetupEndpoint(m.ep, Services[service], CreditAllocation(Services[service]))
               ELSE Fail /\ UNCHANGED <<ServiceID, TxCredits>>
    /\ UNCHANGED <<epping, CtrlResponseBuffer, CtrlResponseValid, TotalTransmitCredits,
                   rx, bug, tgtVars>>

\* SETUP_COMPLETE is sent, which the target does not answer
HTCStart ==
    /\ pc = "connect" /\ service > Len(Services)
    /\ Goto("started") \/ Fail
    /\ UNCHANGED <<epping, respVars, rx, bug, epVars, tgtVars>>

----------------------------------------------------------------------------
(* HTCRxCompletionHandler for a message on endpoint 0                      *)

HTCRxCompletionHandler ==
    /\ pc # "waitTarget" /\ rx = "idle" /\ toHost # <<>>
    /\ toHost' = Tail(toHost)
    /\ IF CtrlResponseProcessing
       THEN bug' = TRUE /\ UNCHANGED <<respVars, rx>>
       ELSE /\ CtrlResponseBuffer' = Head(toHost) /\ CtrlResponseProcessing' = TRUE
            /\ rx' = "signal"
            /\ UNCHANGED <<CtrlResponseValid, bug>>
    /\ UNCHANGED <<epping, pc, service, epVars, booted, toTarget>>

\* adf_os_complete follows when the lock has been released
Signal ==
    /\ rx = "signal"
    /\ CtrlResponseValid' = Complete(CtrlResponseValid)
    /\ rx' = "idle"
    /\ UNCHANGED <<epping, pc, service, CtrlResponseProcessing, CtrlResponseBuffer, bug,
                   epVars, tgtVars>>

----------------------------------------------------------------------------
(* The target announces itself and answers what it is asked                *)

TargetBoot ==
    /\ ~booted
    /\ booted' = TRUE
    /\ \E m \in Answers(0) : toHost' = Append(toHost, m)
    /\ UNCHANGED <<epping, pc, service, respVars, rx, bug, epVars, toTarget>>

TargetAnswer ==
    /\ toTarget # <<>>
    /\ toTarget' = Tail(toTarget)
    /\ \E m \in Answers(Head(toTarget)) : toHost' = Append(toHost, m)
    /\ UNCHANGED <<epping, pc, service, respVars, rx, bug, epVars, booted>>

----------------------------------------------------------------------------
Host ==
    \/ HTCWaitTarget \/ ReInit \/ WaitForCompletion \/ ReadyMsg
    \/ HTCConnectService \/ ConnectResponse \/ HTCStart
Receive == HTCRxCompletionHandler \/ Signal
Target == TargetBoot \/ TargetAnswer

Next == Host \/ Timeout \/ Receive \/ Target

Spec == Init /\ [][Next]_vars

\* The thread, the receive context and the target keep running; a wait need not time out.
FairSpec == Spec /\ WF_vars(Host) /\ WF_vars(Receive) /\ WF_vars(Target)

----------------------------------------------------------------------------
(* Properties *)


\* The response a step of the handshake looks at is the answer to the request of that step,
\* although an answer may come after its wait has timed out: nobody waits again then.
ResponseMatchesRequest ==
    pc \in {"ready", "response"} =>
        CtrlResponseProcessing /\ CtrlResponseBuffer.about = service

\* "this is a fatal error, target should not be sending unsolicited messages": a target that
\* only answers never meets CtrlResponseProcessing set, although some returns leave it set.
NoFatalReceive == ~bug

\* Every service that was told it is connected keeps the endpoint it was given, whatever
\* endpoints the target assigns.
ServicesKeepEndpoints ==
    \A i \in 1..Len(Services) :
        i < service => Cardinality({e \in Endpoints : ServiceID[e] = Services[i]}) = 1

\* The credits the endpoints have, the k-th of endpoint e as <<e, k>>
Granted == UNION {{e} \X (1..TxCredits[e]) : e \in Endpoints}

\* HTCSetupTargetBufferAssignments shares out what the READY message offered: however the services
\* are connected, the endpoints never have more credits than that, and WMI ends up with all of them
\* if an entry of the allocation table, which has 8 bits where the offer has 16, can hold the number.
CreditsWithinOffer ==
    /\ Cardinality(Granted) <= TotalTransmitCredits
    /\ pc = "started" /\ ~epping =>
           \E e \in Endpoints : /\ ServiceID[e] = WMI_CONTROL_SVC
                                /\ TotalTransmitCredits < 2^8 => TxCredits[e] = TotalTransmitCredits

\* Every answer is heard: with a target that answers, the handshake comes to its end without
\* the help of the timeout, even when an answer arrives before the thread waits for it.
HandshakeEnds == <>(pc \in {"started", "failed"})
=============================================================================
