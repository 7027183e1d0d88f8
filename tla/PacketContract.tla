--------------------------- MODULE PacketContract ---------------------------
(***************************************************************************)
(* What HTC promises the clients of an endpoint: a packet it was handed is *)
(* either transferred to the target or given up, never both.  The packets  *)
(* go out one by one and each once; a transferred packet is given back     *)
(* with success, in the order of the transfers and not before the target   *)
(* has it; a packet that is given up was never sent.  No packet is given   *)
(* back twice.                                                             *)
(***************************************************************************)
EXTENDS Naturals, Sequences

CONSTANTS
    Offers,      \* the packets that clients may hand over
    Reasons      \* the verdicts on a packet that was given up

VARIABLES
    accepted,    \* packets handed over
    sent,        \* the transfers, in their order
    transferred, \* how many of them the target has
    verdict      \* what the client was told of each packet, "none" before

contractVars == <<accepted, sent, transferred, verdict>>

\* a packet that may still become either
Open(p) == p \in accepted /\ verdict[p] = "none" /\ \A i \in DOMAIN sent : sent[i] # p

ContractInit ==
    accepted = {} /\ sent = <<>> /\ transferred = 0 /\ verdict = [p \in Offers |-> "none"]

Hand(p) ==
    /\ p \notin accepted /\ accepted' = accepted \cup {p}
    /\ UNCHANGED <<sent, transferred, verdict>>

Send(p) ==
    /\ Open(p) /\ sent' = Append(sent, p)
    /\ UNCHANGED <<accepted, transferred, verdict>>

Transfer ==
    /\ transferred < Len(sent) /\ transferred' = transferred + 1
    /\ UNCHANGED <<accepted, sent, verdict>>

\* the oldest transfer that its client does not know of
GiveBack(i) ==
    /\ verdict[sent[i]] = "none" /\ \A j \in 1 .. i - 1 : verdict[sent[j]] = "ok"
    /\ verdict' = [verdict EXCEPT ![sent[i]] = "ok"]
    /\ UNCHANGED <<accepted, sent, transferred>>

\* a flush gives up several packets at once
GiveUp(P, reason) ==
    /\ \A p \in P : Open(p)
    /\ verdict' = [p \in Offers |-> IF p \in P THEN reason ELSE verdict[p]]
    /\ UNCHANGED <<accepted, sent, transferred>>

ContractNext ==
    \/ \E p \in Offers : Hand(p) \/ Send(p)
    \/ Transfer
    \/ \E i \in 1 .. transferred : GiveBack(i)
    \/ \E P \in SUBSET Offers, reason \in Reasons : GiveUp(P, reason)

ContractSpec == ContractInit /\ [][ContractNext]_contractVars
=============================================================================
