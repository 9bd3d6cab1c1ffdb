---------------------------- MODULE MC_Identity ----------------------------
(* Instances for TLC of what a control node is known by and whom it believes: *)
(* the bundles it signs and serves with, the trust policies it follows and   *)
(* the signed requests it admits.  They abstract from each other: `focus'    *)
(* says which of them runs, and the others rest in an initial state, so that *)
(* their state spaces add up and do not multiply.                            *)
EXTENDS WatchedBundles, ServiceRequests, TrustReceiver

CONSTANTS c1, c2, q1, q2, k1, h1, h2, r1, x1

VARIABLE focus

allVars == <<vars, requestVars, receiverVars, focus>>

\* The parts that rest: one initial state of each.
HandoffRests == kind = "gateway" /\ active.credential = c1
RequestsRest == trust_mode.expires_at = 1
ReceiversRest == mode = "remote"

MCInit ==
    /\ focus \in {"handoff", "requests", "receivers"}
    /\ Init /\ RequestsInit /\ ReceiverInit
    /\ focus # "handoff" => HandoffRests
    /\ focus # "requests" => RequestsRest
    /\ focus # "receivers" => ReceiversRest

Handoff(A) == focus = "handoff" /\ A /\ UNCHANGED <<requestVars, receiverVars, focus>>
Requests(A) == focus = "requests" /\ A /\ UNCHANGED <<vars, receiverVars, focus>>
Receiving(A) == focus = "receivers" /\ A /\ UNCHANGED <<vars, requestVars, focus>>

MCNext == Handoff(Next) \/ Requests(RequestsNext) \/ Receiving(ReceiverNext)

\* The fairness of WatchedBundles's FairSpec and of ReceiverFairSpec; the
\* requests have safety only.
MCSpec ==
    /\ MCInit /\ [][MCNext]_allVars
    /\ WF_allVars(Handoff(BundleWatcherStep))
    /\ WF_allVars(Handoff(ActivatePolicy))
    /\ WF_allVars(Handoff(Tick))
    /\ \A r \in Expected : WF_allVars(Receiving(WatcherStep(r)))
    /\ WF_allVars(Receiving(\E e \in mail : DeliverReceipt(e)))
=============================================================================
