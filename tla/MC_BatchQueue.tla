---------------------------- MODULE MC_BatchQueue ----------------------------
(***************************************************************************)
(* Two instances of BatchQueue for TLC in one run: one job that two        *)
(* consumers claim through every failure, and two keys with two bodies     *)
(* through a failed append and its restart.  Each has bounds of its own.   *)
(***************************************************************************)
EXTENDS BatchQueue

CONSTANTS k1, k2, b1, b2, b3, c1, c2

VARIABLE study

\* The first body may be delivered twice, the others once.
MCLimit == [b \in Body |-> IF b = b1 THEN 2 ELSE 1]

Bounds(key, body, consumer, failure, crash) ==
    [keys |-> key, bodies |-> body, consumers |-> consumer,
     failures |-> failure, crashes |-> crash]
Limits == [recovery |-> Bounds({k1}, {b1}, {c1, c2}, 2, 1),
           keys     |-> Bounds({k1, k2}, {b2, b3}, {c1}, 1, 0)]

\* Of two keys the second is used with one body only, and nothing is read.
Within ==
    LET limit == Limits[study]
    IN  /\ failures' <= limit.failures
        /\ powerLosses' <= limit.crashes /\ restarts' <= limit.crashes
        /\ study = "keys" => op'.kind # "read"
        /\ op'.lease.consumer \in limit.consumers \cup {Nobody}
        /\ \A j \in DOMAIN file'.jobs : /\ file'.jobs[j].key \in limit.keys
                                        /\ file'.jobs[j].body \in limit.bodies
                                        /\ file'.jobs[j].key = k2 => file'.jobs[j].body = b2

Studied(A) == A /\ Within /\ UNCHANGED study

MCInit == Init /\ study \in DOMAIN Limits

\* The fairness of BatchQueue's FairSpec.
MCSpec ==
    /\ MCInit /\ [][Studied(Next)]_<<vars, study>>
    /\ WF_<<vars, study>>(Studied(RefreshExpiredClaim)) /\ WF_<<vars, study>>(Studied(Claim))
    /\ WF_<<vars, study>>(Studied(Acknowledge)) /\ WF_<<vars, study>>(Studied(Fail))
    /\ WF_<<vars, study>>(Studied(Finish))
    /\ WF_<<vars, study>>(Studied(poisoned /\ Restart))
    /\ WF_<<vars, study>>(Studied(Tick))
    /\ SF_<<vars, study>>(Studied(\E c \in Consumer :
            Begin("claim", clock, [NoLease EXCEPT !.consumer = c])))
=============================================================================
