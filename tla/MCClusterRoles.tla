--------------------------- MODULE MCClusterRoles ---------------------------
(* The hot-standby pair on small periods.  The periods keep the order of   *)
(* the code's: an identifier goes out well within the cut-over time, and   *)
(* the waits of the take-over are short beside it.                         *)
EXTENDS ClusterRoles

\* The longest wait without an active gateway.  The standby alone, met when the
\* primary dies just as the standby returns to Startup to refresh its tables:
\* the cut-over time, then every answer or the database waited for in vain,
\* then the take-over itself.
AloneLimit ==
  hotcutovertime + 5 + TakeOverWaitTime
    + Largest({ResponseTime + 3, (CredentialFailMax + 1) * (CredentialTimeout + 4),
               Largest({RetryDbxTime, 1}) + 8
                 + (IF RouteTableAllocated THEN RebuildTime + 2 ELSE 0)})

\* The primary with or without the standby, for each cut of the connection: the
\* primary's own time-out, or what it takes to hear of each other.
PairLimit == RejectTime + 2 * (ClusterInterval + 1 + MaxDelay) + MaxDelay + 5

\* With the code's periods 173 seconds alone, 147 for a cut and as many more.
DarkLimit == Largest({AloneLimit, (MaxCuts + 1) * PairLimit})

\* The longest split: every cut and every crash can lose one identifier of the
\* primary; the standby reads what it hears in the next pass, acts on it in the
\* pass after that and waits HandoverDelay before it yields.  With the code's
\* periods it is 24 seconds when no identifier is lost.
BothLimit ==
  (MaxCuts + MaxCrashes + 1) * (ClusterInterval + 1 + MaxDelay) + HandoverDelay + 3

=============================================================================
