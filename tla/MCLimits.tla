------------------------------- MODULE MCLimits -------------------------------
(* A small instance of Limits: five connections from two addresses, one of    *)
(* them greedy; three sessions to guess a password or send mail, two of them  *)
(* from one address; two with the same triplet, or that store into a mailbox. *)
EXTENDS Limits, TLC

CONSTANTS c1, c2, c3, c4, c5, s1, s2, s3, m1, m2, near, far, lower, mixed

MCConn == {c1, c2, c3, c4, c5}
MCIpOf == [c \in MCConn |-> IF c \in {c1, c2, c3} THEN near ELSE far]
MCSession == {s1, s2, s3}
MCPeerOf  == [s \in MCSession |-> IF s = s3 THEN far ELSE near]
MCNameOf  == [s \in MCSession |-> IF s = s3 THEN mixed ELSE lower]
MCPair    == {s1, s2}
MCMessage == {m1, m2}
(* The first two sessions are alike, and so are the messages. *)
MCSymmetry == Permutations(MCPair) \union Permutations(MCMessage)

(* Of the mailbox, while it rests, one initial state is enough.               *)
MCInit == LimitsInit /\ (part = "quota" \/ qPlace = [m \in MCMessage |-> <<Inbox, "new">>])
(* Of the sessions that greylisting meets, two are under way at a time; its   *)
(* last clock value is for the long histories, in which nothing overlaps and  *)
(* nothing fails; a check of the quota is for a message left to store.        *)
MCGreyBusy == {s \in Grey!Client : gPc[s] # "idle"}
MCGreyLast == 5
MCSizeBusy == {s \in SizeSession : qPc[s] \in {"scan", "decide"}}
MCLeft     == {m \in MCMessage : qPlace[m] = Size!NoPlace}
MCNext ==
    /\ LimitsNext
    /\ Cardinality(MCGreyBusy') <= 2
    /\ gFaults' > 0 \/ gOverlap' => gClock' < MCGreyLast
    /\ part = "quota" => Cardinality(MCSizeBusy') <= Cardinality(MCLeft')
MCSpec == MCInit /\ [][MCNext]_<<part, vars, aVars, oVars, gVars, qVars>>
=============================================================================
