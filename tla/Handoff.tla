------------------------------- MODULE Handoff -------------------------------
(***************************************************************************)
(* What the outbound queue promises to whoever submits a message, with     *)
(* nothing said of files, scans or sessions: a ledger of what is owed to   *)
(* each recipient of each message.  An entry is owed when the submission   *)
(* is acknowledged and settled when the recipient's host took a copy, a    *)
(* bounce named it or the admin deleted the message.  A debt is never      *)
(* forgotten, a settled entry is never reopened, and every debt is settled *)
(* in the end.                                                             *)
(***************************************************************************)
CONSTANTS Msg, Rcpt, To
VARIABLE ledger

Init == ledger = [m \in Msg |-> [r \in Rcpt |-> "none"]]

\* The submission is acknowledged; some recipients may be served by then.
Accept(m) ==
    /\ ledger[m] # [r \in Rcpt |-> "settled"]
    /\ ledger' = [ledger EXCEPT ![m] =
                    [r \in Rcpt |-> IF r \in To[m] /\ @[r] = "none"
                                    THEN "owed" ELSE @[r]]]

\* The recipients R of m are dealt with together.
Settle(m, R) ==
    /\ R # {}
    /\ \A r \in R : r \in To[m] /\ ledger[m][r] # "settled"
    /\ ledger' = [ledger EXCEPT ![m] =
                    [r \in Rcpt |-> IF r \in R THEN "settled" ELSE @[r]]]

Owed(m) == {r \in Rcpt : ledger[m][r] = "owed"}

SettleOwed(m) == \E R \in SUBSET To[m] : R \intersect Owed(m) # {} /\ Settle(m, R)

Next == \E m \in Msg : Accept(m) \/ \E R \in SUBSET To[m] : Settle(m, R)

Spec == Init /\ [][Next]_ledger

FairSpec == Spec /\ \A m \in Msg : WF_ledger(SettleOwed(m))
=============================================================================
