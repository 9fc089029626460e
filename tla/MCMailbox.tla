----------------------------- MODULE MCMailbox ------------------------------
(***************************************************************************)
(* Two threads, each an IMAP session or one web request after another, and *)
(* two messages: one is in the mailbox from the start, anywhere and with   *)
(* any flags, the other arrives.  Seen stands for \Flagged as well.        *)
(***************************************************************************)
EXTENDS Mailbox, TLC, SequencesExt

CONSTANTS t1, t2

MCUidOf == 1 :> 12 @@ 2 :> 11
MCFlagSets == {{}, {Deleted}}
MCRank == {} :> 0 @@ {Seen} :> 1 @@ {Seen, Deleted} :> 2 @@ {Deleted} :> 3
MCSymmetry == Permutations({t1, t2})

-----------------------------------------------------------------------------
(* What the client of an EXPUNGE is told. *)

Numbered(metas) == SetToSortSeq(metas, Before)

\* The numbers of the EXPUNGE responses: of the old listing, in ascending order.
ExpungeResponses(metas) ==
    LET list == Numbered(metas) IN
    SelectSeq([i \in 1 .. Len(list) |-> i], LAMBDA i : Deleted \in list[i].flags)

\* RFC 3501: each response removes a message and renumbers those behind it.
Apply(list, responses) ==
    FoldLeft(LAMBDA l, n : IF n <= Len(l) THEN RemoveAt(l, n) ELSE l, list, responses)

\* "EXPUNGE sequence numbers must be emitted high-to-low so remaining indices
\* stay valid" (imap.rs:848): after an EXPUNGE that found the messages it removed
\* gone and nothing else changed, the client numbers as the server does.
RemainingIndicesValid ==
    [][\A t \in Thread :
          /\ pc[t] = "cur" /\ cmd[t].name = "expunge" /\ pc'[t] = "ready"
          /\ snap'[t] = {meta \in snap[t] : Deleted \notin meta.flags}
          => Apply(Numbered(snap[t]), ExpungeResponses(snap[t])) = Numbered(snap'[t])]_vars
=============================================================================
