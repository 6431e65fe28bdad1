-------------------------- MODULE MCActionIntents --------------------------
(***************************************************************************)
(* Instances of ActionIntents for TLC.                                     *)
(***************************************************************************)
EXTENDS ActionIntents, TLC

\* No action tells two approvers, or two workers, apart.  Used only without
\* fairness.
PeerSymmetry == Permutations(Approvers) \cup Permutations(Workers)

\* What has been rung, which no action reads: states that differ only in it are
\* one.  For the run none of whose properties is about notifications.
ReleaseView == <<intent, rows, op, box, serves, rel, calls, lost, late>>

\* An approval is served twice, a creation once, bells not at all.
ReleaseServes == [e \in Events |-> CASE e = "approved" -> 2
                                     [] e = "created" -> 1 [] OTHER -> 0]
\* Every event is served, once or an approval twice.
EachOnce == [e \in Events |-> 1]
ApprovalTwice == [EachOnce EXCEPT !["approved"] = 2]
=============================================================================
