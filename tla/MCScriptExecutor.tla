-------------------------- MODULE MCScriptExecutor --------------------------
(***************************************************************************)
(* Instances of ScriptExecutor for TLC: every call is for one id.          *)
(***************************************************************************)
EXTENDS ScriptExecutor, Naturals, FiniteSets, TLC

CONSTANT Id

OneId == {Id}
SameId == [x \in Runs \cup Cancels |-> Id]

\* No action tells two calls of Execute apart.  Used only without fairness.
RunSymmetry == Permutations(Runs)

\* At most MaxCalls calls are made, of Execute or of Cancel: a redelivered
\* Execute and a stop, or an Execute and two stops.
MaxCalls == 3

Calls == Cardinality({r \in Runs : run[r].pc # "idle"})
            + Cardinality({c \in Cancels : stop[c].pc # "idle"})

FewCalls == Init /\ [][Next /\ Calls' <= MaxCalls]_vars /\ Fairness
=============================================================================
