--------------------------- MODULE CommandPromise ---------------------------
(***************************************************************************)
(* What the command queue promises about each command, whatever transport, *)
(* timeout or crash is involved.  A command waits or is in flight; it may  *)
(* get a provisional outcome (a server-side timeout, a queue admission)    *)
(* that every reader sees but one real result may still replace; and it    *)
(* settles on a final outcome that never changes.  Only a command that is  *)
(* idempotent by design may start over.                                    *)
(*                                                                         *)
(* One poll claims and cancels several commands in one transaction, so a   *)
(* step moves every command, each by a move of its own or not at all.      *)
(***************************************************************************)
CONSTANTS
    Command,        \* command ids
    Repeatable,     \* commands that may start over
    Final           \* final outcomes

VARIABLES
    phase,          \* where each command is
    outcome         \* its final outcome, once settled

promise == <<phase, outcome>>

Open == {"waiting", "inflight"}
NoOutcome == "none"

Init ==
    /\ phase = [c \in Command |-> "absent"]
    /\ outcome = [c \in Command |-> NoOutcome]

Stay(c) == phase'[c] = phase[c] /\ outcome'[c] = outcome[c]

Submit(c) == phase[c] = "absent" /\ phase'[c] = "waiting" /\ outcome'[c] = NoOutcome

\* Claimed for delivery, or put back after a failed one.
Handle(c) == phase[c] \in Open /\ phase'[c] \in Open /\ outcome'[c] = NoOutcome

Provide(c) ==
    phase[c] \in Open /\ phase'[c] = "provisional" /\ outcome'[c] = NoOutcome

Settle(c) ==
    /\ phase[c] \in Open \cup {"provisional"}
    /\ phase'[c] = "settled"
    /\ outcome'[c] \in Final

Restart(c) ==
    /\ c \in Repeatable
    /\ phase[c] # "absent" /\ phase'[c] = "waiting" /\ outcome'[c] = NoOutcome

Next ==
    \A c \in Command :
        \/ Stay(c) \/ Submit(c) \/ Handle(c)
        \/ Provide(c) \/ Settle(c) \/ Restart(c)

Spec == Init /\ [][Next]_promise
=============================================================================
