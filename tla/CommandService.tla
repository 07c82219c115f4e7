--------------------------- MODULE CommandService ---------------------------
(***************************************************************************)
(* What a serial port promises to whoever enqueues commands for it: the    *)
(* commands of st3215/tx are taken up one at a time in queue order, each   *)
(* is answered in st3215/rx with one Command envelope and one result, and  *)
(* this goes on until the port closes, after which nothing is answered.    *)
(***************************************************************************)
EXTENDS Integers, Sequences

ResultSignals == {"success", "rejected", "failed"}

VARIABLES
    accepted,  \* how many commands were enqueued for the port
    rx,        \* the answers, oldest first
    open       \* the port is in operation

vars == <<accepted, rx, open>>

Init == accepted = 0 /\ rx = <<>> /\ open = TRUE

Accept == accepted' = accepted + 1 /\ UNCHANGED <<rx, open>>

Begin ==
    /\ open
    /\ \E k \in 1 .. accepted :
        /\ Len(rx) = 2 * k - 2
        /\ rx' = Append(rx, [cmd |-> k, signal |-> "command"])
    /\ UNCHANGED <<accepted, open>>

(* The last answer of a port may be the one that tells why it closes.      *)
Answer ==
    /\ open
    /\ \E k \in 1 .. accepted, signal \in ResultSignals :
        /\ Len(rx) = 2 * k - 1
        /\ rx' = Append(rx, [cmd |-> k, signal |-> signal])
    /\ open' \in BOOLEAN
    /\ UNCHANGED accepted

Close == open /\ open' = FALSE /\ UNCHANGED <<accepted, rx>>

Next == Accept \/ Begin \/ Answer \/ Close

Spec == Init /\ [][Next]_vars

(* A port that stays open gets to every command.                           *)
LiveSpec == Spec /\ WF_vars(Begin) /\ WF_vars(Answer)

=============================================================================
