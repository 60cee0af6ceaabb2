------------------------------- MODULE Inbox --------------------------------
(***************************************************************************)
(* What a transport of settlement messages promises, whatever it is made   *)
(* of: a message is let in at a node once, waits there, and is handed out  *)
(* once; it is neither lost in between nor handed out again.               *)
(***************************************************************************)
CONSTANTS Node, Msg

VARIABLES
    waiting,      \* of each node: let in and not yet handed out
    given         \* of each node: handed out

Init == waiting = [n \in Node |-> {}] /\ given = [n \in Node |-> {}]

LetIn(n, m) ==
    /\ m \notin waiting[n] \cup given[n]
    /\ waiting' = [waiting EXCEPT ![n] = @ \cup {m}]
    /\ UNCHANGED given

HandOut(n, S) ==
    /\ waiting' = [waiting EXCEPT ![n] = @ \ S]
    /\ given' = [given EXCEPT ![n] = @ \cup S]

Next ==
    \E n \in Node : \/ \E m \in Msg : LetIn(n, m)
                    \/ \E S \in SUBSET waiting[n] : HandOut(n, S)

Spec == Init /\ [][Next]_<<waiting, given>>
=============================================================================
