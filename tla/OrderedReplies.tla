----------------------------- MODULE OrderedReplies -----------------------------
(***************************************************************************)
(* What a client of the named pipe may rely on, whatever the server does   *)
(* inside: the lines the server accepted on a connection are answered one  *)
(* by one in the order they were sent, each at most once and none skipped, *)
(* and nothing follows the frame that reports why the connection ends.     *)
(***************************************************************************)
EXTENDS Naturals, Sequences

CONSTANT Conn

Terminal == 0      \* the frame that ends a connection; line n is answered by n

VARIABLES
    accepted,      \* accepted[c]: how many lines the server took
    replies        \* replies[c]: the frames sent to the client, in order

vars == <<accepted, replies>>

Ended(c) == replies[c] # <<>> /\ replies[c][Len(replies[c])] = Terminal

Init ==
    /\ accepted = [c \in Conn |-> 0]
    /\ replies = [c \in Conn |-> <<>>]

Accept(c) ==
    /\ ~Ended(c)
    /\ accepted' \in [Conn -> Nat]
    /\ accepted'[c] > accepted[c]
    /\ \A d \in Conn \ {c} : accepted'[d] = accepted[d]
    /\ UNCHANGED replies

Reply(c) ==
    /\ ~Ended(c)
    /\ Len(replies[c]) < accepted[c]
    /\ replies' = [replies EXCEPT ![c] = Append(@, Len(@) + 1)]
    /\ UNCHANGED accepted

Fail(c) ==
    /\ ~Ended(c)
    /\ replies' = [replies EXCEPT ![c] = Append(@, Terminal)]
    /\ UNCHANGED accepted

Next == \E c \in Conn : Accept(c) \/ Reply(c) \/ Fail(c)

Spec == Init /\ [][Next]_vars
=============================================================================
