------------------------------- MODULE Acceptor -------------------------------
(***************************************************************************)
(* What an srfc_listener promises its clients: one that connects while the *)
(* listener is bound waits; it is accepted and then handed to the          *)
(* application, once; it is refused only when the listener shuts down      *)
(* before it was accepted.  It may give up while it waits.                 *)
(***************************************************************************)
CONSTANT Clients

VARIABLES open,   \* the listener is bound
          state   \* state[c]: "away", "waiting", "accepted", "served",
                \* "refused", "aborted"

Init == open = FALSE /\ state = [c \in Clients |-> "away"]

Move(c, from, to) == state[c] = from /\ state' = [state EXCEPT ![c] = to]

Bind == ~open /\ open' = TRUE /\ UNCHANGED state

Connect(c) == open /\ Move(c, "away", "waiting") /\ UNCHANGED open

Accept(c) == open /\ Move(c, "waiting", "accepted") /\ UNCHANGED open

Abort(c) == Move(c, "waiting", "aborted") /\ UNCHANGED open

Serve(c) == Move(c, "accepted", "served") /\ UNCHANGED open

Close == /\ open /\ open' = FALSE
         /\ state' = [c \in Clients |-> IF state[c] = "waiting" THEN "refused" ELSE state[c]]

Next == \/ Bind \/ Close
        \/ \E c \in Clients : Connect(c) \/ Accept(c) \/ Abort(c) \/ Serve(c)

Spec == Init /\ [][Next]_<<open, state>>
=============================================================================
