----------------------------- MODULE LogStream -----------------------------
(***************************************************************************)
(* What the server promises for one connection: the messages are taken in  *)
(* the order in which they were sent, each at most once, and each one that *)
(* is taken is stored or dropped.  The connection may end at any point.    *)
(***************************************************************************)
EXTENDS Integers, Sequences

CONSTANT Messages   \* how many messages the client has to send

VARIABLES
  next,     \* the number of the next message
  stored,   \* the messages that are in the log, in order
  open      \* the connection is there

Init ==
  /\ next = 1
  /\ stored = <<>>
  /\ open = TRUE

Take ==
  /\ open
  /\ next <= Messages
  /\ next' = next + 1
  /\ stored' \in {stored, Append(stored, next)}
  /\ UNCHANGED open

Close ==
  /\ open
  /\ open' = FALSE
  /\ UNCHANGED <<next, stored>>

Next == Take \/ Close

Spec == Init /\ [][Next]_<<next, stored, open>>
=============================================================================
