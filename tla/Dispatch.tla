------------------------------ MODULE Dispatch ------------------------------
(***************************************************************************)
(* What the pre-forked server promises about handing accepted connections  *)
(* to its workers, without saying how: one dispatcher holds at most one    *)
(* connection at a time, puts it into a FIFO mailbox one or more times,    *)
(* and releases it only together with a copy that is in the mailbox; each  *)
(* worker takes at most one copy, always the oldest.  HandOff implements   *)
(* this specification with the accept loop of start(), the retry loop      *)
(* around Sock_fd_write and the workers' recvmsg.                          *)
(***************************************************************************)
EXTENDS Naturals, Sequences

CONSTANTS
  Clients,  \* connections
  Workers,  \* worker processes
  NoClient  \* "no connection"

VARIABLES
  seen,     \* connections the dispatcher has accepted, in order
  inHand,   \* the connection the dispatcher is working on
  mailbox,  \* copies nobody has taken yet, oldest first
  owner,    \* the connection each worker has taken
  up        \* the dispatcher is running

vars == <<seen, inHand, mailbox, owner, up>>

Init ==
  /\ seen = <<>>
  /\ inHand = NoClient
  /\ mailbox = <<>>
  /\ owner = [w \in Workers |-> NoClient]
  /\ up = TRUE

Accept(c) ==
  /\ up /\ inHand = NoClient
  /\ \A k \in 1..Len(seen) : seen[k] # c
  /\ seen' = Append(seen, c)
  /\ inHand' = c
  /\ UNCHANGED <<mailbox, owner, up>>

\* A copy that may not be the last one of this connection.
Post ==
  /\ up /\ inHand # NoClient
  /\ mailbox' = Append(mailbox, inHand)
  /\ UNCHANGED <<seen, inHand, owner, up>>

\* The last copy: the connection leaves the dispatcher's hand with it.
PostAndRelease ==
  /\ up /\ inHand # NoClient
  /\ mailbox' = Append(mailbox, inHand)
  /\ inHand' = NoClient
  /\ UNCHANGED <<seen, owner, up>>

Take(w) ==
  /\ owner[w] = NoClient
  /\ mailbox # <<>>
  /\ owner' = [owner EXCEPT ![w] = Head(mailbox)]
  /\ mailbox' = Tail(mailbox)
  /\ UNCHANGED <<seen, inHand, up>>

\* The dispatcher stops; a connection in its hand is lost with it.
Stop ==
  /\ up
  /\ up' = FALSE
  /\ inHand' = NoClient
  /\ UNCHANGED <<seen, mailbox, owner>>

Next ==
  \/ \E c \in Clients : Accept(c)
  \/ Post
  \/ PostAndRelease
  \/ \E w \in Workers : Take(w)
  \/ Stop

Spec == Init /\ [][Next]_vars

=============================================================================
