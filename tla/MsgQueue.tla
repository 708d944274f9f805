------------------------------ MODULE MsgQueue ------------------------------
(***************************************************************************)
(* What a message queue promises: messages are delivered once, unchanged   *)
(* and in the order in which they were put, urgent ones first.  A message  *)
(* occupies one of the Capacity places from the moment a sender reserves   *)
(* it until a receiver has copied it out, so putting and taking a message  *)
(* are separate from preparing and delivering it.                          *)
(***************************************************************************)
EXTENDS Naturals, Sequences, FiniteSets

CONSTANTS Client, Msg, NoMsg, Capacity

VARIABLES
  queue,  \* the messages that have been put, first one first
  put,    \* what a client has reserved a place for
  hand    \* the message a client has taken and not yet delivered

vars == <<queue, put, hand>>

Init ==
  /\ queue = <<>>
  /\ put = [c \in Client |-> "none"]
  /\ hand = [c \in Client |-> NoMsg]

Used ==
  Len(queue) + Cardinality({c \in Client : put[c] # "none"})
             + Cardinality({c \in Client : hand[c] # NoMsg})

\* A place is reserved for an ordinary or an urgent message.
Reserve(c, kind) ==
  /\ put[c] = "none" /\ hand[c] = NoMsg /\ Used < Capacity
  /\ put' = [put EXCEPT ![c] = kind]
  /\ UNCHANGED <<queue, hand>>

Put(c, m) ==
  /\ put[c] # "none"
  /\ queue' = IF put[c] = "urgent" THEN <<m>> \o queue ELSE Append(queue, m)
  /\ put' = [put EXCEPT ![c] = "none"]
  /\ UNCHANGED hand

\* An interrupt handler reserves and puts at once.
Post(m) ==
  /\ Used < Capacity
  /\ queue' = Append(queue, m)
  /\ UNCHANGED <<put, hand>>

Take(c) ==
  /\ queue # <<>> /\ put[c] = "none" /\ hand[c] = NoMsg
  /\ hand' = [hand EXCEPT ![c] = Head(queue)]
  /\ queue' = Tail(queue)
  /\ UNCHANGED put

Deliver(c) ==
  /\ hand[c] # NoMsg
  /\ hand' = [hand EXCEPT ![c] = NoMsg]
  /\ UNCHANGED <<queue, put>>

Clear == queue' = <<>> /\ UNCHANGED <<put, hand>>

Next ==
  \/ Clear
  \/ \E m \in Msg : Post(m)
  \/ \E c \in Client :
       \/ \E kind \in {"send", "urgent"} : Reserve(c, kind)
       \/ \E m \in Msg : Put(c, m)
       \/ Take(c) \/ Deliver(c)

Spec == Init /\ [][Next]_vars
=============================================================================
