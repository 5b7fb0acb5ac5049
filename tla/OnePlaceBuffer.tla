--------------------------- MODULE OnePlaceBuffer ---------------------------
(***************************************************************************)
(* What the channel of System.Concurrency promises: a buffer with room for *)
(* one value.  A put takes effect once, at one moment between its call and *)
(* its return, when the buffer is empty; a get takes the value out again,  *)
(* and values leave in the order in which they came.                       *)
(***************************************************************************)
EXTENDS Sequences

CONSTANTS Client, Item

VARIABLES pending,  \* the put each client has called and that waits: <<v>> or <<>>
          box,      \* the value in the buffer: <<v>> or <<>>
          in, out   \* everything put into and taken out of the buffer, in order

bvars == <<pending, box, in, out>>

BInit == /\ pending = [c \in Client |-> <<>>]
         /\ box = <<>> /\ in = <<>> /\ out = <<>>

CallPut(c, v) == /\ pending[c] = <<>>
                 /\ pending' = [pending EXCEPT ![c] = <<v>>]
                 /\ UNCHANGED <<box, in, out>>

Put(c) == /\ pending[c] # <<>> /\ box = <<>>
          /\ box' = pending[c]
          /\ in' = in \o pending[c]
          /\ pending' = [pending EXCEPT ![c] = <<>>]
          /\ UNCHANGED out

Get == /\ box # <<>>
       /\ out' = out \o box
       /\ box' = <<>>
       /\ UNCHANGED <<pending, in>>

BNext == Get \/ \E c \in Client : Put(c) \/ \E v \in Item : CallPut(c, v)

BSpec == BInit /\ [][BNext]_bvars
=============================================================================
