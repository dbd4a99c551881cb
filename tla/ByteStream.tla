----------------------------- MODULE ByteStream -----------------------------
(***************************************************************************)
(* What the console promises a program: two queues of bytes.  A write puts *)
(* the first of its bytes in the one, piece by piece, and returns how      *)
(* many; a read takes bytes from the other and returns them.  A call that  *)
(* moved nothing reports an error.  Nothing is lost, repeated or           *)
(* reordered, whatever interrupts, the host and its absence do.  Module    *)
(* JtagUart is shown to implement it.                                      *)
(***************************************************************************)
EXTENDS Integers, Sequences

CONSTANTS Labels,    \* bytes are numbered, modulo Labels
          Capacity,  \* bytes that can be on the way in one direction
          Counts     \* lengths a program asks for

VARIABLES out,       \* bytes written that the host has not taken
          in,        \* bytes sent by the host that were not read
          written,   \* number of the next byte to be written
          sent,      \* number of the next byte the host sends
          call,      \* the call in progress: its function, mode and length
          moved,     \* bytes it has moved
          data,      \* the bytes a read has got
          ret        \* what the last call returned

vars == <<out, in, written, sent, call, moved, data, ret>>

NoCall == [fn |-> "none", nonblock |-> FALSE, len |-> 0]
Call == [fn : {"write", "read", "close"}, nonblock : BOOLEAN, len : Counts]

\* n bytes, numbered from k on.
Run(k, n) == [i \in 1..n |-> (k + i - 1) % Labels]

\* Results, as the C functions return them.
EIO == -5
EWOULDBLOCK == -11

Init ==
  /\ out = <<>> /\ in = <<>> /\ written = 0 /\ sent = 0
  /\ call = NoCall /\ moved = 0 /\ data = <<>> /\ ret = 0

Begin ==
  /\ call = NoCall /\ call' \in Call /\ ret' = 0
  /\ UNCHANGED <<out, in, written, sent, moved, data>>

Put ==
  /\ call.fn = "write"
  /\ \E n \in 1..(call.len - moved) :
       /\ Len(out) + n <= Capacity
       /\ out' = out \o Run(written, n)
       /\ written' = (written + n) % Labels /\ moved' = moved + n
  /\ UNCHANGED <<in, sent, call, data, ret>>

Get ==
  /\ call.fn = "read"
  /\ \E n \in 1..(call.len - moved) :
       /\ n <= Len(in)
       /\ data' = data \o SubSeq(in, 1, n)
       /\ in' = SubSeq(in, n + 1, Len(in)) /\ moved' = moved + n
  /\ UNCHANGED <<out, written, sent, call, ret>>

Result ==
  IF call.fn = "close" THEN {0} \cup (IF call.nonblock THEN {EWOULDBLOCK} ELSE {})
  ELSE IF moved > 0 THEN {moved}
  ELSE IF call.nonblock THEN {EWOULDBLOCK} ELSE {EIO}

Return ==
  /\ call # NoCall /\ call' = NoCall /\ ret' \in Result
  /\ moved' = 0 /\ data' = <<>> /\ UNCHANGED <<out, in, written, sent>>

HostTakes ==
  /\ out # <<>> /\ out' = Tail(out)
  /\ UNCHANGED <<in, written, sent, call, moved, data, ret>>

HostSends ==
  /\ Len(in) < Capacity
  /\ in' = Append(in, sent) /\ sent' = (sent + 1) % Labels
  /\ UNCHANGED <<out, written, call, moved, data, ret>>

Next == Begin \/ Put \/ Get \/ Return \/ HostTakes \/ HostSends

Spec == Init /\ [][Next]_vars
=============================================================================
