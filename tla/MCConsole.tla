----------------------------- MODULE MCConsole -----------------------------
(***************************************************************************)
(* JtagUart with the ways of using it that TLC tries: a program that       *)
(* prints, to a host that may leave; one that reads what is typed; and one *)
(* that does both, with a host that stays.                                 *)
(***************************************************************************)
EXTENDS JtagUart

Op(fn, nonblock, len) == [fn |-> fn, nonblock |-> nonblock, len |-> len]

Prints ==
  [calls |-> {Op("write", FALSE, 4), Op("close", FALSE, 0)},
   timeouts |-> {1}, writes |-> Labels, sends |-> 0, connected |-> FALSE]

Reads ==
  [calls |-> {Op("read", FALSE, 3), Op("read", TRUE, 1)},
   timeouts |-> {}, writes |-> 0, sends |-> 4, connected |-> FALSE]

Both ==
  [calls |-> {Op("write", TRUE, 2), Op("read", TRUE, 1), Op("close", TRUE, 0)},
   timeouts |-> {}, writes |-> 3, sends |-> 2, connected |-> TRUE]

SomeUses == {Prints, Reads, Both}
=============================================================================
