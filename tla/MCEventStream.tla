---------------------------- MODULE MCEventStream ----------------------------
(* An instance of EventStream for TLC.                                     *)
EXTENDS EventStreamInv

NoFile(kind) == [kind |-> kind, lines |-> <<>>]
File(lines)  == [kind |-> "file", lines |-> lines]

SomeLogs ==
  {NoFile("missing"), NoFile("unreadable"), File(<<"text", "blank", "text", "text">>),
   File(<<"text", "text", "long">>)}
SomeMetrics == {NoFile("missing"), File(<<"text">>), File(<<"text", "long", "text">>)}
=============================================================================
