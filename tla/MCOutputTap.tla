----------------------------- MODULE MCOutputTap ----------------------------
(***************************************************************************)
(* Scenarios: the marks of a command around a bell, an OSC that is no mark *)
(* and ends in BEL with another escape sequence and an end mark without a  *)
(* start, and text at intervals, each without subscribers; bells and other *)
(* sessions' events before subscribers; and text with a log, more than the *)
(* ring holds.                                                             *)
(***************************************************************************)
EXTENDS OutputTap

Scenario(s, l, cs, time, other, takeovers) ==
    [script |-> s, logged |-> l, conns |-> cs, maxTime |-> time, maxOther |-> other,
     maxHandovers |-> takeovers]

MCScenarios ==
    {Scenario(<<"cstart", "bell", "cend", "text", "text">>, FALSE, {}, 0, 0, 1),
     Scenario(<<"title", "csi", "cend">>, FALSE, {}, 1, 0, 1),
     Scenario(<<"text", "bell", "text">>, FALSE, {}, 4, 0, 1),
     Scenario(<<"bell", "bell", "bell", "bell">>, FALSE, Conns, 0, 2, 1),
     Scenario(<<"text", "text", "text", "text", "text", "text", "text">>, TRUE, {}, 0, 0, 1)}
=============================================================================
