----------------------------- MODULE MCTakeover -----------------------------
(* Instance for TLC. *)
EXTENDS Takeover

CONSTANTS n1, n2, s1, s2

\* A second process joins the first while the attached session's child lives, the
\* other session's spawn is still in flight, and no ACK has crossed the deadline.
SecondProcess ==
    npc[n2] # "off" => npc[n1] # "off" /\ child[s1] = "alive" /\ child[s2] = "none" /\ ~Crossed
=============================================================================
