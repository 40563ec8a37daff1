----------------------------- MODULE MCSelection -----------------------------
(* Catalogs for TLC: labels all different, and two nodes of the same name.  *)
EXTENDS Selection

Answer(event, ms) == [event |-> event, ms |-> ms]
Tcp(name, answers) == [udp |-> FALSE, name |-> name, answers |-> answers]
Udp(name, answers) == [udp |-> TRUE, name |-> name, answers |-> answers]

\* Fast, dead at both addresses, alive at the second and third, silent, with an
\* IPv6 address only, unresolvable.
SixTargets ==
  { Tcp(FALSE, <<Answer("answers", 40)>>),
    Tcp(TRUE, <<Answer("refuses", 0), Answer("silent", 0)>>),
    Udp(TRUE, <<Answer("unsent", 0), Answer("answers", 250), Answer("answers", 40)>>),
    Udp(TRUE, <<Answer("fails", 0), Answer("unsent", 0), Answer("refuses", 0)>>),
    Udp(FALSE, <<Answer("unsent", 0)>>),
    Udp(TRUE, <<>>) }

Unique  == <<"a", "b", "c">>
Doubled == <<"a", "a", "b">>
=============================================================================
