---------------------------- MODULE Subscriptions ----------------------------
(***************************************************************************)
(* What the storage layer promises of subscriptions: each one holds the    *)
(* set of nodes of its last accepted payload, a payload is taken in one    *)
(* step or not at all, a payload without nodes is taken only for a caller  *)
(* who allows it, and the catalog is what the subscriptions hold together. *)
(***************************************************************************)
CONSTANTS
  Sub,       \* subscription ids
  Node       \* functional identities

VARIABLES
  content,   \* per subscription: its nodes
  catalog,   \* the nodes kept
  allowed    \* subscriptions a refresh with allow_empty is under way for

vars == <<content, catalog, allowed>>

Held(c) == UNION {c[s] : s \in DOMAIN c}

Init ==
  /\ DOMAIN content \subseteq Sub
  /\ \A s \in DOMAIN content : content[s] \subseteq Node
  /\ catalog = Held(content)
  /\ allowed = {}

\* A payload replaces the nodes of one subscription, new or known.
Replace(s, nodes) ==
  /\ content' = [t \in DOMAIN content \cup {s} |-> IF t = s THEN nodes ELSE content[t]]
  /\ catalog' = Held(content')

\* Refreshes begin and end.
Call == allowed' \in SUBSET Sub /\ UNCHANGED <<content, catalog>>

Next ==
  \/ Call
  \/ \E s \in Sub, nodes \in SUBSET Node :
       /\ nodes # {} \/ s \in allowed
       /\ Replace(s, nodes) /\ allowed' \in SUBSET Sub
Spec == Init /\ [][Next]_vars
=============================================================================
