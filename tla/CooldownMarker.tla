--------------------------- MODULE CooldownMarker ---------------------------
(* What pkg/cooldown promises: one marker, in force until its time is over,  *)
(* and answers that were true at some time while the question was open.      *)
(* One answer is weaker: of a marker that was replaced while a node asked    *)
(* about it, the node may hear that there is none.                           *)

CONSTANTS Node, NoNode

VARIABLES
  marker,   \* the node whose reboot the cooldown in force follows
  pending,  \* for each node that asks, what it may be told; {} for the others
  answer    \* what each node was told last

vars == <<marker, pending, answer>>

Init ==
  /\ marker = NoNode
  /\ pending = [n \in Node |-> {}]
  /\ answer = [n \in Node |-> NoNode]

Becomes(m) ==
  /\ marker' = m
  /\ pending' = [n \in Node |->
                   IF pending[n] = {} THEN {} ELSE pending[n] \cup {m, NoNode}]
  /\ UNCHANGED answer

Start(n) == Becomes(n)

End == marker # NoNode /\ Becomes(NoNode)

Ask(n) ==
  /\ pending[n] = {}
  /\ pending' = [pending EXCEPT ![n] = {marker}]
  /\ UNCHANGED <<marker, answer>>

Answer(n) ==
  /\ \E m \in pending[n] : answer' = [answer EXCEPT ![n] = m]
  /\ pending' = [pending EXCEPT ![n] = {}]
  /\ UNCHANGED marker

(* The question fails, or the node that asked dies.                          *)
GiveUp(n) ==
  /\ pending' = [pending EXCEPT ![n] = {}]
  /\ UNCHANGED <<marker, answer>>

Next == End \/ \E n \in Node : Start(n) \/ Ask(n) \/ Answer(n) \/ GiveUp(n)

Spec == Init /\ [][Next]_vars
=============================================================================
