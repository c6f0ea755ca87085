---------------------------- MODULE MessageDelivery ----------------------------
(***************************************************************************)
(* What the durable outbox promises of every message (the head of          *)
(* app/runtime/outbox_relay.py and the operator calls of the store): an    *)
(* accepted message is never lost; it counts as delivered only when its    *)
(* effect is durable, and then for good; a message given up is kept, and   *)
(* only an operator brings it back.  Module OutboxRelay implements this.   *)
(***************************************************************************)
CONSTANT Messages

VARIABLES fate,      \* message -> "absent", "pending", "delivered" or "dead"
          effects    \* the messages whose effect is durable

Init == /\ fate = [m \in Messages |-> "absent"]
        /\ effects = {}

Become(m, old, new) == /\ fate[m] = old
                       /\ fate' = [fate EXCEPT ![m] = new]
                       /\ UNCHANGED effects

Accept(m) == Become(m, "absent", "pending")

\* At least once: the effect may be repeated, also by a relay that is late.
TakeEffect(m) == /\ fate[m] # "absent"
                 /\ effects' = effects \cup {m}
                 /\ UNCHANGED fate

Deliver(m) == m \in effects /\ Become(m, "pending", "delivered")

GiveUp(m) == Become(m, "pending", "dead")

BringBack(S) == /\ \A m \in S : fate[m] = "dead"
                /\ fate' = [m \in Messages |-> IF m \in S THEN "pending" ELSE fate[m]]
                /\ UNCHANGED effects

Next == \/ \E m \in Messages : Accept(m) \/ TakeEffect(m) \/ Deliver(m) \/ GiveUp(m)
        \/ \E S \in SUBSET Messages : BringBack(S)

Spec == Init /\ [][Next]_<<fate, effects>>
=============================================================================
