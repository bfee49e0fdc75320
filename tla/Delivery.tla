------------------------------ MODULE Delivery ------------------------------
(***************************************************************************)
(* What a broadcast promises its operator about each person on the list:   *)
(* one copy at most, and a report that settles once and tells the truth.   *)
(***************************************************************************)
CONSTANTS
    Person,
    Copy        \* the messages that may be minted for a person

VARIABLES
    received,   \* the copies that reached WhatsApp, by person
    report      \* "open", or what the operator is told in the end

Init ==
    /\ received = [t \in Person |-> {}]
    /\ report = [t \in Person |-> "open"]

\* Nobody who was closed, or who already has the message, is sent a copy. One
\* whose outcome was given up as unknown may still get the one on its way.
Deliver(t) ==
    /\ received[t] = {} /\ report[t] \in {"open", "unknown"}
    /\ \E c \in Copy : received' = [received EXCEPT ![t] = {c}]
    /\ UNCHANGED report

\* The ways a person's entry in the report may settle.
Confirmed(t) == received[t] # {} /\ report'[t] = "reached"
Closed(t) == received[t] = {} /\ report'[t] = "closed"
GivenUp(t) == report'[t] = "unknown"

\* One statement may settle several people at once (reconciliation, the sweep
\* of a finished campaign).
Settle ==
    /\ report' \in [Person -> {"open", "reached", "closed", "unknown"}]
    /\ \A t \in Person :
          \/ report'[t] = report[t]
          \/ report[t] = "open" /\ (Confirmed(t) \/ Closed(t) \/ GivenUp(t))
    /\ UNCHANGED received

Next == Settle \/ \E t \in Person : Deliver(t)

Spec == Init /\ [][Next]_<<received, report>>
=============================================================================
