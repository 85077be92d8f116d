---- MODULE MCDns ----
EXTENDS Dns
Pol == [d1 |-> "none", d2 |-> "b1"]
Ho == [d1 |-> {}, d2 |-> {"A"}]
Spec == Init /\ [][Next]_vars /\ \A q \in Queries : WF_vars(Step(q))
QueryEnds == \A q \in Queries : <>(at[q]="done")
====
