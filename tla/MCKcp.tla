------------------------------- MODULE MCKcp -------------------------------
(* Two ends, one of which sends.                                            *)
EXTENDS KcpChannel

CONSTANTS a, b

MCEnd == {a, b}
MCOther == [e \in MCEnd |-> IF e = a THEN b ELSE a]
MCSizes == [s \in BOOLEAN |->
               [e \in MCEnd |-> CASE e = b -> <<>>
                                  [] e = a /\ s -> <<1, 2, 6>>
                                  [] e = a /\ ~s -> <<3, 1>>]]
MCMaxProbes == [e \in MCEnd |-> IF e = a THEN 1 ELSE 0]
=============================================================================
