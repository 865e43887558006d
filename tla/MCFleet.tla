------------------------------ MODULE MCFleet ------------------------------
(* Instances of Fleet for TLC. *)
EXTENDS Fleet

TwoPorts == <<"ACM0", "ACM1">>

OneBoard  == {"A"}
TwoBoards == {"A", "B"}

UniqueSerials == [b \in Boards |-> IF b = "A" THEN "mac-A" ELSE "mac-B"]
BridgeIsBare  == [b \in Boards |-> IF b = "A" THEN "mac-A" ELSE NoSerial]
SameSerial    == [b \in Boards |-> "0001"]

NoAlias   == <<>>
PathAlias == << [name |-> "lab1", key |-> "ACM0"] >>
=============================================================================
