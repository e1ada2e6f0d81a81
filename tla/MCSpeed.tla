------------------------------- MODULE MCSpeed -------------------------------
(* Drives of up to 12 bytes, in integers that hold 31 and with a Kilo of 4. *)
EXTENDS Speed

Text(n, suffix) == [digits |-> "number", n |-> n, suffix |-> suffix, unit |-> "iB"]

Odd == {[digits |-> d, n |-> 0, suffix |-> "", unit |-> u] : d \in {"none", "other"}, u \in Units}

Sane == {Text(1, ""), Text(2, ""), Text(5, ""), Text(1, "k"), Text(31, "")}

Wrapped == {Text(0, "k"), Text(-1, ""), Text(8, "k"), Text(9, "k"), Text(3, "m"), Text(1, "g")}

MCSurveys ==
    [length : Sane \cup Wrapped, transfer : Sane, zones : {0, 1, 2, 3, 5},
     end : 0 .. 12, block : {1, 2}]
    \cup [length : Sane, transfer : Odd \cup Wrapped, zones : {2}, end : {9}, block : {2}]
    \cup [length : Odd, transfer : {Text(1, "")}, zones : {2}, end : {9}, block : {2}]
=============================================================================
