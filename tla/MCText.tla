------------------------------- MODULE MCText -------------------------------
EXTENDS RefCText
MCArgs == {-1, 0, 1, 2, 7}
MCFewArgs == {0, 1}
MCWideArgs == {0, 1, 16}
MCSizes == [b \in {"p", "q"} |-> 2]
\* Room for a copy inside one buffer that overlaps itself.
MCLongSizes == [b \in {"p", "q"} |-> IF b = "p" THEN 3 ELSE 2]
=============================================================================
