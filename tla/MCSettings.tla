----------------------------- MODULE MCSettings -----------------------------
(* A scale on which 1..3 is the hardware's, 4 the widest the wire carries,
   and 7 wraps to 2, the default. *)
EXTENDS Settings

MCTop == [f \in Wide \cup {"lock", "led", "colour"} |-> 3]
MCArgs == {-1, 0, 1, 2, 3, 7}
MCWindows == {p \in Pairs : <<p.low, p.high>> \in {<<1, 3>>, <<1, 2>>, <<2, 2>>}}
=============================================================================
