------------------------- MODULE MCTimezoneRewrite --------------------------
(* Model checking of TimezoneRewrite on short sources. *)
EXTENDS TimezoneRewrite

Item(k, w, s) == [kind |-> k, width |-> w, offset |-> s]

(* West of Greenwich by eight hours, half an hour and not at all; east by 5:45. *)
Items ==
  {Item("text", 1, 0), Item("newline", 1, 0), Item("kept", 3, 0), Item("cast", 2, 0),
   Item("named", 4, -28800), Item("named", 2, -1800), Item("named", 3, 0), Item("named", 1, 20700)}

(* Liberia until 1972: 44 minutes and 30 seconds west. *)
Monrovia == Item("named", 4, -2670)

ShortSources == BoundedSeq(Items, 4) \union {<<Monrovia, Item("newline", 1, 0), Monrovia>>}
ZoneThenCast == {<<Item("named", 4, -28800), Item("text", n, 0), Item("cast", 2, 0)>> : n \in 1 .. 3}
=============================================================================
