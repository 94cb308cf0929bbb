----------------------------- MODULE MCRooms -----------------------------
(* Two sockets watch one room: the first sends SUBSCRIBE_ROOM up to twice,  *)
(* with UNSUBSCRIBE_ROOM in between or not, the second once.                *)
EXTENDS Rooms

CONSTANTS tab1, tab2, l1, l2, l3, news, p1

MCSockets == {tab1, tab2}
MCListeners == {l1, l2, l3}
MCSocketOf == [l \in MCListeners |-> IF l = l3 THEN tab2 ELSE tab1]
MCChannels == {news}
MCChannelOf == [l \in MCListeners |-> news]
MCPosts == {p1}
===========================================================================
