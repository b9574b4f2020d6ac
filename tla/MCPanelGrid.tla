---------------------------- MODULE MCPanelGrid ----------------------------
(* Bounded instances of PanelGrid for TLC: a 3 x 2 grid and two kinds. *)
EXTENDS PanelGrid
CONSTANTS t1, t2
SizeOf(colSpan, rowSpan) == [colSpan |-> colSpan, rowSpan |-> rowSpan]
MCKinds == {"list", "plot"}
MCMinSize == [list |-> SizeOf(1, 1), plot |-> SizeOf(2, 1)]
MCDefaultSize == [list |-> SizeOf(1, 2), plot |-> SizeOf(2, 1)]
MCLinkChannels == [list |-> {"selection"}, plot |-> {"selection", "symbol"}]
MCMaxMinted == [list |-> 2, plot |-> 1]
MCSeedRect == RectAt(0, 0, 1, 2)
MCTemplates == {<<RectAt(0, 0, 2, 2), RectAt(2, 0, 1, 2)>>}
MCFootprints == {RectAt(0, 1, 3, 1)}
=============================================================================
