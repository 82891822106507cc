------------------------------- MODULE MCSite -------------------------------
EXTENDS Site, TLC

CONSTANTS sw, node, added, vlan, link, newlink

MCDevices == {sw, node, added}
MCEnds == link :> {sw, node} @@ newlink :> {sw, added}
=============================================================================
