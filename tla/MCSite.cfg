\* A switch, a compute node and one that a new version of the template adds.
CONSTANTS
    sw = sw
    node = node
    added = added
    vlan = vlan
    link = link
    newlink = newlink
    Devices <- MCDevices
    New = {added}
    Compute = {node, added}
    Vlans = {vlan}
    Cables = {link, newlink}
    Ends <- MCEnds
    MaxRuns = 3
    MaxFaults = 1
    MaxEdits = 1
SPECIFICATION Spec
INVARIANTS
    
    PipelineRecovers
    DestroySucceeds
    CurrentMeansValid
\* Nothing is left to do when the runs are used up.
CHECK_DEADLOCK FALSE
