--------------------------- MODULE MCPreparation ---------------------------
(* A switch and a server; the server may get the switch's serial number by *)
(* mistake, lose its platform, or be asked for a newer image.              *)
EXTENDS Preparation, TLC

Switch == [name |-> "sw", serial |-> "s1", mapped |-> TRUE, needs |-> {"template"}]
Host   == [name |-> "srv", serial |-> "s2", mapped |-> TRUE, needs |-> {"template", "iso"}]

MCContents ==
    {("D1" :> {Switch, h}) @@ ("D2" :> {Switch}) :
        h \in {Host, [Host EXCEPT !.serial = "s1"], [Host EXCEPT !.mapped = FALSE],
               [Host EXCEPT !.needs = {"template", "newiso"}]}}
    \cup {("D1" :> {Switch}) @@ ("D2" :> {})}

MCOrigins == {{"template", "iso"}, {"template", "newiso"}}
=============================================================================
