----------------------------- MODULE MCFirmware -----------------------------
(* Instances of Firmware: three devices, and catalogues that differ in     *)
(* what they know of the previous version and of the images.  On the first *)
(* device a boot line replaces the one before.                             *)
EXTENDS Firmware

MCKnown == {1, 2}
MCUnparsed == {2}
MCReplacing == {1}

New(min, md5, file) == [listed |-> TRUE, recommended |-> TRUE, min |-> min, md5 |-> md5, file |-> file]
Old(listed) == [listed |-> listed, recommended |-> FALSE, min |-> 0, md5 |-> TRUE, file |-> "good"]

(* The version under test may have a baseline, a checksum and a bad file.  *)
MCCatalogues ==
    {<<Old(TRUE), New(m, h, f)>> : m \in {0, 2}, h \in BOOLEAN, f \in {"good", "bad"}}
    \cup {<<Old(FALSE), New(0, TRUE, "good")>>, <<[Old(TRUE) EXCEPT !.file = "bad"], New(0, TRUE, "good")>>}
    \cup {<<Old(TRUE), [New(0, TRUE, "good") EXCEPT !.recommended = FALSE]>>}
=============================================================================
