----------------------------- MODULE MCSchedule -----------------------------
(* Lists of two or three converters: chains of two links, a link to nowhere, *)
(* a source that is listed twice, a converter fed with too few bytes, and two *)
(* converters that feed each other.                                          *)
EXTENDS Schedule, TLC

Entry(l, s, t) == [lib |-> l, source |-> s, target |-> t]

Shipped   == <<Entry("Bayer8", "bayer8", "rgb"), Entry("MIPI", "mipi", "bayer8"),
               Entry("Gray8", "gray", "rgb")>>
Broken    == <<Entry("MIPI", "mipi", "bayer8"), Entry("Gray8", "gray", "rgb")>>
Twice     == <<Entry("Gray8", "gray", "rgb"), Entry("MIPI", "gray", "bayer8")>>
Starving  == <<Entry("MIPI", "mipi", "nv12"), Entry("YUV", "nv12", "rgb")>>
Circle    == <<Entry("MIPI", "mipi", "bayer8"), Entry("Bayer8", "bayer8", "mipi"),
               Entry("Gray8", "gray", "rgb")>>

MCTypes == {"mipi", "bayer8", "gray", "nv12", "rgb"}
MCIn    == [t \in MCTypes |-> IF t \in {"mipi", "nv12"} THEN 2 ELSE 1]
MCOut   == [t \in MCTypes |-> IF t = "mipi" THEN 1 ELSE 3]
MCAccepts == [t \in MCTypes |-> IF t = "mipi" THEN {2} ELSE {1, 2}]
MCFileSize == [f \in Files |-> IF f = "short" THEN 1 ELSE 4]

MCLists == {Shipped, Broken, Twice, Starving, Circle, Null}
=============================================================================
