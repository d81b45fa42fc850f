------------------------- MODULE MCEmotionPipeline --------------------------
(***************************************************************************)
(* EmotionPipeline for TLC.  The landmark results are the ones the code    *)
(* tells apart: everything found, the inner lips missing (which moves the  *)
(* outer lips up one line), outer lips with too few points, and no region. *)
(***************************************************************************)
EXTENDS EmotionPipeline

AllFull  == [r \in Regions |-> "full"]
NoRegion == [r \in Regions |-> "absent"]

MCMarks ==
    {AllFull, NoRegion,
     [AllFull EXCEPT !["lips"] = "absent"],
     [AllFull EXCEPT !["outerLips"] = "short"]}

MCFewMarks == {AllFull, [AllFull EXCEPT !["lips"] = "absent"]}
=============================================================================
