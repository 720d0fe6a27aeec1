--------------------------- MODULE TimeWarpTimeline ---------------------------
(***************************************************************************)
(* What the viewer sees of TimeWarp (VrApi/TimeWarp.cpp): module TimeWarp  *)
(* with one history variable, the newest buffer drawn for both eyes.       *)
(***************************************************************************)
EXTENDS TimeWarp

VARIABLE screen  \* newest buffer that has been drawn for both eyes

tvars == <<vars, screen>>

TInit == Init /\ screen = 0

TNext ==
  /\ Next
  /\ screen' = IF DrawRightEye THEN cur.num ELSE screen

TSpec == TInit /\ [][TNext]_tvars /\ Fairness

-----------------------------------------------------------------------------

\* The screen never shows a buffer older than one it showed before: a frame
\* dropped by the application repeats an image, it never steps back to one.
ScreenNeverBackwards == [][screen' >= screen]_tvars

=============================================================================
