------------------------------- MODULE MCRouting -------------------------------
(***************************************************************************)
(* The default thresholds and a stricter configuration whose thresholds    *)
(* for success are in the wrong order, with levels on both sides of each.  *)
(***************************************************************************)
EXTENDS Routing

MCLevels == {0, 31, 45, 60, 70, 80}
MCConfigs == {DefaultConfig,
              [DefaultConfig EXCEPT !.combined = 90, !.success_review = 80,
                                    !.success_auto = 60]}
================================================================================
