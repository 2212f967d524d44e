------------------------- MODULE MCScreenshotStore -------------------------
(* Small instances of ScreenshotStore for TLC. *)
EXTENDS ScreenshotStore

CONSTANTS home, shop

OneAsset == [c \in Captures |-> home]
\* The last capture is of another endpoint than the earlier ones.
TwoAssets == [c \in Captures |-> IF c = NumCaptures THEN shop ELSE home]
=============================================================================
