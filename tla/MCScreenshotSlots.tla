------------------------- MODULE MCScreenshotSlots -------------------------
(* Small instances of ScreenshotSlots for TLC. *)
EXTENDS ScreenshotSlots

CONSTANTS t1, t2, home, shop, blog

\* The last capture is of another tenant, or all are of one.
TenantLast == [c \in Captures |-> IF c < NumCaptures THEN t1 ELSE t2]
OneTenant == [c \in Captures |-> t1]
OwnAssets == [c \in Captures |-> IF c = 1 THEN home ELSE IF c = 2 THEN shop ELSE blog]
=============================================================================
