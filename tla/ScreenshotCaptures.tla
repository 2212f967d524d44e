------------------------- MODULE ScreenshotCaptures -------------------------
(* The captures that ScreenshotSlots and ScreenshotStore follow, and the    *)
(* budget of crashes, losses and errors a behaviour may meet.               *)
EXTENDS Naturals, FiniteSets

CONSTANTS
    NumCaptures,  \* captures are numbered in the order they are taken
    AssetOf,      \* capture -> endpoint
    MaxUpsets     \* bound on crashes, losses, failed steps and new settings

VARIABLE upsets

Captures == 1 .. NumCaptures
Upset == upsets < MaxUpsets /\ upsets' = upsets + 1
=============================================================================
