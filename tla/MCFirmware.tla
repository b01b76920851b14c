----------------------------- MODULE MCFirmware -----------------------------
(* Instances of Firmware for TLC: the inputs a run presses.                *)
EXTENDS Firmware

CONSTANT m1

TwoModes == {RareLanguage, NumberBackspace, m1}
ShiftOnly == {ShiftSpace, m1}
=============================================================================
