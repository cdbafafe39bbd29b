------------------------------ MODULE MCEeprom ------------------------------
(* Two addresses and a page of three slots: the fourth write starts a page *)
(* transfer, and the second interrupted recovery may fill the page.        *)
EXTENDS EepromInv

CONSTANTS a, b, d1
TabDef == <<a, b>>
=============================================================================
