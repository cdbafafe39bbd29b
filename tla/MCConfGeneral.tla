--------------------------- MODULE MCConfGeneral ---------------------------
(* Configurations of three and two half-words, in the proportion of the    *)
(* real ones (154 and 80): the table leaves the motor's last word out.     *)
EXTENDS ConfGeneral

CONSTANTS d1
McConfsDef == {<<d1, Blank, d1>>}
AppConfsDef == {<<d1, d1>>, <<d1, Blank>>, <<Blank, Blank>>}
=============================================================================
