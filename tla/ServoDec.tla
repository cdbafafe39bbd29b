------------------------------ MODULE ServoDec ------------------------------
(***************************************************************************)
(* servo_dec.c: the capture interrupt turns the width of a pulse into a    *)
(* position.  Widths near the range count as its ends, others are dropped; *)
(* an optional median filter keeps two earlier positions.                  *)
(***************************************************************************)
EXTENDS Integers, FiniteSets

VARIABLES
  servo_pos,
  c1, c2,               \* the filter's static locals
  use_median_filter,
  last                  \* history: last three accepted since the options were set

filter == <<c1, c2, use_median_filter, last>>
servovars == <<servo_pos, filter>>

(* Positions in halves of the range -1..1.                                 *)
Width == {"dropped", "below", "start", "middle", "end", "above"}
Position == [w \in Width \ {"dropped"} |->
               CASE w \in {"below", "start"} -> -2 [] w = "middle" -> 0 [] OTHER -> 2]
NoPulse == 9

InitServo ==
  /\ servo_pos = 0 /\ c1 = 1 /\ c2 = 1 /\ use_median_filter \in BOOLEAN
  /\ last = <<NoPulse, NoPulse, NoPulse>>

MutantMiddleOf3(a, b, c) ==
  IF a <= b /\ a <= c THEN (IF b <= c THEN b ELSE c)
  ELSE IF b <= a /\ b <= c THEN (IF a <= c THEN a ELSE c)
  ELSE (IF a <= b THEN b ELSE a)

utils_middle_of_3(a, b, c) ==
  IF a <= b /\ a <= c THEN (IF b <= c THEN b ELSE c)
  ELSE IF b <= a /\ b <= c THEN (IF a <= c THEN a ELSE c)
  ELSE (IF a <= b THEN a ELSE b)

icuwidthcb(w) ==
  /\ w # "dropped"
  /\ LET c == Position[w]
     IN /\ servo_pos' = IF use_median_filter THEN utils_middle_of_3(c, c1, c2) ELSE c
        /\ IF use_median_filter THEN c2' = c1 /\ c1' = c ELSE UNCHANGED <<c1, c2>>
        /\ last' = <<c, last[1], last[2]>>
  /\ UNCHANGED use_median_filter

(* From app_ppm_configure; the filter keeps its old positions.             *)
servodec_set_pulse_options(median) ==
  /\ use_median_filter' = median
  /\ last' = <<NoPulse, NoPulse, NoPulse>>
  /\ UNCHANGED <<servo_pos, c1, c2>>

ServoNext ==
  \/ \E w \in Width : icuwidthcb(w)
  \/ \E median \in BOOLEAN : servodec_set_pulse_options(median)

ServoSpec == InitServo /\ [][ServoNext]_servovars

-----------------------------------------------------------------------------
(* Properties.                                                             *)

(* Once three pulses have come since the options were set, the filtered    *)
(* position is the median of the last three: one odd pulse never moves it  *)
(* away from the other two, whatever the filter kept from before.          *)
GlitchIsFiltered ==
  use_median_filter /\ last[3] # NoPulse =>
    /\ Cardinality({i \in 1..3 : last[i] <= servo_pos}) >= 2
    /\ Cardinality({i \in 1..3 : last[i] >= servo_pos}) >= 2
=============================================================================
