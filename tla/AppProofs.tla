----------------------------- MODULE AppProofs -----------------------------
(***************************************************************************)
(* The applications, each under a specification of its own, for every      *)
(* bound of the safe start, every rate and every speed: the median filter  *)
(* of the servo input, the safe start of app_ppm.c and app_adc.c, and the  *)
(* cruise control of app_adc.c and app_nunchuk.c.                          *)
(***************************************************************************)
EXTENDS AppPpm, AppAdc, AppNunchuk, FiniteSetTheorems, TLAPS

-----------------------------------------------------------------------------
(* servo_dec.c: the locals of the filter are the two positions before the  *)
(* last pulse, as soon as they have come since the options were set.       *)
Pos == {-2, 0, 2}

ServoInv ==
  /\ servo_pos \in Int /\ c1 \in Int /\ c2 \in Int
  /\ last \in (Pos \cup {NoPulse}) \X (Pos \cup {NoPulse}) \X (Pos \cup {NoPulse})
  /\ last[3] # NoPulse => last[2] # NoPulse
  /\ last[2] # NoPulse => last[1] # NoPulse
  /\ use_median_filter /\ last[1] # NoPulse => c1 = last[1]
  /\ use_median_filter /\ last[2] # NoPulse => c2 = last[2]
  /\ use_median_filter /\ last[3] # NoPulse =>
       servo_pos = utils_middle_of_3(last[1], last[2], last[3])

(* The middle of three is one of them, with one of the others on each      *)
(* side.                                                                   *)
LEMMA MiddleOf3 ==
  ASSUME NEW a \in Int, NEW b \in Int, NEW c \in Int
  PROVE  LET m == utils_middle_of_3(a, b, c)
         IN /\ m \in Int
            /\ (a <= m /\ b <= m) \/ (b <= m /\ c <= m) \/ (a <= m /\ c <= m)
            /\ (a >= m /\ b >= m) \/ (b >= m /\ c >= m) \/ (a >= m /\ c >= m)
  BY DEF utils_middle_of_3

(* Two members make a set of at least two.                                 *)
LEMMA TwoAreTwo ==
  ASSUME NEW S \in SUBSET (1..3), NEW i \in S, NEW j \in S, i # j
  PROVE  Cardinality(S) >= 2
<1>1. IsFiniteSet(S)
  <2>1. IsFiniteSet(1..3)
    <3>1. 1 \in Int /\ 3 \in Int
      OBVIOUS
    <3> QED
      BY <3>1, FS_Interval, Zenon
  <2> QED
    BY <2>1, FS_Subset
<1>2. IsFiniteSet({i, j}) /\ Cardinality({i, j}) = 2
  <2>1. IsFiniteSet({i}) /\ Cardinality({i}) = 1
    BY FS_Singleton
  <2>2. {i} \cup {j} = {i, j} /\ j \notin {i}
    OBVIOUS
  <2>3. IsFiniteSet({i} \cup {j}) /\ Cardinality({i} \cup {j}) = 1 + 1
    BY <2>1, <2>2, FS_AddElement, Zenon
  <2> QED
    BY <2>2, <2>3
<1>3. {i, j} \subseteq S
  OBVIOUS
<1>4. Cardinality(S) \in Nat
  BY <1>1, FS_CardinalityType
<1> QED
  BY <1>1, <1>2, <1>3, <1>4, FS_Subset

(* Every pulse, and every change of the options, keeps the invariant.      *)
LEMMA ServoInvNext == ServoInv /\ [ServoNext]_servovars => ServoInv'
<1> SUFFICES ASSUME ServoInv, [ServoNext]_servovars PROVE ServoInv'
  OBVIOUS
<1> USE DEF ServoInv, Pos, NoPulse
<1>1. CASE UNCHANGED servovars
  BY <1>1 DEF servovars, filter
<1>2. ASSUME NEW w \in Width, icuwidthcb(w) PROVE ServoInv'
  <2>1. Position[w] \in {-2, 0, 2}
    BY <1>2 DEF icuwidthcb, Position, Width
  <2>2. PICK c \in {-2, 0, 2} : c = Position[w]
    BY <2>1
  <2>3. /\ servo_pos' = IF use_median_filter THEN utils_middle_of_3(c, c1, c2) ELSE c
        /\ IF use_median_filter THEN c2' = c1 /\ c1' = c ELSE UNCHANGED <<c1, c2>>
        /\ last' = <<c, last[1], last[2]>>
        /\ UNCHANGED use_median_filter
    BY <1>2, <2>2 DEF icuwidthcb
  <2>4. utils_middle_of_3(c, c1, c2) \in Int
    BY MiddleOf3
  <2> QED
    BY <2>3, <2>4
<1>3. ASSUME NEW median \in BOOLEAN, servodec_set_pulse_options(median) PROVE ServoInv'
  BY <1>3 DEF servodec_set_pulse_options
<1> QED
  BY <1>1, <1>2, <1>3 DEF ServoNext

(* One odd pulse never moves the filtered position away from the other     *)
(* two, although the filter's locals survive a change of the options.      *)
THEOREM GlitchesAreFiltered == ServoSpec => []GlitchIsFiltered
<1>1. InitServo => ServoInv
  BY DEF InitServo, ServoInv, Pos, NoPulse
<1>2. ServoInv => GlitchIsFiltered
  <2> SUFFICES ASSUME ServoInv, use_median_filter, last[3] # NoPulse
               PROVE  /\ Cardinality({i \in 1..3 : last[i] <= servo_pos}) >= 2
                      /\ Cardinality({i \in 1..3 : last[i] >= servo_pos}) >= 2
    BY DEF GlitchIsFiltered
  <2>1. last[1] \in Int /\ last[2] \in Int /\ last[3] \in Int
    BY DEF ServoInv, Pos, NoPulse
  <2>2. servo_pos = utils_middle_of_3(last[1], last[2], last[3])
    BY DEF ServoInv
  <2>3. /\ \E i, j \in 1..3 : i # j /\ last[i] <= servo_pos /\ last[j] <= servo_pos
        /\ \E i, j \in 1..3 : i # j /\ last[i] >= servo_pos /\ last[j] >= servo_pos
    <3> HIDE DEF ServoInv
    <3>1. /\ \/ last[1] <= servo_pos /\ last[2] <= servo_pos
             \/ last[2] <= servo_pos /\ last[3] <= servo_pos
             \/ last[1] <= servo_pos /\ last[3] <= servo_pos
          /\ \/ last[1] >= servo_pos /\ last[2] >= servo_pos
             \/ last[2] >= servo_pos /\ last[3] >= servo_pos
             \/ last[1] >= servo_pos /\ last[3] >= servo_pos
      BY <2>1, <2>2, MiddleOf3, Zenon
    <3>2. 1 \in 1..3 /\ 2 \in 1..3 /\ 3 \in 1..3 /\ 1 # 2 /\ 2 # 3 /\ 1 # 3
      OBVIOUS
    <3> QED
      BY <3>1, <3>2, Zenon
  <2> DEFINE Below == {i \in 1..3 : last[i] <= servo_pos}
             Above == {i \in 1..3 : last[i] >= servo_pos}
  <2>4. Cardinality(Below) >= 2
    <3>1. PICK i, j \in 1..3 : i # j /\ last[i] <= servo_pos /\ last[j] <= servo_pos
      BY <2>3
    <3>2. i \in Below /\ j \in Below /\ Below \in SUBSET (1..3)
      BY <3>1
    <3> QED
      BY <3>1, <3>2, TwoAreTwo
  <2>5. Cardinality(Above) >= 2
    <3>1. PICK i, j \in 1..3 : i # j /\ last[i] >= servo_pos /\ last[j] >= servo_pos
      BY <2>3
    <3>2. i \in Above /\ j \in Above /\ Above \in SUBSET (1..3)
      BY <3>1
    <3> QED
      BY <3>1, <3>2, TwoAreTwo
  <2> QED
    BY <2>4, <2>5
<1> QED
  BY <1>1, <1>2, ServoInvNext, PTL DEF ServoSpec

-----------------------------------------------------------------------------
(* app_ppm.c.  With safe_start, the count of turns without power is never  *)
(* ahead of the stretch without power, and it is the count of the turn     *)
(* before, so that a turn with power resets it.  Nothing is said of a      *)
(* configuration that is under way, nor of a fault the thread has not yet  *)
(* met: it resets the count when it meets it, in a turn that ends at once. *)
PpmTypeOK ==
  /\ fault \in BOOLEAN /\ seen \in BOOLEAN /\ safe_start \in BOOLEAN
  /\ servo_pos \in Int /\ val \in Int
  /\ calm \in 0..MIN_PULSES /\ count \in 0..MIN_PULSES
  /\ pulses_without_power \in 0..MIN_PULSES

CountsTurns ==
  safe_start /\ conf_pc = "idle" /\ (fault => seen) =>
    /\ pulses_without_power <= calm
    /\ pc = "rest" => count <= calm
    /\ pulses_without_power \in {0, pulses_without_power_before} \/ calm = MIN_PULSES

SeenAtRest == fault /\ pc = "rest" => ~seen

PpmInv == PpmTypeOK /\ CountsTurns /\ SeenAtRest /\ StartIsSafe

(* The steps around the application leave its count alone; a fault is new, *)
(* and a new configuration is under way.                                   *)
LEMMA PpmAround ==
  ASSUME PpmInv, UNCHANGED ppmvars, Around \/ \E safe \in BOOLEAN : Configure(safe)
  PROVE  PpmInv'
<1> USE PpmAssumption
    DEF PpmInv, PpmTypeOK, CountsTurns, SeenAtRest, StartIsSafe, ppmvars, servo, counts
<1>1. CASE FaultOccurs
  <2>1. fault' /\ ~seen' /\ fault' \in BOOLEAN /\ seen' \in BOOLEAN
    BY <1>1, Zenon DEF FaultOccurs
  <2>2. calm' = 0 /\ UNCHANGED <<safe_start, pc, conf_pc, unsafe>>
    BY <1>1 DEF FaultOccurs
  <2> QED
    BY <2>1, <2>2
<1>2. CASE FaultClears
  BY <1>2 DEF FaultClears
<1>3. CASE GetsQuiet \/ Alive \/ TimeoutThread
  BY <1>3 DEF GetsQuiet, Alive, TimeoutThread
<1>4. ASSUME NEW safe \in BOOLEAN, Configure(safe) PROVE PpmInv'
  BY <1>4 DEF Configure, env
<1> QED
  BY <1>1, <1>2, <1>3, <1>4 DEF Around

(* The rest of a turn of ppm_thread.  A drive with safe_start means that   *)
(* the count was full without this turn, so that the stretch was, too.     *)
LEMMA PpmRest == ASSUME PpmInv, Rest PROVE PpmInv'
<1> DEFINE n == IF WithoutPower(val) THEN Capped(count + 1) ELSE pulses_without_power
           waiting == n < MIN_PULSES /\ safe_start
           k == IF calm = MIN_PULSES THEN calm ELSE IF WithoutPower(val) THEN calm + 1 ELSE 0
           held == waiting \/ (ctrl_type = "brake" /\ val < 0)
           good == ~fault /\ safe_start /\ conf_pc = "idle"
<1> USE PpmAssumption
<1>1. /\ pc = "rest" /\ pc' = "wait" /\ calm' = k
      /\ pulses_without_power' = IF waiting THEN Held(n) ELSE n
      /\ pulses_without_power_before' = IF waiting THEN Held(n) ELSE pulses_without_power_before
      /\ val' = 0 /\ count' = 0
      /\ UNCHANGED <<fault, seen, conf_pc, safe_start, servo_pos>>
  BY DEF Rest, env, servo
<1>2. PpmTypeOK
  BY DEF PpmInv
<1>3. n \in 0..MIN_PULSES /\ k \in 0..MIN_PULSES /\ Held(n) \in {0, n}
  BY <1>2 DEF PpmTypeOK, Capped, Held
<1>4. CASE safe_start /\ conf_pc = "idle" /\ (fault => seen)
  <2>1. /\ ~fault /\ pulses_without_power <= calm /\ count <= calm
        /\ pulses_without_power \in {0, pulses_without_power_before} \/ calm = MIN_PULSES
    BY <1>1, <1>2, <1>4 DEF PpmInv, CountsTurns, SeenAtRest, PpmTypeOK
  <2>2. WithoutPower(val) => n <= k
    BY <1>2, <2>1 DEF PpmTypeOK, Capped
  <2>3. ~WithoutPower(val) => n = pulses_without_power /\ (calm = MIN_PULSES => k = MIN_PULSES)
    OBVIOUS
  <2>4. ~waiting => n = MIN_PULSES
    BY <1>3, <1>4
  <2>5. ~waiting => k = MIN_PULSES
    BY <1>2, <1>3, <2>1, <2>2, <2>3, <2>4 DEF PpmTypeOK
  <2>6. waiting => Held(n) <= k
    BY <1>2, <1>3, <2>1, <2>2, <2>3 DEF PpmTypeOK, Held
  <2>7. CountsTurns'
    BY <1>1, <1>3, <1>4, <2>4, <2>5, <2>6 DEF CountsTurns
  <2>8. ~unsafe'
    <3>1. CASE held
      BY <3>1 DEF Rest, Command, PpmInv, StartIsSafe
    <3>2. CASE ~held
      BY <3>2, <2>5 DEF Rest, Command, PpmInv, StartIsSafe
    <3> QED
      BY <3>1, <3>2
  <2> QED
    BY <1>1, <1>2, <1>3, <2>7, <2>8 DEF PpmInv, PpmTypeOK, SeenAtRest, StartIsSafe
<1>5. CASE ~(safe_start /\ conf_pc = "idle" /\ (fault => seen))
  <2>1. ~good
    BY <1>5, <1>2 DEF PpmTypeOK
  <2>2. ~unsafe'
    <3>1. CASE held
      BY <3>1 DEF Rest, Command, PpmInv, StartIsSafe
    <3>2. CASE ~held
      BY <3>2, <2>1 DEF Rest, Command, PpmInv, StartIsSafe
    <3> QED
      BY <3>1, <3>2
  <2>3. CountsTurns'
    BY <1>1, <1>5 DEF CountsTurns
  <2> QED
    BY <1>1, <1>2, <1>3, <2>2, <2>3 DEF PpmInv, PpmTypeOK, SeenAtRest, StartIsSafe
<1> QED
  BY <1>4, <1>5

(* Every step keeps the invariant.                                         *)
LEMMA PpmInvNext == PpmInv /\ [PpmNext]_<<basevars, ppmvars>> => PpmInv'
<1> SUFFICES ASSUME PpmInv, [PpmNext]_<<basevars, ppmvars>> PROVE PpmInv'
  OBVIOUS
<1>1. CASE UNCHANGED <<basevars, ppmvars>>
  BY <1>1 DEF basevars, env, ppmvars, servo, counts, PpmInv, PpmTypeOK, CountsTurns, SeenAtRest,
              StartIsSafe
<1>2. CASE (Around \/ \E safe \in BOOLEAN : Configure(safe)) /\ UNCHANGED ppmvars
  BY <1>2, PpmAround
<1>3. CASE Rest
  BY <1>3, PpmRest
<1> USE PpmAssumption
    DEF PpmInv, PpmTypeOK, CountsTurns, SeenAtRest, StartIsSafe, basevars, env, servo, counts
<1>4. ASSUME NEW p \in {-2, 0, 2}, Pulse(p) PROVE PpmInv'
  BY <1>4 DEF Pulse
<1>5. CASE ServoGetsQuiet \/ ServoAges
  BY <1>5 DEF ServoGetsQuiet, ServoAges
<1>6. CASE Stopped
  BY <1>6 DEF Stopped
<1>7. CASE Evaluate
  BY <1>7 DEF Evaluate, Scaled
<1>8. CASE ResetPpm
  BY <1>8 DEF ResetPpm, Reset
<1> QED
  BY <1>1, <1>2, <1>3, <1>4, <1>5, <1>6, <1>7, <1>8 DEF PpmNext, PpmThread

(* With safe_start, app_ppm.c drives the motor only after MIN_PULSES turns *)
(* in a row without power since the last fault, timeout, lost signal or    *)
(* configuration.  After a configuration in the middle of a turn nothing   *)
(* is said until the next of these: the turn undoes the reset.             *)
THEOREM PpmStartsSafely == PpmSpec => []StartIsSafe
<1>1. InitBase /\ InitPpm => PpmInv
  <2> SUFFICES ASSUME InitBase, InitPpm PROVE PpmInv
    OBVIOUS
  <2>1. fault \in BOOLEAN /\ seen \in BOOLEAN /\ safe_start \in BOOLEAN /\ ~fault /\ ~unsafe
    BY Zenon DEF InitBase
  <2>2. calm = 0 /\ pulses_without_power = 0 /\ count = 0 /\ val = 0 /\ servo_pos = 0
    BY DEF InitBase, InitPpm, InitServo
  <2> QED
    BY <2>1, <2>2, PpmAssumption DEF PpmInv, PpmTypeOK, CountsTurns, SeenAtRest, StartIsSafe
<1>2. PpmInv => StartIsSafe
  BY DEF PpmInv
<1> QED
  BY <1>1, <1>2, PpmInvNext, PTL DEF PpmSpec

-----------------------------------------------------------------------------
(* app_adc.c.  As in app_ppm.c, with time in the place of turns.  The      *)
(* float is compared with an int that was cut off from it, so that a turn  *)
(* with power resets the time only while both are whole milliseconds: the  *)
(* time slept must be.                                                     *)
Whole(t) == t % PerMs = 0

AdcTypeOK ==
  /\ fault \in BOOLEAN /\ seen \in BOOLEAN /\ safe_start \in BOOLEAN
  /\ was_pid \in BOOLEAN /\ sleep_time \in SleepTime /\ pwr \in {-1, 0, 1}
  /\ calm \in 0..Enough /\ ms_read \in 0..Enough /\ ms_without_power \in 0..Enough

CountsTime ==
  safe_start /\ conf_pc = "idle" /\ (fault => seen) /\ calm # Enough =>
    /\ ms_without_power <= calm
    /\ ms_without_power \in {0, ms_before * PerMs}
    /\ Whole(ms_without_power)
    /\ pc = "rest" => ms_read <= calm /\ Whole(ms_read) /\ Whole(sleep_time)

(* The speed that cruise control keeps is the one at its first command,    *)
(* or a release was missed; it is the output only while it is kept.        *)
KeepsSpeed ==
  /\ fault => output = "none"
  /\ output = "pid" => was_pid
  /\ ~was_pid => press_rpm = NoRpm
  /\ was_pid => press_rpm # NoRpm /\ press_rpm \in {Missed, pid_rpm}

AdcInv == AdcTypeOK /\ CountsTime /\ KeepsSpeed /\ StartIsSafe

(* Whole milliseconds add up, and are not changed when cut to an int.      *)
LEMMA WholeSum ==
  ASSUME NEW a \in Nat, NEW b \in Nat, Whole(a), Whole(b)
  PROVE  Whole(a + b) /\ (a \div PerMs) * PerMs = a
<1>1. PerMs \in Nat /\ PerMs > 0
  BY AdcAssumption
<1>2. /\ (a \div PerMs) * PerMs = a /\ a \div PerMs \in Int
      /\ (b \div PerMs) * PerMs = b /\ b \div PerMs \in Int
  BY <1>1 DEF Whole
<1>3. PICK i \in Int, j \in Int : i * PerMs = a /\ j * PerMs = b
  BY <1>2
<1>4. (i + j) * PerMs = a + b
  BY <1>1, <1>3
<1>5. ((i + j) * PerMs) % PerMs = 0
  <2>1. i + j \in Int
    BY <1>3
  <2> QED
    BY <1>1, <2>1
<1> QED
  BY <1>2, <1>4, <1>5 DEF Whole

(* So is the time the safe start asks for.                                 *)
LEMMA EnoughIsWhole == Enough \in Nat /\ Whole(Enough) /\ Whole(0)
  BY AdcAssumption DEF Whole, Enough

(* Where the count is meant to hold (CountsTime).                          *)
Counting == safe_start /\ conf_pc = "idle" /\ (fault => seen)

(* What a turn adds: the count is not ahead of the stretch without power,  *)
(* and a turn with power resets it.                                        *)
LEMMA AddedAgrees ==
  ASSUME AdcInv, pc = "rest"
  PROVE  /\ Added \in 0..Enough /\ Calm \in 0..Enough
         /\ Counting /\ ~(Added < Enough) => Calm = Enough
         /\ Counting /\ Calm # Enough =>
              Restarted(Added) <= Calm /\ Whole(Restarted(Added))
<1>1. /\ Enough \in Nat /\ calm \in 0..Enough /\ ms_read \in 0..Enough
      /\ ms_without_power \in 0..Enough /\ sleep_time \in Nat /\ sleep_time > 0
  BY EnoughIsWhole, AdcAssumption DEF AdcInv, AdcTypeOK
<1>2. Added \in 0..Enough /\ Calm \in 0..Enough
  BY <1>1 DEF Added, Calm, CappedMs
<1>3. CASE calm = Enough
  BY <1>2, <1>3 DEF Calm
<1>4. CASE ~Counting
  BY <1>2, <1>4
<1>5. CASE Counting /\ calm # Enough
  <2>1. /\ ms_without_power <= calm /\ ms_without_power \in {0, ms_before * PerMs}
        /\ ms_read <= calm /\ Whole(ms_read) /\ Whole(sleep_time)
    BY <1>5 DEF AdcInv, CountsTime, Counting
  <2>2. CASE NoPower
    <3>1. Added = CappedMs(ms_read + sleep_time) /\ Calm = CappedMs(calm + sleep_time)
      BY <1>5, <2>2 DEF Added, Calm
    <3>2. Added <= Calm /\ (Calm # Enough => Added = ms_read + sleep_time)
      BY <1>1, <2>1, <3>1 DEF CappedMs
    <3>3. Whole(ms_read + sleep_time) /\ Whole(0)
      BY <1>1, <2>1, WholeSum, EnoughIsWhole
    <3> QED
      BY <1>1, <1>2, <3>2, <3>3 DEF Restarted
  <2>3. CASE ~NoPower
    <3>1. Added = ms_without_power /\ Calm = 0
      BY <1>5, <2>3 DEF Added, Calm
    <3>2. Restarted(Added) = 0 /\ Whole(0)
      BY <2>1, <3>1, EnoughIsWhole DEF Restarted
    <3> QED
      BY <1>1, <1>2, <1>5, <2>1, <3>1, <3>2
  <2> QED
    BY <2>2, <2>3
<1> QED
  BY <1>3, <1>4, <1>5

(* The rest of a turn keeps the types and the times.                       *)
LEMMA AdcTurn ==
  ASSUME AdcInv, Turn, was_pid' \in BOOLEAN,
         \/ Added < Enough /\ safe_start /\ ms_without_power' = Restarted(Added)
                                         /\ ms_before' = Restarted(Added) \div PerMs
         \/ ~(Added < Enough /\ safe_start) /\ ms_without_power' = Added
  PROVE  AdcTypeOK' /\ CountsTime'
<1>1. /\ pc = "rest" /\ pc' = "wait" /\ calm' = Calm /\ pwr' = 0 /\ ms_read' = 0
      /\ UNCHANGED <<fault, seen, safe_start, conf_pc, sleep_time>>
  BY DEF Turn
<1>2. Enough \in Nat /\ AdcTypeOK
  BY EnoughIsWhole DEF AdcInv
<1>3. /\ Added \in 0..Enough /\ Calm \in 0..Enough
      /\ Counting /\ ~(Added < Enough) => Calm = Enough
      /\ Counting /\ Calm # Enough => Restarted(Added) <= Calm /\ Whole(Restarted(Added))
  BY <1>1, AddedAgrees
<1>4. Restarted(Added) \in 0..Enough
  BY <1>2, <1>3 DEF Restarted
<1>5. AdcTypeOK'
  BY <1>1, <1>2, <1>3, <1>4 DEF AdcTypeOK, Enough
<1>6. CountsTime'
  <2>1. Counting' = Counting /\ Enough' = Enough
    BY <1>1 DEF Counting, Enough
  <2> SUFFICES ASSUME Counting, Calm # Enough
               PROVE  /\ ms_without_power' <= Calm
                      /\ ms_without_power' \in {0, ms_before' * PerMs}
                      /\ Whole(ms_without_power')
    BY <1>1, <2>1 DEF CountsTime, Counting, Whole, Enough
  <2>2. /\ ms_without_power' = Restarted(Added)
        /\ ms_before' = Restarted(Added) \div PerMs
    BY <1>3 DEF Counting
  <2>3. Restarted(Added) <= Calm /\ Whole(Restarted(Added)) /\ Restarted(Added) \in Nat
    BY <1>2, <1>3, <1>4
  <2>4. (Restarted(Added) \div PerMs) * PerMs = Restarted(Added)
    BY <2>3, WholeSum
  <2> QED
    BY <2>2, <2>3, <2>4
<1> QED
  BY <1>5, <1>6

(* A turn of adc_thread: the brake of the safe start, cruise control, or   *)
(* the throttle, each from the time that was counted.                      *)
LEMMA AdcCommands ==
  ASSUME AdcInv, SafeStartWaits \/ Drive \/ (\E r \in Rpm : Cruise(r))
  PROVE  AdcInv'
<1>1. /\ AdcTypeOK /\ KeepsSpeed /\ ~unsafe
      /\ fault \in BOOLEAN /\ was_pid \in BOOLEAN
  BY DEF AdcInv, AdcTypeOK, StartIsSafe
<1>2. NoRpm # Missed /\ \A r \in Rpm : r # NoRpm /\ r # Missed
  BY AdcAssumption DEF NoRpm, Missed
<1>0. pc = "rest" /\ ~(Added < Enough /\ safe_start) =>
        (~fault /\ safe_start /\ conf_pc = "idle" => Calm = Enough)
  BY AddedAgrees DEF Counting
<1>3. CASE SafeStartWaits
  <2>1. AdcTypeOK' /\ CountsTime'
    BY <1>1, <1>3, AdcTurn DEF SafeStartWaits
  <2>2. KeepsSpeed'
    <3>1. /\ output' = IF fault THEN output ELSE "brake"
          /\ press_rpm' = IF Holds THEN press_rpm ELSE Released
          /\ UNCHANGED <<fault, was_pid, pid_rpm>>
      BY <1>3 DEF SafeStartWaits, Turn, Command
    <3> QED
      BY <1>1, <1>2, <3>1 DEF KeepsSpeed, Released
  <2>3. ~unsafe'
    BY <1>1, <1>3 DEF SafeStartWaits, Command
  <2> QED
    BY <2>1, <2>2, <2>3 DEF AdcInv, StartIsSafe
<1>4. ASSUME NEW r \in Rpm, Cruise(r) PROVE AdcInv'
  <2>0. was_pid' /\ was_pid' \in BOOLEAN
    BY <1>4, Zenon DEF Cruise
  <2>1. AdcTypeOK' /\ CountsTime'
    BY <1>4, <2>0, AdcTurn DEF Cruise
  <2>2. KeepsSpeed'
    <3>1. /\ output' = IF fault THEN output ELSE "pid"
          /\ pid_rpm' = IF was_pid THEN pid_rpm ELSE r
          /\ press_rpm' = IF press_rpm = NoRpm THEN r ELSE press_rpm
          /\ UNCHANGED fault
      BY <1>4 DEF Cruise, Turn, Command
    <3> QED
      BY <1>1, <1>2, <2>0, <3>1 DEF KeepsSpeed
  <2>3. ~unsafe'
    <3>1. ~fault /\ safe_start /\ conf_pc = "idle" => Calm = Enough
      BY <1>0, <1>4 DEF Cruise, Turn
    <3> QED
      BY <1>1, <1>4, <3>1 DEF Cruise, Command
  <2> QED
    BY <2>1, <2>2, <2>3 DEF AdcInv, StartIsSafe
<1>5. CASE Drive
  <2>0. ~was_pid' /\ was_pid' \in BOOLEAN
    BY <1>5, Zenon DEF Drive
  <2>1. AdcTypeOK' /\ CountsTime'
    BY <1>5, <2>0, AdcTurn DEF Drive
  <2> DEFINE c == Throttle
  <2>2. /\ output' = IF fault THEN output ELSE c
        /\ press_rpm' = NoRpm /\ UNCHANGED fault
    BY <1>5 DEF Drive, Turn, Command
  <2>3. KeepsSpeed'
    <3>1. c # "pid"
      BY DEF Throttle
    <3> HIDE DEF c
    <3> QED
      BY <1>1, <2>0, <2>2, <3>1 DEF KeepsSpeed
  <2>4. ~fault /\ safe_start /\ conf_pc = "idle" => Calm = Enough
    BY <1>0, <1>5 DEF Drive, Turn
  <2>5. ~unsafe'
    BY <1>1, <1>5, <2>4 DEF Drive, Command
  <2> QED
    BY <2>1, <2>3, <2>5 DEF AdcInv, StartIsSafe
<1> QED
  BY <1>3, <1>4, <1>5

(* The start of a turn: a fault resets the count, and the time slept has   *)
(* to be whole for the count to hold.                                      *)
LEMMA AdcSample ==
  ASSUME AdcInv, NEW p \in {-1, 0, 1}, NEW cc \in BOOLEAN, Sample(p, cc)
  PROVE  AdcInv'
<1>0. Enough \in Nat /\ Whole(0) /\ AdcTypeOK /\ ~unsafe
  BY EnoughIsWhole DEF AdcInv, StartIsSafe
<1>1. /\ pc = "wait" /\ seen' /\ seen' \in BOOLEAN /\ pwr' = p
      /\ ms_without_power' = IF fault THEN 0 ELSE ms_without_power
      /\ ms_read' = ms_without_power'
      /\ calm' = IF ~Whole(sleep_time) THEN Enough ELSE IF fault THEN 0 ELSE calm
      /\ press_rpm' \in {press_rpm, Released}
      /\ UNCHANGED <<fault, output, conf_pc, safe_start, unsafe, sleep_time, ms_before, was_pid,
                     pid_rpm>>
  <2>1. seen' /\ seen' \in BOOLEAN
    BY Zenon DEF Sample
  <2> QED
    BY <2>1 DEF Sample, Whole
<1>2. AdcTypeOK'
  BY <1>0, <1>1 DEF AdcTypeOK, Enough
<1>3. CountsTime'
  <2> SUFFICES ASSUME safe_start, conf_pc = "idle", calm' # Enough
               PROVE  /\ ms_without_power' <= calm' /\ ms_without_power' \in {0, ms_before * PerMs}
                      /\ Whole(ms_without_power') /\ Whole(sleep_time)
    BY <1>1 DEF CountsTime, Whole, Enough
  <2>1. Whole(sleep_time) /\ (~fault => calm # Enough)
    BY <1>1
  <2>2. CASE fault
    BY <1>0, <1>1, <2>1, <2>2
  <2>3. CASE ~fault
    BY <1>1, <2>1, <2>3 DEF AdcInv, CountsTime
  <2> QED
    BY <2>2, <2>3
<1>4. KeepsSpeed' /\ ~unsafe'
  <2>1. NoRpm # Missed
    BY DEF NoRpm, Missed
  <2>2. was_pid \in BOOLEAN /\ KeepsSpeed
    BY <1>0 DEF AdcInv, AdcTypeOK
  <2> QED
    BY <1>0, <1>1, <2>1, <2>2 DEF KeepsSpeed, Released
<1> QED
  BY <1>2, <1>3, <1>4 DEF AdcInv, StartIsSafe

(* The steps around the application, and the end of a configuration.       *)
LEMMA AdcAround ==
  ASSUME AdcInv,
         \/ (Around \/ \E safe \in BOOLEAN : Configure(safe)) /\ UNCHANGED adcvars
         \/ ResetAdc
  PROVE  AdcInv'
<1>0. Enough \in Nat /\ Whole(0)
  BY EnoughIsWhole
<1> USE DEF AdcInv, AdcTypeOK, CountsTime, KeepsSpeed, StartIsSafe, adcvars, Enough, Whole
<1>1. CASE FaultOccurs /\ UNCHANGED adcvars
  <2>1. fault' /\ ~seen' /\ fault' \in BOOLEAN /\ seen' \in BOOLEAN
    BY <1>1, Zenon DEF FaultOccurs
  <2>2. /\ calm' = 0 /\ output' = "none"
        /\ UNCHANGED <<safe_start, pc, conf_pc, unsafe, adcvars>>
    BY <1>1 DEF FaultOccurs
  <2> QED
    BY <1>0, <2>1, <2>2
<1>2. CASE FaultClears /\ UNCHANGED adcvars
  BY <1>2 DEF FaultClears
<1>3. CASE (GetsQuiet \/ Alive \/ TimeoutThread) /\ UNCHANGED adcvars
  BY <1>3 DEF GetsQuiet, Alive, TimeoutThread
<1>4. ASSUME NEW safe \in BOOLEAN, Configure(safe), UNCHANGED adcvars PROVE AdcInv'
  BY <1>4 DEF Configure, env
<1>5. CASE ResetAdc
  BY <1>0, <1>5 DEF ResetAdc, Reset
<1> QED
  BY <1>1, <1>2, <1>3, <1>4, <1>5 DEF Around

(* Every step keeps the invariant.                                         *)
LEMMA AdcInvAlways == AdcSpec => []AdcInv
<1>1. InitBase /\ InitAdc => AdcInv
  <2> SUFFICES ASSUME InitBase, InitAdc PROVE AdcInv
    OBVIOUS
  <2>1. /\ fault \in BOOLEAN /\ seen \in BOOLEAN /\ safe_start \in BOOLEAN
        /\ was_pid \in BOOLEAN /\ ~fault /\ ~unsafe /\ ~was_pid
    BY Zenon DEF InitBase, InitAdc
  <2>2. /\ calm = 0 /\ output = "none" /\ pc = "wait" /\ sleep_time \in SleepTime
        /\ ms_without_power = 0 /\ ms_read = 0 /\ pwr = 0 /\ press_rpm = NoRpm
    BY DEF InitBase, InitAdc
  <2> QED
    BY <2>1, <2>2, EnoughIsWhole DEF AdcInv, AdcTypeOK, CountsTime, KeepsSpeed, StartIsSafe
<1>2. AdcInv /\ [AdcNext]_<<basevars, adcvars>> => AdcInv'
  <2> SUFFICES ASSUME AdcInv, [AdcNext]_<<basevars, adcvars>> PROVE AdcInv'
    OBVIOUS
  <2>1. CASE UNCHANGED <<basevars, adcvars>>
    BY <2>1 DEF basevars, env, adcvars, AdcInv, AdcTypeOK, CountsTime, KeepsSpeed, StartIsSafe,
                Enough, Whole
  <2>2. CASE AdcNext
    BY <2>2, AdcAround, AdcSample, AdcCommands DEF AdcNext, AdcThread
  <2> QED
    BY <2>1, <2>2
<1> QED
  BY <1>1, <1>2, PTL DEF AdcSpec

(* With safe_start, app_adc.c drives the motor, or keeps it at a speed,    *)
(* only after MIN_MS_WITHOUT_POWER without power since the last fault or   *)
(* configuration, at every rate that gives whole milliseconds; nothing is  *)
(* said after a configuration in the middle of a turn.                     *)
THEOREM AdcStartsSafely == AdcSpec => []StartIsSafe
<1>1. AdcInv => StartIsSafe
  BY DEF AdcInv
<1> QED
  BY <1>1, AdcInvAlways, PTL

(* The speed app_adc.c commands under cruise control is the one at which   *)
(* the button was pressed, unless its release fell into a safe start or a  *)
(* time without control type.                                              *)
THEOREM CruiseSpeedIsKept == AdcSpec => []CruiseKeepsPressedSpeed
<1>1. AdcInv => CruiseKeepsPressedSpeed
  BY DEF AdcInv, KeepsSpeed, CruiseKeepsPressedSpeed
<1> QED
  BY <1>1, AdcInvAlways, PTL

-----------------------------------------------------------------------------
(* app_nunchuk.c: whenever the speed is the output it agrees with the      *)
(* direction, but for the rest of a turn that has changed the direction.   *)
(* It is the output only while cruise control goes on: a turn that ends it *)
(* sets another output, unless the motor is off in a fault, so that a      *)
(* start that is aborted leaves another output standing.                   *)
Agrees(rev, r) == IF rev THEN r <= 1 ELSE r >= -1
Settled == pc \in {"wait", "both", "toggle"}

ChukTypeOK ==
  /\ fault \in BOOLEAN /\ is_reverse \in BOOLEAN
  /\ js_y \in {-1, 0, 1} /\ out_val \in {-1, 0, 1} /\ cruise_rpm \in Int

ChukInv ==
  /\ ChukTypeOK
  /\ fault => output = "none"
  /\ output = "cruise" => cruises
  /\ output = "cruise" /\ Settled => Agrees(is_reverse, cruise_rpm)

(* The bound keeps a speed on its side of the direction.                   *)
LEMMA BoundedAgrees ==
  ASSUME NEW rev \in BOOLEAN, NEW r \in Int, Agrees(rev, r)
  PROVE  Bounded(r) \in Int /\ Agrees(rev, Bounded(r))
<1>1. MaxRpm \in Nat
  BY NunchukAssumption
<1> QED
  BY <1>1 DEF Bounded, Agrees

(* A turn of cruise control, whatever the direction has become since the   *)
(* last one, leaves a speed at most one step of the stick against it.      *)
LEMMA StickAgrees ==
  ASSUME ChukTypeOK
  PROVE  /\ Bounded(Stick(is_reverse, cruise_rpm)) \in Int
         /\ Agrees(is_reverse, Bounded(Stick(is_reverse, cruise_rpm)))
<1>1. is_reverse \in BOOLEAN /\ cruise_rpm \in Int /\ out_val \in {-1, 0, 1}
  BY DEF ChukTypeOK
<1>2. /\ Stick(is_reverse, cruise_rpm) \in Int
      /\ Agrees(is_reverse, Stick(is_reverse, cruise_rpm))
  BY <1>1 DEF Stick, Opposite, Agrees
<1> QED
  BY <1>1, <1>2, BoundedAgrees

(* The z button leaves a direction.                                        *)
LEMMA ToggleType == ASSUME ChukInv, Toggle PROVE is_reverse' \in BOOLEAN
  BY Zenon DEF ChukInv, ChukTypeOK, Toggle

(* The reads of a turn of output_thread: a new direction is not settled.   *)
LEMMA ChukReads ==
  ASSUME ChukInv, Idles \/ Wakes \/ Both \/ Toggle \/ KeepZ \/ ReadStick
  PROVE  ChukInv'
<1> USE DEF ChukInv, ChukTypeOK, Settled, Agrees, At, turn, chuck_d, outvars
<1>1. CASE Idles \/ Wakes \/ Both
  <2>1. /\ UNCHANGED <<fault, is_reverse, js_y, out_val, cruise_rpm, cruises, output>>
        /\ Settled
    BY <1>1 DEF Idles, Wakes, Both
  <2> QED
    BY <2>1
<1>2. CASE Toggle
  <2>1. is_reverse' \in BOOLEAN
    BY <1>2, ToggleType
  <2>2. /\ pc' = "was_z"
        /\ UNCHANGED <<fault, js_y, out_val, cruise_rpm, cruises, output>>
    BY <1>2 DEF Toggle
  <2> QED
    BY <2>1, <2>2
<1>3. CASE KeepZ
  BY <1>3 DEF KeepZ
<1>4. CASE ReadStick
  BY <1>4 DEF ReadStick
<1> QED
  BY <1>1, <1>2, <1>3, <1>4

(* The command of a turn agrees with the direction that is set by then.    *)
LEMMA ChukCommands ==
  ASSUME ChukInv, (\E r \in Speed : CruiseStarts(r)) \/ CruiseGoesOn \/ StickDrives
  PROVE  ChukInv'
<1>0. ChukTypeOK /\ is_reverse \in BOOLEAN
  BY DEF ChukInv, ChukTypeOK
<1>1. ASSUME NEW r \in Speed, CruiseStarts(r) PROVE ChukInv'
  <2>1. r \in Int
    BY NunchukAssumption DEF Speed
  <2>2. ~cruises /\ out_val' = 0 /\ UNCHANGED <<fault, js_y, is_reverse>>
    BY <1>1 DEF CruiseStarts, turn, chuck_d
  <2>3. CASE Opposite(is_reverse, r) /\ Fast(r)
    <3>1. UNCHANGED <<cruise_rpm, cruises, output>>
      BY <1>1, <2>3 DEF CruiseStarts
    <3> QED
      BY <2>2, <3>1 DEF ChukInv, ChukTypeOK
  <2>4. CASE ~(Opposite(is_reverse, r) /\ Fast(r))
    <3>1. /\ cruise_rpm' = IF Opposite(is_reverse, r) THEN 0 ELSE r
          /\ output' = IF fault THEN output ELSE "cruise"
      BY <1>1, <2>4 DEF CruiseStarts, Command
    <3>2. cruises'
      BY <1>1, <2>4, Zenon DEF CruiseStarts
    <3>3. cruise_rpm' \in Int /\ Agrees(is_reverse, cruise_rpm')
      BY <1>0, <2>1, <3>1 DEF Opposite, Agrees
    <3> QED
      BY <2>2, <3>1, <3>2, <3>3 DEF ChukInv, ChukTypeOK, Agrees
  <2> QED
    BY <2>3, <2>4
<1>2. CASE CruiseGoesOn
  <2>1. /\ cruise_rpm' = Bounded(Stick(is_reverse, cruise_rpm))
        /\ output' = IF fault THEN output ELSE "cruise"
        /\ out_val' = 0 /\ UNCHANGED <<fault, js_y, is_reverse>>
    BY <1>2 DEF CruiseGoesOn, Command, turn, chuck_d
  <2>2. cruises'
    BY <1>2, Zenon DEF CruiseGoesOn
  <2>3. cruise_rpm' \in Int /\ Agrees(is_reverse, cruise_rpm')
    BY <1>0, <2>1, StickAgrees
  <2> QED
    BY <2>1, <2>2, <2>3 DEF ChukInv, ChukTypeOK, Agrees
<1>3. CASE StickDrives
  <2>1. PICK c \in {"drive", "none", "brake"} : output' = IF fault THEN output ELSE c
    BY <1>3 DEF StickDrives, Command
  <2>2. cruise_rpm' = 0 /\ out_val' = 0 /\ UNCHANGED <<fault, js_y, is_reverse>>
    BY <1>3 DEF StickDrives, turn, chuck_d
  <2> QED
    BY <2>1, <2>2 DEF ChukInv, ChukTypeOK
<1> QED
  BY <1>1, <1>2, <1>3

(* Every step keeps the invariant.                                         *)
LEMMA ChukInvNext == ChukInv /\ [NunchukNext]_<<basevars, chukvars>> => ChukInv'
<1> SUFFICES ASSUME ChukInv, [NunchukNext]_<<basevars, chukvars>> PROVE ChukInv'
  OBVIOUS
<1>1. CASE OutputThread
  BY <1>1, ChukReads, ChukCommands DEF OutputThread
<1> USE DEF ChukInv, ChukTypeOK, Settled, Agrees, chukvars, chuck_d, outvars
<1>2. CASE UNCHANGED <<basevars, chukvars>>
  BY <1>2 DEF basevars, env
<1>3. CASE FaultOccurs /\ UNCHANGED chukvars
  <2>1. fault' \in BOOLEAN
    BY <1>3, Zenon DEF FaultOccurs
  <2> QED
    BY <1>3, <2>1 DEF FaultOccurs
<1>4. CASE (FaultClears \/ GetsQuiet \/ Alive \/ TimeoutThread) /\ UNCHANGED chukvars
  <2>1. /\ fault' \in BOOLEAN /\ (fault' => fault) /\ (fault => output' = output)
        /\ output' \in {output, "brake"} /\ pc' = pc
    <3>1. CASE FaultClears
      BY <1>4, <3>1 DEF FaultClears
    <3>2. CASE GetsQuiet \/ Alive
      BY <1>4, <3>2 DEF GetsQuiet, Alive
    <3>3. CASE TimeoutThread
      BY <1>4, <3>3 DEF TimeoutThread
    <3> QED
      BY <1>4, <3>1, <3>2, <3>3
  <2>2. UNCHANGED <<is_reverse, js_y, out_val, cruise_rpm, cruises>>
    BY <1>4
  <2> QED
    BY <2>1, <2>2
<1>5. CASE Configure(FALSE) /\ UNCHANGED chukvars
  BY <1>5 DEF Configure, env
<1>6. ASSUME NEW d \in Data, ReadChuk(d) \/ RemoteData(d) PROVE ChukInv'
  BY <1>6 DEF ReadChuk, RemoteData, UpdateOutput, Data
<1>7. CASE ReadNothingNew
  BY <1>7 DEF ReadNothingNew, basevars, env
<1>8. CASE ResetChuk
  BY <1>8 DEF ResetChuk, Reset
<1> QED
  BY <1>1, <1>2, <1>3, <1>4, <1>5, <1>6, <1>7, <1>8 DEF NunchukNext, NunchukStep, Around

(* Cruise control of app_nunchuk.c never runs the motor against the        *)
(* direction by more than one step of the stick, for every speed, although *)
(* the remote's data may change between any two reads of a turn, so that   *)
(* the direction changes in the middle of cruise control, through a lost   *)
(* remote, faults and configurations.                                      *)
THEOREM CruiseDirectionIsKept == NunchukSpec => []CruiseKeepsDirection
<1>1. InitBase /\ InitNunchuk => ChukInv
  <2> SUFFICES ASSUME InitBase, InitNunchuk PROVE ChukInv
    OBVIOUS
  <2>1. fault \in BOOLEAN /\ is_reverse \in BOOLEAN
    BY Zenon DEF InitBase, InitNunchuk
  <2> QED
    BY <2>1 DEF InitBase, InitNunchuk, ChukInv, ChukTypeOK
<1>2. ChukInv => CruiseKeepsDirection
  BY DEF ChukInv, Settled, Agrees, CruiseKeepsDirection
<1> QED
  BY <1>1, <1>2, ChukInvNext, PTL DEF NunchukSpec
=============================================================================
