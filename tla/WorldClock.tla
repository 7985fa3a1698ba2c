------------------------------ MODULE WorldClock ------------------------------
(***************************************************************************)
(* The time of a world (World.c, cdsurvival_TimeIncrease of the base       *)
(* plugin's main.c): a 16 bit number that a timer of the time loop moves   *)
(* on by a rate that depends on the time of day. Nobody else sets it once  *)
(* the world is made; workers and the other timers read it in between.     *)
(***************************************************************************)
EXTENDS Integers

CONSTANTS
    Width,                          \* 2^16
    Sunset, Night, Sunrise, Day,    \* 12000, 13800, 22200, 24000
    Rates                           \* rates of a world: world->config.cache.rate

ASSUME ClockAssumption ==
    /\ Sunset \in Nat /\ Night \in Nat /\ Sunrise \in Nat /\ Day \in Nat /\ Width \in Nat
    /\ 0 < Sunset /\ Sunset < Night /\ Night < Sunrise /\ Sunrise < Day /\ Day < Width
    /\ Rates \subseteq [day : Int, sunset : Int, night : Int, sunrise : Int]

VARIABLES
    rate,       \* nobody sets it: whatever the memory of the world held
    time,       \* world->time
    carry       \* the timer has moved the time on and has yet to wrap it

clockVars == <<rate, time, carry>>

\* A new world starts at 0 or at the time that was saved, cut to 16 bits.
ClockInit ==
    /\ rate \in Rates
    /\ time \in 0..(Width - 1)
    /\ carry = FALSE

\* The rate of a time of day; none past its end. The variant leaves a gap.
RateAtWithGap(t) ==
    CASE t < Sunset -> rate.day
      [] t > Sunset /\ t < Night -> rate.sunset
      [] t >= Night /\ t < Sunrise -> rate.night
      [] t >= Sunrise /\ t < Day -> rate.sunrise
      [] OTHER -> 0
RateAt(t) ==
    CASE t < Sunset -> rate.day
      [] t >= Sunset /\ t < Night -> rate.sunset
      [] t >= Night /\ t < Sunrise -> rate.night
      [] t >= Sunrise /\ t < Day -> rate.sunrise
      [] OTHER -> 0

\* The time is read, moved on and set; then it is wrapped, in a second write.
TimeIncrease ==
    /\ ~ carry
    /\ time' = (time + RateAt(time)) % Width
    /\ carry' = TRUE
    /\ UNCHANGED rate

TimeWrap ==
    /\ carry
    /\ time' = IF time >= Day THEN time - Day ELSE time
    /\ carry' = FALSE
    /\ UNCHANGED rate

ClockNext == TimeIncrease \/ TimeWrap

------------------------------------------------------------------------------
(* Properties *)

\* Every time of day is left again: with rates that move on by less than half
\* a day, day and night follow each other for ever, from whatever time was saved;
\* and with any rates the time comes back into the day (main.c:46-72).
DayAndNight ==
    /\ []<>(time < Day)
    /\ (\A p \in DOMAIN rate : rate[p] > 0 /\ rate[p] < Sunrise - Night)
           => []<>(time < Sunset) /\ []<>(time >= Night)
==============================================================================
