------------------------------ MODULE PidControl ------------------------------
(***************************************************************************)
(* The control loop of hvac_controller (Embedded/hvac_controller.c), its   *)
(* PID controller (pid.c) and the room it simulates, which it does in      *)
(* hardware mode too.  One step is one second, dt.                         *)
(*                                                                         *)
(* Floats are fixed-point numbers.  Temperatures are differences from the  *)
(* setpoint in degrees / Degree, powers are percentages: Degree stands for *)
(* 100%, so that a power of n heats the room by n in one second.           *)
(***************************************************************************)
EXTENDS Integers

CONSTANT Degree     \* fixed-point units of a degree

ASSUME DegreeAssumption == Degree \in Nat /\ Degree >= 50

VARIABLES
    temp,       \* current_temp - setpoint
    integral,   \* PIDController.integral
    prevError,  \* PIDController.prev_error
    heater,     \* heater_power
    cooler,     \* cooler_power
    reached     \* history: this controller has had the setpoint

pidVars == <<temp, integral, prevError, heater, cooler, reached>>

Clamp(x, low, high) == IF x > high THEN high ELSE IF x < low THEN low ELSE x

\* 0.02 degrees per second.
NaturalCooling == Degree \div 50

\* simulate_temperature_physics.
Physics(t, h, c) == t + h - c - NaturalCooling

\* Mutant of Integral: no anti-windup.
IntegralUnclamped(i, error) == i + error

\* Mutant of Integral: starts again at the setpoint.
IntegralReset(i, error) == IF error <= 0 THEN 0 ELSE Clamp(i + error, -100 * Degree, 100 * Degree)

\* pid_compute: the integral, clamped to +-100.
Integral(i, error) == Clamp(i + error, -100 * Degree, 100 * Degree)

\* pid_compute: kp = 2, ki = 0.5, kd = 1, clamped to 0..100%.
Output(error, i, prev) ==
    Clamp((4 * error + i + 2 * (error - prev)) \div 200, 0, Degree)

\* pid_init and the start of run_hvac_loop: five degrees below the setpoint,
\* whatever the room had before.
PidInit ==
    /\ temp = -5 * Degree
    /\ integral = 0 /\ prevError = 0
    /\ heater = 0 /\ cooler = 0
    /\ reached = FALSE

PidReset ==
    /\ temp' = -5 * Degree
    /\ integral' = 0 /\ prevError' = 0
    /\ heater' = 0 /\ cooler' = 0
    /\ reached' = FALSE

\* An iteration of run_hvac_loop.
Iterate ==
    /\ temp' = Physics(temp, heater, cooler)
    /\ integral' = Integral(integral, -temp')
    /\ prevError' = -temp'
    /\ LET output == Output(-temp', integral', prevError)
       IN  /\ heater' = IF temp' < 0 THEN output ELSE 0
           /\ cooler' = IF temp' < 0 THEN 0 ELSE output
    /\ reached' = (reached \/ temp' >= 0)

PidSpec == PidInit /\ [][Iterate]_pidVars

----------------------------------------------------------------------------
(* Properties *)

PidTypeOK ==
    /\ temp \in Int /\ prevError \in Int
    /\ integral \in -100 * Degree .. 100 * Degree
    /\ heater \in 0..Degree /\ cooler \in 0..Degree
    /\ reached \in BOOLEAN

\* Once the room has been at the setpoint, the controller keeps it within
\* three fifths of a degree, although heater and cooler take turns for ever.
StaysNear == reached => 5 * temp \in -3 * Degree .. 3 * Degree

\* One controller serves both sides: at the setpoint the integral that heating
\* has wound up drives the cooler as well and does not go away, so that one of
\* the two always runs at a quarter of its power or more.
WindupDrivesBoth == reached => integral > 0 /\ 4 * (heater + cooler) >= Degree
=============================================================================
