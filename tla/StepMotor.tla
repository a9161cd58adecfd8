----------------------------- MODULE StepMotor ------------------------------
(***************************************************************************)
(* The stepping motor of src/20/motor.c and src/project/pi2.c: four coils  *)
(* on four pins, driven through the half steps one pin at a time.          *)
(*                                                                         *)
(* The rotor belongs to the outside world.  The field of the coils pulls   *)
(* it along, the short way round; a pattern that is no half step, or one   *)
(* on the opposite side, loses the position for good.                      *)
(***************************************************************************)
EXTENDS Integers

CONSTANT Turn     \* cycles of eight half steps in a revolution; 512 in the code

ASSUME TurnType == Turn \in Nat \ {0}

VARIABLES
  coil,      \* the values of PIN1 .. PIN4
  field,     \* the half step the rotor was last pulled to, 1 .. 8
  angle,     \* how far it has turned, in half steps
  slipped    \* it has lost its position

motor == <<coil, field, angle, slipped>>

Pins == 1 .. 4

(* The coils in the order in which forward() and backward() set them.      *)
Bug_forward == <<
  <<1, 0, 0, 0>>, <<1, 1, 0, 0>>, <<0, 1, 0, 0>>, <<0, 1, 1, 0>>,
  <<0, 0, 1, 0>>, <<0, 0, 1, 1>>, <<1, 0, 0, 1>>, <<0, 0, 0, 1>> >>
forward == <<
  <<1, 0, 0, 0>>, <<1, 1, 0, 0>>, <<0, 1, 0, 0>>, <<0, 1, 1, 0>>,
  <<0, 0, 1, 0>>, <<0, 0, 1, 1>>, <<0, 0, 0, 1>>, <<1, 0, 0, 1>> >>

Bug_backward == <<
  <<1, 0, 0, 1>>, <<0, 0, 0, 1>>, <<0, 0, 1, 1>>, <<0, 0, 1, 0>>,
  <<0, 1, 1, 0>>, <<0, 1, 0, 0>>, <<1, 0, 0, 0>>, <<1, 1, 0, 0>> >>
backward == <<
  <<1, 0, 0, 1>>, <<0, 0, 0, 1>>, <<0, 0, 1, 1>>, <<0, 0, 1, 0>>,
  <<0, 1, 1, 0>>, <<0, 1, 0, 0>>, <<1, 1, 0, 0>>, <<1, 0, 0, 0>> >>

(* The cycles for an angle in degrees.                                     *)
Degree(round) ==
  IF round > 360 THEN Turn * (round \div 360) ELSE Turn \div (360 \div round)

Off == <<0, 0, 0, 0>>

(* The half steps in the order of the field, which is what turns the rotor,*)
(* and the short way from one to another, -3 .. 4.                         *)
HalfSteps == <<
  <<1, 0, 0, 0>>, <<1, 1, 0, 0>>, <<0, 1, 0, 0>>, <<0, 1, 1, 0>>,
  <<0, 0, 1, 0>>, <<0, 0, 1, 1>>, <<0, 0, 0, 1>>, <<1, 0, 0, 1>> >>

Way(f, h) == ((h - f + 3) % 8) - 3

MotorInit == coil = Off /\ field = 1 /\ angle = 0 /\ slipped = FALSE

(* The rotor after the coils were set to c.                                *)
Follow(c) ==
  \/ c = Off /\ UNCHANGED <<field, angle, slipped>>
  \/ \E h \in 1 .. 8 :
       /\ c = HalfSteps[h] /\ field' = h
       /\ IF Way(field, h) = 4
          THEN slipped' = TRUE /\ UNCHANGED angle
          ELSE angle' = angle + Way(field, h) /\ UNCHANGED slipped
  \/ /\ c # Off /\ \A h \in 1 .. 8 : c # HalfSteps[h]
     /\ slipped' = TRUE /\ UNCHANGED <<field, angle>>

(* gpio_set_value of one of the pins                                       *)
SetPin(k, v) == coil' = [coil EXCEPT ![k] = v] /\ Follow(coil')
=============================================================================
