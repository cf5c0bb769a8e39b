----------------------------- MODULE Peripherals -----------------------------
(***************************************************************************)
(* The two actuators that both threads of the robot drive: the wheel       *)
(* motors and the loudspeaker.  Their drivers belong to the e-puck2        *)
(* library, which is not in the repository; each operator models one       *)
(* driver call as src/src/dance.c and src/src/obstacle_detection.c use it. *)
(***************************************************************************)
EXTENDS Integers

VARIABLES
  motor,    \* speed of each wheel, as a multiple of DANCE_SPEED
  sound     \* TRUE while the DAC plays a tone

actuators == <<motor, sound>>

Speed   == {-1, 0, 1}
Wheels  == [left : Speed, right : Speed]
Stopped == [left |-> 0, right |-> 0]

left_motor_set_speed(v)  == motor' = [motor EXCEPT !.left = v]
right_motor_set_speed(v) == motor' = [motor EXCEPT !.right = v]

dac_play == sound' = TRUE
dac_stop == sound' = FALSE

PeripheralsInit == motor = Stopped /\ sound = FALSE

PeripheralsTypeOK == motor \in Wheels /\ sound \in BOOLEAN

Still == motor = Stopped
=============================================================================
