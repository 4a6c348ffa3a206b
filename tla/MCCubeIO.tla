------------------------------ MODULE MCCubeIO ------------------------------
(* cube_io_pwm_exec with both states of the safety switch; or disarmed,    *)
(* together with another setter, that of the default rate, which pushes    *)
(* nothing when its value is the one the driver has and may change it      *)
(* while the change before is being served.  Enough spoiled attempts for a *)
(* request to fail altogether, and for a lost one to pass for done.        *)
EXTENDS CubeIO

MCValues == {1, 2}
OneValue == {1}
MCSettings == {"SET_DEFAULT_RATE"}
NoSettings == {}
AnyArms == BOOLEAN
NoArms == {FALSE}
=============================================================================
