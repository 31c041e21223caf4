---------------------------- MODULE MCOperModes ----------------------------
(* Instance of OperModes for TLC: two oper types, one whose mode string  *)
(* sets a user mode and a snomask parameter, one without a sign.          *)
EXTENDS OperModes

MCConfigs ==
    { << [name |-> "NetAdmin", modes |-> <<"+", "s", " ", "+", "c">>],
         [name |-> "Helper",   modes |-> <<"w">>] >>,
      << [name |-> "Helper",   modes |-> <<>>] >> }
====
