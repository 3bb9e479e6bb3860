------------------------------- MODULE MCAuth --------------------------------
(* Instances of OldAuth for TLC: a process at the terminal, and one behind *)
(* it, of which one is the original program.                               *)
EXTENDS OldAuth

One == {"p1"}
Two == {"p1", "p2"}
(* Ctrl-C and Ctrl-Z; Ctrl-\ is masked and fatal as Ctrl-C is.            *)
FromKeyboard == {"INT", "TSTP"}
EitherOne == {{"p1"}, {"p2"}}
NoneIsOld == {{}}
==============================================================================
