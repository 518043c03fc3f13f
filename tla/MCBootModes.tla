----------------------------- MODULE MCBootModes -----------------------------
(***************************************************************************)
(* The keys and the options the loader tells apart, each alone, and in the *)
(* combinations it treats differently.                                     *)
(***************************************************************************)
EXTENDS BootModes

SomeKeys == {{}, {"Shift"}, {"Shift", "Command", "R"}, {"Command", "S"},
             {"Command", "V", "S", "Minus"}}
SomeOptions == {{}, {"-x"}, {"-s", "slide=1"}, {"-no_panic_dialog", "slide=0"}}
NoKeys == {{}}
NoOptions == {{}}
=============================================================================
