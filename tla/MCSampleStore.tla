---------------------------- MODULE MCSampleStore ----------------------------
(***************************************************************************)
(* Instances of SampleStore: a retention of one or two seconds, so that    *)
(* rows age, are archived and deleted within a few steps of the clock.     *)
(***************************************************************************)
EXTENDS SampleStore

OldRow == {-3}

QuietOrOneTrouble == {{}, {"import"}, {"power"}}
OnlyImport == {{"import"}}
===============================================================================
