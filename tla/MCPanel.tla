------------------------------- MODULE MCPanel -------------------------------
(***************************************************************************)
(* A small instance of Panel: the LVGL task, and a console next to it.     *)
(***************************************************************************)
EXTENDS Panel

CONSTANTS console, b1           (* model values: tasks                     *)
=============================================================================
