----------------------------- MODULE MCDayWindow -----------------------------
(***************************************************************************)
(* Small instances of DayWindow.  A window of three days has a first, a    *)
(* middle and a last day, and four slots wrap within the four days that    *)
(* the clock runs; the clock can step back over one midnight and over the  *)
(* reconciliation minute.                                                  *)
(***************************************************************************)
EXTENDS DayWindow
===============================================================================
