-------------------------------- MODULE Absence --------------------------------
(* The value of a field that holds nothing (Python's None), shared by the  *)
(* modules of the laboratory and of the commands.                          *)
CONSTANT None
=============================================================================
