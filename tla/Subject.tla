------------------------------ MODULE Subject ------------------------------
(* The value a behaviour of the runs over pure code looks at: a record whose *)
(* part says what it is.                                                     *)
VARIABLE subject
=============================================================================
