----------------------------- MODULE MCFilePool -----------------------------
(***************************************************************************)
(* Four threads share two handles, so that a thread can be parked while    *)
(* another is woken and a third takes the handle first.                    *)
(***************************************************************************)
EXTENDS FilePool

CONSTANTS t1, t2, t3, t4

MCThreads == {t1, t2, t3, t4}
=============================================================================
