----------------------------- MODULE MCRunTests -----------------------------
(***************************************************************************)
(* run_tests.py against a process that may do anything, on listings that   *)
(* reach every line of the script.                                         *)
(***************************************************************************)
EXTENDS RunTests

Sizes == [
  none   |-> 0,      \* the process printed nothing
  block  |-> 300,    \* a test block
  limit  |-> 2048,   \* a block of exactly 2 ** 21 bytes
  large  |-> 2049,   \* a block just above the limit
  packed |-> 100,    \* some other base64
  prose  |-> None,   \* ASCII, not base64
  latin  |-> None,   \* UTF-8, not ASCII
  binary |-> None    \* not UTF-8
]

MCTexts == DOMAIN Sizes
MCListings == {
  <<>>,
  <<"block", "limit">>,
  <<"block", "large", "block">>,
  <<"latin">>,
  <<"none">> }
=============================================================================
