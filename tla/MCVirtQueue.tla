---------------------------- MODULE MCVirtQueue ----------------------------
(***************************************************************************)
(* Small instances of VirtQueue.                                           *)
(***************************************************************************)
EXTENDS VirtQueue

CONSTANTS
  a, b   \* the buffers

OneOrTwo == {<<a>>, <<a, b>>}

=============================================================================
