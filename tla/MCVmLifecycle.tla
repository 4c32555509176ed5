---------------------------- MODULE MCVmLifecycle ----------------------------
(***************************************************************************)
(* Two RAM chunks, so that a snapshot can be half new and half old, and    *)
(* two guest changes: one before a hibernation and one after it.           *)
(***************************************************************************)
EXTENDS VmLifecycle

AnyPoint == Point
=============================================================================
