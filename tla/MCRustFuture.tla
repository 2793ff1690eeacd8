---------------------------- MODULE MCRustFuture ----------------------------
(* One async call with two awaited operations, one early wake and a canceller. *)
EXTENDS RustFuture

CONSTANTS e1, e2

MCEvents == {e1, e2}
MCThreads == {e1, e2, Caller, Canceller}

\* A poll per wake, and the first one: 1 + 2 events + 1 early wake.
MCCallbacks == 1..(1 + Cardinality(MCEvents) + MaxSpurious)
=============================================================================
