------------------------------ MODULE AsyncCall ------------------------------
(***************************************************************************)
(* What an async function promises who awaits it from the other side of    *)
(* the FFI, without polls, wakers, locks or threads: the function computes *)
(* at most one result; the caller is given that very result, at most once; *)
(* it is told Cancelled only if somebody asked for it and no result was    *)
(* there; and a caller that gives up leaves nothing behind.                *)
(*                                                                         *)
(* Both directions implement it: RustFuture, an async Rust function with a *)
(* foreign caller, and ForeignFuture, a foreign one that Rust awaits.      *)
(***************************************************************************)
CONSTANT Results     \* how the function may end

VARIABLES computed,    \* its result: "pending", a result, or "gone"
          answer,      \* what the caller was given, or "none"
          requested    \* somebody asked for cancellation

asyncVars == <<computed, answer, requested>>

AsyncInit ==
    /\ computed = "pending"
    /\ answer = "none"
    /\ requested = FALSE

Compute ==
    /\ computed = "pending"
    /\ computed' \in Results
    /\ UNCHANGED <<answer, requested>>

RequestCancel ==
    /\ ~requested
    /\ requested' = TRUE
    /\ UNCHANGED <<computed, answer>>

Deliver ==
    /\ computed \in Results
    /\ answer' = computed
    /\ computed' = "gone"
    /\ UNCHANGED requested

DeliverCancelled ==
    /\ computed = "pending"
    /\ requested
    /\ answer' = "Cancelled"
    /\ computed' = "gone"
    /\ UNCHANGED requested

\* The caller was itself cancelled, and drops the call.
GiveUp ==
    /\ computed # "gone"
    /\ computed' = "gone"
    /\ UNCHANGED <<answer, requested>>

AsyncNext == Compute \/ RequestCancel \/ Deliver \/ DeliverCancelled \/ GiveUp

AsyncSpec == AsyncInit /\ [][AsyncNext]_asyncVars
=============================================================================
