------------------------------ MODULE RustParts ------------------------------
(***************************************************************************)
(* Two tasks of the Rust client that share no state: the loop of an event  *)
(* subscription (events.rs) and the uploads (upload.rs).  They are explored *)
(* one at a time: `part' says which.  The other stands in its initial      *)
(* state, in which no task runs.                                           *)
(***************************************************************************)
EXTENDS EventFeed, Upload

VARIABLE part

rust_vars == <<part, feed_vars, vars>>

RustInit == part \in {"feed", "upload"} /\ FeedInit /\ Init

RustNext ==
    \/ part = "feed" /\ FeedNext /\ UNCHANGED <<part, vars>>
    \/ part = "upload" /\ Next /\ UNCHANGED <<part, feed_vars>>

\* The runtime runs every task of either part.
RustFairSpec == RustInit /\ [][RustNext]_rust_vars /\ WF_feed_vars(FeedTask) /\ Fairness
=============================================================================
