---------------------------- MODULE ArchiveWriter ----------------------------
(***************************************************************************)
(* What zim::writer::Creator promises to its caller, threads, clusters and *)
(* queues left out: entries are accepted one call at a time, and           *)
(* finishZimCreation makes the archive appear under its name in a single   *)
(* step, with each accepted entry reading back as its own content and the  *)
(* full text index made of exactly the items that have something to index. *)
(***************************************************************************)
CONSTANTS Items,      \* what the caller may add
          Extra,      \* the entries the creator adds by itself
          Indexed     \* the items that end up in the full text index

VARIABLES accepted,   \* entries accepted so far
          phase,      \* "open", "finishing" or "published"
          archive,    \* entry -> contents a reader of the published file finds
          index       \* documents of the published index

avars == <<accepted, phase, archive, index>>

Init == /\ accepted = {}
        /\ phase = "open"
        /\ archive = <<>>
        /\ index = {}

Accept(i) == /\ phase = "open"
             /\ i \in Items \ accepted
             /\ accepted' = accepted \cup {i}
             /\ UNCHANGED <<phase, archive, index>>

Finish == /\ phase = "open"
          /\ phase' = "finishing"
          /\ UNCHANGED <<accepted, archive, index>>

Publish == /\ phase = "finishing"
           /\ phase' = "published"
           /\ archive' = [e \in accepted \cup Extra |-> {e}]
           /\ index' = accepted \cap Indexed
           /\ UNCHANGED accepted

Next == (\E i \in Items : Accept(i)) \/ Finish \/ Publish

SafeSpec == Init /\ [][Next]_avars

Spec == SafeSpec /\ WF_avars(Publish)
=============================================================================
