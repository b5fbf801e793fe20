------------------------- MODULE MCCreatorDirectory -------------------------
(* Instances of CreatorDirectory for TLC.  Path 3 is never added: it is the   *)
(* missing target.                                                            *)
EXTENDS CreatorDirectoryInvariant

\* Two paths, with and without a title, one of them titled after the other;
\* with the metadata four MIME types, besides those of the handlers.
mcItems == {[path |-> 1, title |-> 2, mime |-> 5, hint |-> "none", front |-> TRUE],
            [path |-> 1, title |-> Empty, mime |-> Empty, hint |-> "comp", front |-> FALSE],
            [path |-> 2, title |-> 1, mime |-> 5, hint |-> "uncomp", front |-> TRUE]}
mcMetadata == {[path |-> 1, mime |-> 6], [path |-> 2, mime |-> 4]}

\* Redirects that chain, lead in a circle and lead nowhere.
mcRedirects == [path : {1}, title : {3}, target : {2, 3}, front : {TRUE}] \cup
               [path : {2}, title : {Empty}, target : {1, 3}, front : {FALSE}]

mcHandlers == <<TitleIndex, FulltextIndex, ListingV0, ListingV1>>
mcListings == <<ListingV0, ListingV1>>
=============================================================================
