------------------------- MODULE MCCreatorPipeline -------------------------
(* Instances of CreatorPipeline for TLC. *)
EXTENDS CreatorPipelineInvariant, TLC

CONSTANTS page, image, title, w1, w2   \* model values

handlerSize == ("titleIndex" :> 6) @@ ("fulltextIndex" :> 9) @@
               ("listingV0" :> 4) @@ ("listingV1" :> 0)

mcItems == {page, image, title}
mcSize == (page :> 10) @@ (image :> 10) @@ (title :> 0) @@ handlerSize

mcTwoItems == {page, title}
mcTwoSize == (page :> 10) @@ (title :> 3) @@ handlerSize
mcWorkers == {w1, w2}
workerSymmetry == Permutations(mcWorkers)
=============================================================================
