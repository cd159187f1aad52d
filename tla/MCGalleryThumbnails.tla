------------------------ MODULE MCGalleryThumbnails ------------------------
(* Three thumbnails, two workers, and two requests whose ranges overlap. *)
EXTENDS GalleryThumbnails

MCItems == 0 .. 2
MCRequests == {"q1", "q2"}
MCBatch == [q \in MCRequests |-> IF q = "q1" THEN {0, 1, 2} ELSE {2}]

=============================================================================
