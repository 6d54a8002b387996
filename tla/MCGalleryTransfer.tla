-------------------------- MODULE MCGalleryTransfer --------------------------
(* The plans of a preview, for TLC. *)
EXTENDS GalleryTransfer

\* Imports: of an asset into a group the task creates, and of two assets.
IntoNewGroup == [writes |-> {1, 2}, parent |-> <<0, 1>>, closing |-> {}]
IntoGroup == [writes |-> {1, 2}, parent |-> <<0, 0>>, closing |-> {}]

\* An export to object storage, and one into an archive the browser saves.
ToStorage == [writes |-> {1, 2}, parent |-> <<0, 0>>, closing |-> {2}]
ToArchive == [writes |-> {}, parent |-> <<0, 0>>, closing |-> {2}]

AllPlans == {IntoNewGroup, IntoGroup, ToStorage, ToArchive}
=============================================================================
