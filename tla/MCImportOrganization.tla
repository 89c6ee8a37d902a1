------------------------ MODULE MCImportOrganization ------------------------
(* Small instances of ImportOrganization for TLC. *)
EXTENDS ImportOrganization

MCOnePerBatch == [e \in Entries |-> e]
=============================================================================
