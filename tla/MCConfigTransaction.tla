------------------------ MODULE MCConfigTransaction ------------------------
(***************************************************************************)
(* A gateway in legacy mode, without the optional files, is migrated to    *)
(* providers and clients and edited on; one proposal does not load.        *)
(***************************************************************************)
EXTENDS ConfigTransaction

MCContents == {"v0", "v1", "v2", "absent"}

Legacy   == [f \in Files |-> IF f \in {"providers", "clients"} THEN "absent" ELSE "v0"]
Migrated == [f \in Files |-> IF f = "clients" THEN "absent" ELSE "v1"]
Edited   == [f \in Files |-> IF f = "providers" THEN "v1" ELSE "v2"]
Broken   == [Edited EXCEPT !["routes"] = "v0"]

MCValid == {Legacy, Migrated, Edited}
MCSnapshots == MCValid \cup {Broken}
=============================================================================
