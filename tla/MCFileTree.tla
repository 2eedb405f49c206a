----------------------------- MODULE MCFileTree -----------------------------
(* A folder with two subfolders, and its parent; one slot for requests.     *)
EXTENDS FileTree, TLC
CONSTANTS home, jobs, plans, notes

MCFolders == {home, jobs, plans, notes}
MCParent == (jobs :> home) @@ (plans :> jobs) @@ (notes :> jobs)
=============================================================================
