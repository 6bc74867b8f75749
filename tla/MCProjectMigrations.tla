-------------------------- MODULE MCProjectMigrations --------------------------
(***************************************************************************)
(* A project with a scene and a prop, whose names begin alike.             *)
(***************************************************************************)
EXTENDS ProjectMigrations, TLC

CONSTANTS jade, jadecup

MCGlobbed == (jade :> {jade, jadecup}) @@ (jadecup :> {jadecup})
================================================================================
