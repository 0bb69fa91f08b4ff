--------------------------- MODULE MCInstallBuild ---------------------------
(***************************************************************************)
(* Four of the five entries of the script, in its order: app, .packages,    *)
(* one of requirements.txt and alembic.ini, TRANSFER_COMPLETE.             *)
(***************************************************************************)
EXTENDS InstallBuild

TwoDirectories == {1, 2}
=============================================================================
