-------------------------- MODULE MCWorkspaceSaver --------------------------
EXTENDS WorkspaceSaver
=============================================================================
