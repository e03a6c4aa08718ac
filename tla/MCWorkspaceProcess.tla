------------------------ MODULE MCWorkspaceProcess --------------------------
(* Five bytes against a tail of two: chunks shorter, as long as and longer *)
(* than the buffer, read at every boundary.                                *)
EXTENDS WorkspaceProcess
=============================================================================
