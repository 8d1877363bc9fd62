--------------------------- MODULE MCAppOperations ---------------------------
(* A small app for AppOperations: who calls, and what each may claim. *)
EXTENDS AppOperations

MCOp == {"session", "deploy", "writer", "chat", "other"}
MCResource == {"path", "ref", "tree", "fn"}
MCHalves == {"ref", "tree"}

\* A test session or recording; a function deploy that lets the repository go
\* once it has read it; a repository writer, which may take the functions too; a
\* snapshot of the refs, or a change of the functions; another snapshot, or a
\* rename. Both sessions read the path a rename writes, but neither can start
\* beside the other, so they cannot hold it up in turns.
MCAccess(o) ==
  CASE o = "session" -> {{<<"path", "read">>, <<"ref", "read">>, <<"tree", "write">>}}
    [] o = "deploy"  -> {{<<"path", "read">>, <<"repository", "read">>, <<"fn", "write">>}}
    [] o = "writer"  -> {{<<"repository", "write">>}, {<<"tree", "write">>, <<"fn", "write">>}}
    [] o = "chat"    -> {{<<"ref", "read">>}, {<<"fn", "write">>}}
    [] o = "other"   -> {{<<"ref", "read">>}, {<<"path", "write">>}}

MCSession(o) == o \in {"session", "deploy"}
MCDroppable(o) == IF o = "deploy" THEN {MCHalves} ELSE {}
=============================================================================
