---------------------------- MODULE MCShellFiles ----------------------------
(***************************************************************************)
(* Instances of ShellFiles for TLC, and what usermode/mv.h says of mv that *)
(* mv does not do.                                                         *)
(***************************************************************************)
EXTENDS ShellFiles

MCStartupFiles == <<<<"a", "x">>>>

(* mv.h:4, "if arg is a valid directory, move file to that directory ...   *)
(* else rename file to arg": what disappears under the old name is there,  *)
(* whole, under the new one.                                               *)
RenameKeepsTheFile ==
  [][cmd.name = "rename" =>
       \A e \in StoreOnDisk \ StoreOnDisk' :
         IsEntryOf(e, cmd.from) /\ e.content \in FileContents
         => IsIn(StoreOnDisk', e, cmd.to)]_allVars
=============================================================================
