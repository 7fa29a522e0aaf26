--------------------------- MODULE MCProjectTags ---------------------------
(* Two buffers, in a project or in a directory ctags must not descend into *)
(* (home), of two filetypes, and messages enough for a buffer to be left,  *)
(* destroyed and met again.                                                *)
EXTENDS ProjectTags, TLC
CONSTANTS project, home, c, py
MCBufs == {1, 2}
MCDirs == {project, home}
MCNoRecurse == {home}
MCTypes == {c, py}
Alike == Permutations(MCTypes)   \* filetypes
=============================================================================
