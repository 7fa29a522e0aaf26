---------------------------- MODULE ProjectDirs ----------------------------
(***************************************************************************)
(* Where ctags is run for a buffer, and in which file the result is kept   *)
(* (init_topdir and its helpers in buffer.c).  A path is a sequence of     *)
(* characters, of which "/" separates names; the settings file is a        *)
(* sequence of lines, each with the path before its first tab, and the     *)
(* filetype after it, or None where there is no tab.                       *)
(***************************************************************************)
EXTENDS Integers, SequencesExt

CONSTANTS None

ASSUME NoneAssumption == None \notin {"c", "cpp", "go"}

(* strstr: a path is looked for anywhere within another.                   *)
Within(p, dir) == \E i \in 0 .. Len(dir) - Len(p) : SubSeq(dir, i + 1, i + Len(p)) = p

(* Mutant: the filetype is not looked at.                                  *)
AnyFiletype(line, ft) == line.ft # None

MatchesFiletype(line, ft) ==
  line.ft # None /\ (IF ft \in {"c", "cpp"} THEN line.ft \in {"c", "cpp"} ELSE line.ft = ft)

Candidate(line, dir, ft) == MatchesFiletype(line, ft) /\ Within(line.path, dir)

get_project_directory_candidates(settings, dir, ft) ==
  LET one(found, line) == IF Candidate(line, dir, ft) THEN Append(found, line) ELSE found
  IN  FoldLeft(one, <<>>, settings)

(* The longest of the candidates, the first of those equally long.         *)
check_project_directories(settings, dir, ft) ==
  LET candidates == get_project_directory_candidates(settings, dir, ft)
      longer(longest, c) == IF Len(c.path) > Len(longest) THEN c.path ELSE longest
  IN  FoldLeft(longer, IF candidates = <<>> THEN dir ELSE candidates[1].path, candidates)

check_norecurse_directories(norecurse, dir) == dir \notin norecurse

(* b_dirname, and what init_topdir makes of it: the directory, and the     *)
(* base that the tags file is named for.                                   *)
b_dirname(full) == SubSeq(full, 1, (CHOOSE i \in 1 .. Len(full) :
                                      full[i] = "/" /\ \A j \in i + 1 .. Len(full) : full[j] # "/") - 1)

init_topdir(settings, norecurse, full, ft) ==
  LET dir == check_project_directories(settings, b_dirname(full), ft)
      recurse == check_norecurse_directories(norecurse, dir)
  IN  [dir |-> dir, recurse |-> recurse, base |-> IF recurse THEN dir ELSE full]

(* A separator becomes two characters that names may have as well.         *)
Escaped(ch) == IF ch = "/" THEN <<"_", "_">> ELSE <<ch>>
get_tag_filename(base, ft) ==
  FlattenSeq([i \in 1 .. Len(base) |-> Escaped(base[i])]) \o <<".", ft>>

-----------------------------------------------------------------------------
(* What the comments promise: a directory that is listed is the base of    *)
(* all that is under it.                                                   *)
Under(p, dir) == IsPrefix(p, dir) /\ (Len(dir) = Len(p) \/ dir[Len(p) + 1] = "/")

(* A path whose names neither begin nor end with an underscore and have no *)
(* two in a row.                                                           *)
PlainPath(p) == \A i \in 1 .. Len(p) :
              p[i] = "_" => 1 < i /\ i < Len(p) /\ p[i - 1] \notin {"/", "_"} /\ p[i + 1] \notin {"/", "_"}
=============================================================================
