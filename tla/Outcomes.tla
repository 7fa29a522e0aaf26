------------------------------ MODULE Outcomes ------------------------------
(***************************************************************************)
(* What becomes of a tags file, a token, the passes over a buffer, and the *)
(* path of one: the properties of Algorithms that hold for inputs of any   *)
(* size.                                                                   *)
(***************************************************************************)
EXTENDS TagSearch, TypeSwitch, AtomicCalls, ProjectDirs

CONSTANTS MaxThreads, \* threads that search
          norecurse   \* directories ctags is not to descend into

ASSUME NoRecurseAssumption == norecurse \subseteq Seq(STRING)

VARIABLES input

-----------------------------------------------------------------------------
(* However many threads search, update_commands makes a command of exactly *)
(* the tags of each kind that pass the filter, each once: the slices miss  *)
(* no line, and the sorted list has each kind's tags in one run.           *)
TagsFound ==
  input.kind = "tags" =>
    LET b == input.val.buffer
        lines == input.val.lines
        due(kind) == IF b.words = {} THEN {}
                     ELSE {lines[i].name : i \in {j \in 1 .. Len(lines) : /\ Included(b, lines[j])
                                                                          /\ Equivalent(b, lines[j].kind) = kind}}
    IN  \A n \in 1 .. MaxThreads :
          LET tags == process_tags(b, lines, n)
          IN  /\ \A kind \in b.order : handle_kind(tags, kind) = due(kind)
              /\ \A i, j \in 1 .. Len(tags) : tags[i] = tags[j] => i = j

(* However messages overtake each other, neovim shows the highlights of    *)
(* one pass, or of one and of the first, which does not clear anything.    *)
OnePass ==
  input.kind = "passes" => Cardinality({h[1] : h \in Shown(input.val)} \ {1}) <= 1

(* A buffer's base is the deepest directory listed for its filetype that   *)
(* it is under, or its own: unless a path that is listed occurs within its *)
(* directory without being above it (strstr in buffer.c).  Two bases or    *)
(* filetypes never share a tags file, unless a name has underscores where  *)
(* they could be taken for a separator.                                    *)
Directories == {input.val.settings[i].path : i \in 1 .. Len(input.val.settings)} \cup norecurse
BaseChosen ==
  input.kind = "path" =>
    \A ft \in {"c", "cpp", "go"} :
      LET settings == input.val.settings
          dir == b_dirname(input.val.full)
          mine == {i \in 1 .. Len(settings) : settings[i].ft = ft \/ {settings[i].ft, ft} = {"c", "cpp"}}
          above == {settings[i].path : i \in {j \in mine : Under(settings[j].path, dir)}}
          top == init_topdir(settings, norecurse, input.val.full, ft)
      IN  /\ \/ \E i \in mine : settings[i].path \notin above /\ Within(settings[i].path, dir)
             \/ above = {} /\ top.dir = dir
             \/ top.dir \in above /\ \A p \in above : Len(p) <= Len(top.dir)
          /\ top.base = IF top.dir \in norecurse THEN input.val.full ELSE top.dir
          /\ \A p \in Directories, other \in {"c", "cpp", "go"} :
               get_tag_filename(top.base, ft) = get_tag_filename(p, other) =>
                 (p = top.base \/ ~ PlainPath(p) \/ ~ PlainPath(top.base)) /\ other = ft

(* The kinds of cursor that are not of C.                                  *)
CxxOnly == DOMAIN Checked \cup {"NonTypeTemplateParameter", "CXXMethod", "TypeAliasDecl", "TypeAliasTemplateDecl",
            "FriendDecl", "ConceptDecl", "CXXBaseSpecifier", "NamespaceAlias", "NamespaceRef", "FunctionTemplate",
            "Constructor", "Destructor", "ConversionFunction", "TemplateTypeParameter", "OverloadedDeclRef",
            "TemplateTemplateParameter"}

(* A token is highlighted as what it refers to in the end would be, and    *)
(* what follows it is compared with that ("last"), through up to two       *)
(* references; through more, or through a circle, it is not highlighted.   *)
(* Where it has the name of what it refers to, its filetype has a group    *)
(* for it in the vimscript half.                                           *)
TypesResolved ==
  input.kind = "token" =>
    LET tok == input.val
        r == do_typeswitch(tok)
        ends == {i \in 1 .. Len(tok.cursors) : ~ Retries(tok, i)}
        i == CHOOSE i \in ends : \A j \in ends : i <= j
    IN  /\ IF ends # {} /\ i <= 3
           THEN /\ r.last = i
                /\ r.group = do_typeswitch([tok EXCEPT !.cursors = SubSeq(@, i, Len(@))]).group
           ELSE r.group = "none"
        /\ (\A c \in ToSet(tok.cursors) : c.named /\ c.kind \notin CxxOnly) \/ tok.ft = "cpp" =>
             find_group(tok.ft, r.group) = r.group
=============================================================================
