----------------------------- MODULE TypeSwitch -----------------------------
(***************************************************************************)
(* Which highlight group a token of C or C++ gets (do_typeswitch in        *)
(* lang/clang/typeid.c).  A token is [ft, punctuation, type_named,         *)
(* last_kind, last_type, cursors]: the first cursor is the one libclang    *)
(* has annotated it with, each other one what the one before refers to; a  *)
(* chain that is longer than any bound is one that goes round in circles.  *)
(* A cursor is [kind, type, def_type, named]: is its spelling the token's? *)
(* Groups are the letters of lang.h; "none" is no group.                   *)
(***************************************************************************)
EXTENDS SequencesExt

Plain == [TypedefDecl |-> "t", TypeAliasDecl |-> "t", TypeAliasTemplateDecl |-> "t", FriendDecl |-> "t",
          ConceptDecl |-> "K", CXXBaseSpecifier |-> "q",
          NamespaceAlias |-> "n", NamespaceRef |-> "n",
          StructDecl |-> "s", UnionDecl |-> "u", EnumDecl |-> "g",
          EnumConstantDecl |-> "e", FlagEnum |-> "e",
          FunctionDecl |-> "f", CallExpr |-> "f", FunctionTemplate |-> "f",
          Constructor |-> "M", Destructor |-> "M", ConversionFunction |-> "M",
          TemplateTypeParameter |-> "O", MacroExpansion |-> "d",
          OverloadedDeclRef |-> "D", TemplateTemplateParameter |-> "T"]

(* Those that are taken only for a token that has their name ...           *)
Checked == [Namespace |-> "n", ClassDecl |-> "c", ClassTemplatePartialSpecialization |-> "T",
            ClassTemplate |-> "T", TemplateRef |-> "T"]
(* ... and those that are a template parameter for any other.              *)
Parameter == [FieldDecl |-> "m", CXXMethod |-> "M", ParmDecl |-> "none"]

Integral == {"Char_U", "UShort", "UInt", "ULong", "ULongLong", "Char_S", "SChar", "Short", "Int", "Long",
             "LongLong"}
Unclear == {"FunctionNoProto", "Atomic", "Typedef"}

-----------------------------------------------------------------------------
At(tok, i) == tok.cursors[i]
Referenced(tok, i) == IF i < Len(tok.cursors) THEN i + 1 ELSE i
RefKind(tok, i) == At(tok, Referenced(tok, i)).kind

sanity_check_name(tok, i) == At(tok, i).named \/ tok.type_named
is_really_template_parameter(tok, i) == ~ At(tok, i).named

InC(tok, i) == CASE RefKind(tok, i) = "EnumConstantDecl" -> "e"
                 [] RefKind(tok, i) = "NonTypeTemplateParameter" -> "N"
                 [] OTHER -> "none"
InCxx(tok, i) == CASE RefKind(tok, i) = "NonTypeTemplateParameter" -> "O"
                   [] RefKind(tok, i) = "TypeRef" -> "t"
                   [] OTHER -> "none"

DeclRefExpr(tok, i) ==
  LET type == At(tok, i).type IN
  CASE type \in Unclear \cup Integral /\ tok.ft = "c" -> InC(tok, i)
    [] type \in Unclear /\ tok.ft = "cpp"             -> InCxx(tok, i)
    [] type \in Integral /\ tok.ft = "cpp"            -> "none"
    [] type = "Enum"                                  -> "e"
    [] type = "FunctionProto"                         -> IF tok.punctuation THEN "O" ELSE "f"
    [] type = "Dependent" /\ tok.ft = "cpp"           -> IF tok.last_type = "Enum" THEN "e" ELSE "none"
    [] type = "Dependent" /\ tok.ft = "c"             -> "t"
    [] OTHER -> IF At(tok, i).def_type = "FunctionProto" THEN "f" ELSE "none"

(* Its own reference: a parameter of type int.                             *)
NonTypeTemplateParameter(tok, i) ==
  IF At(tok, i).type = "Int" /\ Referenced(tok, i) = i
  THEN IF At(tok, i).named THEN "O" ELSE "K"
  ELSE "N"

GroupOf(tok, i) ==
  LET kind == At(tok, i).kind IN
  CASE kind \in DOMAIN Plain -> Plain[kind]
    [] kind \in DOMAIN Checked -> IF sanity_check_name(tok, i) THEN Checked[kind] ELSE "none"
    [] kind \in DOMAIN Parameter -> IF is_really_template_parameter(tok, i) THEN "O" ELSE Parameter[kind]
    [] kind = "TypeRef" /\ tok.ft = "c" -> "t"
    [] kind \in {"MemberRef", "MemberRefExpr"} /\ tok.ft = "c" -> "m"
    [] kind = "NonTypeTemplateParameter" -> NonTypeTemplateParameter(tok, i)
    [] kind = "MacroDefinition" -> IF tok.last_kind = "PreprocessingDirective" THEN "d" ELSE "none"
    [] kind = "DeclRefExpr" -> DeclRefExpr(tok, i)
    [] kind = "VariableRef" -> IF RefKind(tok, i) = "FieldDecl" THEN "m" ELSE "none"
    [] OTHER -> "none"

(* Kinds that send the switch on to what they refer to.                    *)
Retries(tok, i) ==
  \/ At(tok, i).kind = "CompoundStmt"
  \/ tok.ft = "cpp" /\ At(tok, i).kind \in {"MemberRef", "MemberRefExpr"}
  \/ tok.ft = "cpp" /\ At(tok, i).kind = "TypeRef"
       /\ RefKind(tok, i) \notin {"NoDeclFound", "TemplateTypeParameter"}

(* A reference to the parameter of a template, which is not looked at.     *)
Resolved(tok, i) == IF tok.ft = "cpp" /\ At(tok, i).kind = "TypeRef" /\ RefKind(tok, i) = "TemplateTypeParameter"
                    THEN "O" ELSE GroupOf(tok, i)

(* Mutant: one jump is allowed.                                            *)
SafetyOnce == <<1, 2>>
(* goto_safety_count, which is at least 1 whenever it is tested.           *)
Safety == <<1, 2, 3>>

(* The cursor that is left in *last, and the group; none after three jumps. *)
do_typeswitch(tok) ==
  FoldLeft(LAMBDA s, count : CASE s.done -> s
                               [] ~ s.done /\ Retries(tok, s.last) ->
                                    [s EXCEPT !.last = Referenced(tok, s.last)]
                               [] ~ s.done /\ ~ Retries(tok, s.last) ->
                                    [s EXCEPT !.done = TRUE, !.group = Resolved(tok, s.last)],
           [last |-> 1, done |-> FALSE, group |-> "none"], Safety)

(* plugin/Tag-Highlight/c.vim and cpp.vim: the groups there are.           *)
order(ft) == IF ft = "c" THEN {"g", "u", "e", "s", "m", "f", "v", "d", "t"}
             ELSE {"T", "n", "c", "g", "s", "t", "u", "e", "d", "f", "m", "v", "M", "O", "D", "N", "K", "q"}
find_group(ft, group) == IF group \in order(ft) THEN group ELSE "none"
=============================================================================
