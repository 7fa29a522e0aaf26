---------------------------- MODULE MCAlgorithms ----------------------------
(* Instances of Algorithms for TLC.                                        *)
EXTENDS Algorithms

(* Numbers around every boundary between two forms, written with few bytes *)
(* that matter.                                                            *)
Tails == {<<a>> : a \in {0, 1, 127, 128, 129, 223, 224, 254, 255}}
           \cup {<<a, b>> : a, b \in {0, 1, 127, 128, 255}}
           \cup {<<a, 0, 255, b>> : a, b \in {0, 127, 128, 255}}
           \cup {<<a, 0, 0, 0, 255, 0, 0, b>> : a, b \in {0, 127, 128, 255}}
SomeNumbers == {Rep(f, 8 - Len(t)) \o t : f \in {0, 255}, t \in Tails}

SomeStrings == {Rep(7, n) : n \in {0, 1, 31, 32, 254, 255, 256}}
EdgeLengths == {0, 1, 15, 16, 17, 31, 32, 33, 254, 255, 256, 65534, 65535, 65536, 2147483647}
EdgeHandles == {0, 1, 127, 128, 255, 256, 257, 4660, 65535, 65536, 16777216}

CharsOf == [c |-> {"a", "/", "*", "\"", "\\", " "}, group |-> {"a", "#if 0", "#if", "#else", "#endif"},
            python |-> {"a", "1", "\"", "'", "#", "\\"}]
TextOf == [c |-> 6, group |-> 7, python |-> 6]

Line(name, file, kind, lang, skip) == [name |-> name, file |-> file, kind |-> kind, lang |-> lang, skip |-> skip]
SomeLines == {Line(1, "here", 2, "C", FALSE), Line(1, "there", 3, "C++", FALSE),
              Line(2, "there", 1, "C", FALSE), Line(2, "there", 2, "C", FALSE),
              Line(3, "here", 1, "C", FALSE), Line(3, "there", 1, "Go", FALSE),
              Line(2, "there", 0, "C", TRUE)}
SomeBuffers == {[file |-> "here", words |-> w, order |-> {1, 2}, equiv |-> <<<<3, 2>>, <<3, 1>>>>, ignored |-> i,
                 lang |-> "C", c_family |-> c] :
                w \in {{}, {1}, {1, 2}}, i \in {{}, {1}}, c \in BOOLEAN}

(* /a, /a/b and /a_ are listed, and /a must not be descended into.         *)
Entry(path, ft) == [path |-> path, ft |-> ft]
Entries == {Entry(<<"/", "a">>, "c"), Entry(<<"/", "a", "/", "b">>, "cpp"), Entry(<<"/", "b">>, "go"),
            Entry(<<"/", "a", "_">>, "cpp"), Entry(<<"/", "a">>, "none")}
SomeSettings == {<<>>} \cup {<<e>> : e \in Entries} \cup (Entries \X Entries)
SomeNoRecurse == {<<"/", "a">>, <<"/", "a", "_", "/", "b">>}

(* One cursor of each kind, with and without the token's name, and with    *)
(* each type where that is looked at.                                      *)
Cursor(kind, type, def, named) == [kind |-> kind, type |-> type, def_type |-> def, named |-> named]
Kinds == DOMAIN Plain \cup DOMAIN Checked \cup DOMAIN Parameter
           \cup {"NoDeclFound", "MacroDefinition", "VariableRef"}
SomeCursors ==
  {Cursor(k, "other", "other", TRUE) : k \in {"TypeRef", "MemberRef", "MemberRefExpr", "CompoundStmt"}}
    \cup {Cursor(k, "other", "other", n) : k \in Kinds, n \in BOOLEAN}
    \cup {Cursor("NonTypeTemplateParameter", t, "other", n) : t \in {"Int", "other"}, n \in BOOLEAN}
    \cup {Cursor("DeclRefExpr", t, d, TRUE) :
            t \in {"Typedef", "Int", "Enum", "FunctionProto", "Dependent", "other"}, d \in {"FunctionProto", "other"}}
Context(ft, p, n, k, t) == [ft |-> ft, punctuation |-> p, type_named |-> n, last_kind |-> k, last_type |-> t]
SomeContexts == {Context("cpp", FALSE, n, "other", t) : n \in BOOLEAN, t \in {"Enum", "other"}}
                  \cup {Context("cpp", TRUE, FALSE, "other", "other")}
                  \cup {Context("c", FALSE, n, k, "other") : n \in BOOLEAN, k \in {"PreprocessingDirective", "other"}}

(* Lines of ten characters; two names, one of them to be ignored, and one  *)
(* of another file.                                                        *)
SomeFile == [name |-> "here", lines |-> <<10, 10, 10>>]
Object(class, under, method, field, global) ==
  [class |-> class, under |-> under, method |-> method, field |-> field, global |-> global]
Func(method) == Object("func", "signature", method, FALSE, FALSE)
Named(class, under) == Object(class, under, FALSE, FALSE, FALSE)
Var(under, field, global) == Object("var", under, FALSE, field, global)
SomeObjects == {Func(TRUE), Func(FALSE), Named("const", "other"), Named("pkgname", "other"), Named("label", "other")}
                 \cup {Named("typename", u) : u \in {"interface", "struct", "other"}}
                 \cup {Var("signature", f, FALSE) : f \in BOOLEAN}
                 \cup {Var("other", FALSE, g) : g \in BOOLEAN}
Ident(name, file, line, col, object) ==
  [name |-> name, len |-> 3, file |-> file, line |-> line, col |-> col, object |-> object]
SomeIdents == {Ident(1, "here", 2, 1, Named("const", "other"))}
                \cup {Ident(1, "here", 2, 4, o) : o \in SomeObjects}
                \cup {Ident(2, "here", 1, 2, Func(FALSE)), Ident(3, "there", 1, 2, Func(FALSE)),
                      Ident(3, "here", 3, 8, Func(TRUE))}
=============================================================================
