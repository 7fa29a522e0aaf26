---------------------------- MODULE MpackExpect ----------------------------
(***************************************************************************)
(* mpack_expect (mpack/mpack.c): a decoded object is read as the type its  *)
(* user names.  If it has another one, the default is returned, unless     *)
(* alternatives are named; then it is to be read as what it is.            *)
(***************************************************************************)
EXTENDS MpackCodec

(* The bits of mpack_expect_t, in the order in which they are tested.      *)
Bits == <<"ARRAY", "DICT", "EXT", "BOOL", "NUM", "STRING", "WSTRING", "STRLIST", "DICT2ARR", "NIL">>
Tested(type) == Bits[CHOOSE i \in 1 .. Len(Bits) : Bits[i] \in type /\ \A j \in 1 .. i - 1 : Bits[j] \notin type]

AllTypes == {"bool", "nil", "signed", "unsigned", "ext", "string", "array", "dict"}

(* Nothing is tested of an object that is read as an array.                *)
(* Mutant: a number is not accepted for a boolean.                         *)
accepted_strictly(bit) == CASE bit = "ARRAY" -> AllTypes
                            [] bit = "DICT"  -> {"dict"}
                            [] bit = "EXT"   -> {"ext"}
                            [] bit = "BOOL"  -> {"bool"}
                            [] bit = "NUM"   -> {"signed", "unsigned"}
                            [] bit \in {"STRING", "WSTRING"} -> {"string"}
                            [] bit = "STRLIST" -> {"array"}
                            [] bit = "NIL"   -> {"nil"}
accepted(bit) == CASE bit = "ARRAY" -> AllTypes
                   [] bit = "DICT"  -> {"dict"}
                   [] bit = "EXT"   -> {"ext"}
                   [] bit = "BOOL"  -> {"bool", "signed", "unsigned"}
                   [] bit = "NUM"   -> {"signed", "unsigned", "ext"}
                   [] bit \in {"STRING", "WSTRING"} -> {"string"}
                   [] bit = "STRLIST" -> {"array"}
                   [] bit = "NIL"   -> {"nil"}

(* A retry uses the number of the object's type (BOOL is 1, NIL 2, ...) as *)
(* if it were a mask of mpack_expect_t.                                    *)
TypeAsMask(t) == CASE t = "bool"     -> {"EXT"}
                   [] t = "nil"      -> {"ARRAY"}
                   [] t = "signed"   -> {"EXT", "ARRAY"}
                   [] t = "unsigned" -> {"DICT"}
                   [] t = "ext"      -> {"EXT", "DICT"}
                   [] t = "string"   -> {"ARRAY", "DICT"}
                   [] t = "array"    -> {"EXT", "ARRAY", "DICT"}
                   [] t = "dict"     -> {"NIL"}

-----------------------------------------------------------------------------
(* attempt_to_interpret_ext: neovim's handles of buffers are extensions    *)
(* whose data is a number in its msgpack encoding.  d has the eight bytes  *)
(* of the union, those beyond the data being zero.  From five bytes on the *)
(* mask keeps the bytes at the end instead of those behind the first.      *)
(* Mutant: two bytes of data are read without the mask.                    *)
interpret_unmasked(d, len) ==
  CASE len = 1 -> Rep(0, 7) \o <<d[1]>>
    [] len = 2 -> Rep(0, 6) \o SubSeq(d, 1, 2)
    [] len \in {3, 4} -> Rep(0, 9 - len) \o SubSeq(d, 2, len)
    [] len \in 5 .. 8 -> Rep(0, 9 - len) \o SubSeq(d, 10 - len, 8)

attempt_to_interpret_ext(d, len) ==
  CASE len = 0 -> d
    [] len = 1 -> Rep(0, 7) \o <<d[1]>>
    [] len \in {2, 3, 4} -> Rep(0, 9 - len) \o SubSeq(d, 2, len)
    [] len \in 5 .. 8 -> Rep(0, 9 - len) \o SubSeq(d, 10 - len, 8)

Number(o) == IF o.type = "ext" THEN attempt_to_interpret_ext(o.data \o Rep(0, 8 - Len(o.data)), Len(o.data))
             ELSE IF o.type = "bool" THEN Rep(0, 7) \o <<IF o.boolean THEN 1 ELSE 0>>
             ELSE o.num

Result(o, bit) == [read |-> bit, num |-> IF bit \in {"BOOL", "NUM"} THEN Number(o) ELSE <<>>]
Default == [read |-> "default", num |-> <<>>]
Endless == [read |-> "endless", num |-> <<>>]   \* goto retry, with nothing changed

(* After the first retry the type no longer changes, only alternatives     *)
(* do, from which its first bit has been taken.                            *)
mpack_expect(o, type, alternatives) ==
  LET bit == Tested(type)
      again == Tested(TypeAsMask(o.type))
      left == alternatives \ {bit}
  IN  CASE o.type \in accepted(bit)                             -> Result(o, bit)
        [] o.type \notin accepted(bit) /\ left = {}             -> Default
        [] o.type \notin accepted(bit) /\ left # {} /\ o.type \in accepted(again) -> Result(o, again)
        [] o.type \notin accepted(bit) /\ left # {} /\ o.type \notin accepted(again) ->
             IF left \ {again} = {} THEN Default ELSE Endless

-----------------------------------------------------------------------------
(* Neovim's (external) messages: a handle, and the tick of an event, which *)
(* is nil for the events of a preview.                                     *)
HandleData(n) == CASE n \in 0 .. 127      -> <<n>>
                   [] n \in 128 .. 255    -> <<204, n>>
                   [] n \in 256 .. 65535  -> <<205>> \o BigEndian(n, 2)
                   [] n > 65535           -> <<206>> \o BigEndian(n, 4)
Handle(n) == LET d == HandleData(n) IN
             (CASE Len(d) = 1 -> <<212, 0>>
                [] Len(d) = 2 -> <<213, 0>>
                [] Len(d) \in {3, 5} -> <<199, Len(d), 0>>) \o d

(* The object a handle decodes to, read with E_NUM.                        *)
BufferOf(n) == mpack_expect(do_decode(Handle(n)).obj, {"NUM"}, {}).num
=============================================================================
