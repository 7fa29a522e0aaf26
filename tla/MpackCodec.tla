----------------------------- MODULE MpackCodec -----------------------------
(***************************************************************************)
(* The msgpack encoder and decoder (mpack/encode.c, mpack/decode.c): every *)
(* message to and from neovim and the Go helper passes through them.       *)
(*                                                                         *)
(* A 64-bit number is its eight bytes, most significant first, in two's    *)
(* complement.  A string is the sequence of its bytes.  The wire is a      *)
(* sequence of bytes.  What the code calls errx for decodes to Failed.     *)
(***************************************************************************)
EXTENDS Integers, Sequences

Failed == [type |-> "errx"]
Rep(b, n) == [i \in 1 .. n |-> b]
Ending(s, n) == SubSeq(s, Len(s) - n + 1, Len(s))
Rest(w, n) == SubSeq(w, n + 1, Len(w))

-----------------------------------------------------------------------------
(* The table m_masks: a value that a first byte must have, or for a fixed  *)
(* mask share from some bit on, the rest of the byte being data; and how   *)
(* many bytes of a length or number follow (0 for EXT_8, which counts).    *)
Mask(g, n, v) == [group |-> g, len |-> n, fixed |-> FALSE, val |-> v, span |-> 1]
Fixed(g, v, shift) == [group |-> g, len |-> 0, fixed |-> TRUE, val |-> v, span |-> 2 ^ shift]

m_masks ==
  {Mask("nil", 0, 192), Mask("bool", 0, 195), Mask("bool", 0, 194),
   Mask("string", 1, 217), Mask("string", 2, 218), Mask("string", 4, 219),
   Mask("array", 2, 220), Mask("array", 4, 221), Mask("map", 2, 222), Mask("map", 4, 223),
   Mask("bin", 1, 196), Mask("bin", 2, 197), Mask("bin", 4, 198),
   Mask("int", 1, 208), Mask("int", 2, 209), Mask("int", 4, 210), Mask("int", 8, 211),
   Mask("uint", 1, 204), Mask("uint", 2, 205), Mask("uint", 4, 206), Mask("uint", 8, 207),
   Mask("ext", 0, 199), Mask("ext", 1, 212), Mask("ext", 2, 213), Mask("ext", 4, 214), Mask("ext", 8, 215),
   Fixed("string", 160, 5), Fixed("array", 144, 4), Fixed("map", 128, 4),
   Fixed("uint", 0, 7), Fixed("int", 224, 5)}

id_pack_type(ch) == {m \in m_masks : ch \div m.span = m.val \div m.span}

-----------------------------------------------------------------------------
(* Encoding.  Which form a number takes depends on its size.               *)
Negative(v) == v[1] >= 128
Zeros(v, n) == \A i \in 1 .. n : v[i] = 0
Ones(v, n) == \A i \in 1 .. n : v[i] = 255

mpack_encode_unsigned(v) ==
  CASE Zeros(v, 7) /\ v[8] <= 127               -> <<v[8]>>
    [] Zeros(v, 7) /\ v[8] \in 128 .. 254       -> <<204, v[8]>>
    [] Zeros(v, 6) /\ (v[7] > 0 \/ v[8] = 255)  -> <<205>> \o Ending(v, 2)
    [] Zeros(v, 4) /\ ~ Zeros(v, 6)             -> <<206>> \o Ending(v, 4)
    [] ~ Zeros(v, 4)                            -> <<207>> \o v

mpack_encode_integer(v) ==
  IF ~ Negative(v) THEN mpack_encode_unsigned(v)
  ELSE CASE Ones(v, 7) /\ v[8] >= 224                              -> <<v[8]>>
         [] Ones(v, 7) /\ v[8] \in 129 .. 223                      -> <<208, v[8]>>
         [] Ones(v, 6) /\ v[7] >= 128 /\ (v[7] < 255 \/ v[8] <= 128) -> <<209>> \o Ending(v, 2)
         [] Ones(v, 4) /\ v[5] >= 128 /\ ~ (Ones(v, 6) /\ v[7] >= 128) -> <<210>> \o Ending(v, 4)
         [] ~ (Ones(v, 4) /\ v[5] >= 128)                          -> <<211>> \o v

(* The length in front of a string, an array or a map.                     *)
BigEndian(n, k) == [i \in 1 .. k |-> (n \div 256 ^ (k - i)) % 256]

(* Mutant: 16 elements are thought to fit the first byte.                   *)
HeaderOneTooMany(n, fix, limit, m8, m16, m32) ==
  CASE n <= limit                              -> <<fix + n>>
    [] n > limit /\ n < 255 /\ m8 # 0         -> <<m8, n>>
    [] n > limit /\ (n >= 255 \/ m8 = 0) /\ n < 65535 -> <<m16>> \o BigEndian(n, 2)
    [] n >= 65535                              -> <<m32>> \o BigEndian(n, 4)

Header(n, fix, limit, m8, m16, m32) ==
  CASE n < limit                              -> <<fix + n>>
    [] n >= limit /\ n < 255 /\ m8 # 0        -> <<m8, n>>
    [] n >= limit /\ (n >= 255 \/ m8 = 0) /\ n < 65535 -> <<m16>> \o BigEndian(n, 2)
    [] n >= 65535                             -> <<m32>> \o BigEndian(n, 4)

string_header(n) == Header(n, 160, 32, 217, 218, 219)
mpack_encode_array(n) == Header(n, 144, 16, 0, 220, 221)
mpack_encode_dictionary(n) == Header(n, 128, 16, 0, 222, 223)

mpack_encode_string(s) == string_header(Len(s)) \o s
mpack_encode_boolean(b) == <<IF b THEN 195 ELSE 194>>
mpack_encode_nil == <<192>>

(* A whole message.  An entry of a map is a pair.                          *)
RECURSIVE Encode(_), EncodeAll(_)
EncodeAll(os) == IF os = <<>> THEN <<>> ELSE Encode(Head(os)) \o EncodeAll(Tail(os))
Flatten(entries) == [i \in 1 .. 2 * Len(entries) |->
                       entries[(i + 1) \div 2][IF i % 2 = 1 THEN "key" ELSE "value"]]
Encode(o) == CASE o.type = "signed"   -> mpack_encode_integer(o.num)
               [] o.type = "unsigned" -> mpack_encode_unsigned(o.num)
               [] o.type = "string"   -> mpack_encode_string(o.str)
               [] o.type = "bool"     -> mpack_encode_boolean(o.boolean)
               [] o.type = "nil"      -> mpack_encode_nil
               [] o.type = "array"    -> mpack_encode_array(Len(o.arr)) \o EncodeAll(o.arr)
               [] o.type = "dict"     -> mpack_encode_dictionary(Len(o.dict)) \o EncodeAll(Flatten(o.dict))

-----------------------------------------------------------------------------
(* Decoding.  Each operator takes the wire after the first byte and the    *)
(* mask, and returns the object with the wire that is left.                *)
RECURSIVE Value(_)
Value(bytes) == IF bytes = <<>> THEN 0 ELSE Value(SubSeq(bytes, 1, Len(bytes) - 1)) * 256 + Ending(bytes, 1)[1]

Done(o, w) == [obj |-> o, rest |-> w]
Size(ch, m, w) == IF m.fixed THEN ch - m.val ELSE Value(SubSeq(w, 1, m.len))

decode_integer(ch, m, w) ==
  Done([type |-> "signed",
        num |-> CASE m.fixed    -> Rep(255, 7) \o <<ch>>
                  [] m.len = 1 -> Rep(255, 7) \o <<0>>
                  [] m.len \in {2, 4, 8} -> Rep(255, 8 - m.len) \o SubSeq(w, 1, m.len)],
       Rest(w, m.len))

decode_unsigned(ch, m, w) ==
  Done([type |-> "unsigned",
        num |-> IF m.fixed THEN Rep(0, 7) \o <<ch>> ELSE Rep(0, 8 - m.len) \o SubSeq(w, 1, m.len)],
       Rest(w, m.len))

decode_string(ch, m, w) ==
  LET size == Size(ch, m, w) IN
  Done([type |-> "string", str |-> SubSeq(w, m.len + 1, m.len + size)], Rest(w, m.len + size))

decode_bool(m, w) == Done([type |-> "bool", boolean |-> m.val = 195], w)
decode_nil(w) == Done([type |-> "nil"], w)

(* The type byte comes before the data, and after the length if there is   *)
(* one; more than eight bytes of data are refused.                         *)
decode_ext(m, w) ==
  LET len == IF m.len = 0 THEN w[1] ELSE m.len
      at  == IF m.len = 0 THEN 2 ELSE 1
  IN  IF len > 8 THEN Done(Failed, w)
      ELSE Done([type |-> "ext", ext |-> w[at], data |-> SubSeq(w, at + 1, at + len)], Rest(w, at + len))

RECURSIVE do_decode(_), DecodeMany(_, _)
DecodeMany(n, w) ==
  IF n = 0 THEN Done(<<>>, w)
  ELSE LET first == do_decode(w)
           others == DecodeMany(n - 1, first.rest)
       IN  Done(<<first.obj>> \o others.obj, others.rest)

decode_array(ch, m, w) ==
  LET all == DecodeMany(Size(ch, m, w), Rest(w, m.len))
  IN  Done([type |-> "array", arr |-> all.obj], all.rest)

decode_dictionary(ch, m, w) ==
  LET all == DecodeMany(2 * Size(ch, m, w), Rest(w, m.len))
  IN  Done([type |-> "dict", dict |-> [i \in 1 .. Len(all.obj) \div 2 |->
                                         [key |-> all.obj[2 * i - 1], value |-> all.obj[2 * i]]]],
           all.rest)

do_decode(wire) ==
  LET ch == wire[1]
      w == Tail(wire)
      masks == id_pack_type(ch)
      m == CHOOSE x \in masks : TRUE
  IN  CASE masks = {} \/ m.group = "bin" -> Done(Failed, w)
        [] m.group = "nil"    -> decode_nil(w)
        [] m.group = "bool"   -> decode_bool(m, w)
        [] m.group = "array"  -> decode_array(ch, m, w)
        [] m.group = "map"    -> decode_dictionary(ch, m, w)
        [] m.group = "string" -> decode_string(ch, m, w)
        [] m.group = "ext"    -> decode_ext(m, w)
        [] m.group = "int"    -> decode_integer(ch, m, w)
        [] m.group = "uint"   -> decode_unsigned(ch, m, w)

-----------------------------------------------------------------------------
(* What comes back.  A number that is not negative comes back as unsigned: *)
(* the wire does not tell.  The numbers from -127 to -33, which take one   *)
(* byte besides their mask, all come back as -256: decode_integer does not *)
(* use that byte.  All others are what they were.                          *)
Int8(v) == Ones(v, 7) /\ v[8] \in 129 .. 223
Kept(v) == IF Int8(v) THEN Rep(255, 7) \o <<0>> ELSE v

RECURSIVE Same(_, _)
Same(o, p) ==
  CASE o.type \in {"signed", "unsigned"} ->
         p.type \in {"signed", "unsigned"} /\ p.num = (IF o.type = "signed" THEN Kept(o.num) ELSE o.num)
    [] o.type = "array" -> /\ p.type = "array"
                           /\ Len(p.arr) = Len(o.arr)
                           /\ \A i \in 1 .. Len(o.arr) : Same(o.arr[i], p.arr[i])
    [] o.type = "dict"  -> /\ p.type = "dict"
                           /\ Len(p.dict) = Len(o.dict)
                           /\ \A i \in 1 .. Len(o.dict) : /\ Same(o.dict[i].key, p.dict[i].key)
                                                          /\ Same(o.dict[i].value, p.dict[i].value)
    [] o.type \notin {"signed", "unsigned", "array", "dict"} -> p = o

(* A header of n is read as n, takes the bytes it says, and belongs to one *)
(* type only.                                                              *)
HeaderAgrees(wire, group, n) ==
  /\ \E m \in id_pack_type(wire[1]) :
       m.group = group /\ Size(wire[1], m, Tail(wire)) = n /\ m.len = Len(wire) - 1
  /\ \A m1, m2 \in id_pack_type(wire[1]) : m1 = m2
=============================================================================
