----------------------------- MODULE IniConvert -----------------------------
(***************************************************************************)
(* The conversions between the text of a value and what an application    *)
(* sets and gets: the calls of ini/ini_configmod.c that store a number,    *)
(* bytes or a list as text, and those that read it back, in the value      *)
(* object interface (ini/ini_get_valueobj.c, ini_get_array_valueobj.c) and *)
(* in the older item interface (ini/ini_get_value.c, ini_get_array.c),     *)
(* which counts the terminating zero in the length of the value.           *)
(*                                                                         *)
(* A text is a sequence of characters.  Numbers are written to the base    *)
(* Base and have small widths; a letter stands for both of its cases.      *)
(***************************************************************************)
EXTENDS Integers, Sequences, SequencesExt, FiniteSetsExt

CONSTANTS
    NULL,
    Texts,      \* texts a file may have for the value
    Base,       \* ten in the code, at most ten
    IntBits,    \* width of int, unsigned, int32_t and uint32_t
    LongBits,   \* width of long, long long, int64_t and uint64_t
    FracDigits, \* bound: digits of a fraction that a double keeps
    MaxDouble,  \* bound: largest whole number that a double holds
    Prec,       \* digits of a fraction that "%f" prints
    Separators, \* sets of separators
    Lists,      \* lists of strings a caller may store
    Bytes,      \* binary values a caller may store
    Doubles,    \* doubles a caller may store, in units of their last digit
    Numbers     \* lists of numbers a caller may store

ASSUME ConvertAssumption ==
    /\ Base \in 2..10 /\ IntBits \in Nat \ {0} /\ LongBits \in Nat /\ IntBits <= LongBits
    /\ FracDigits \in Nat /\ Prec \in 0..FracDigits /\ MaxDouble \in Nat
    /\ \A S \in Separators : Cardinality(S) \in 1..3

VARIABLES
    text,   \* the text of the value, NULL if there is no value
    given,  \* history: what the text was made from, NULL for one from a file
    call    \* the call that reads it: its locals, then its results

vars == <<text, given, call>>

DEFAULT == "def"     \* the default that the caller passes
NUL == "NUL"
IDLE == [op |-> "none"]

DigitOf == <<"0", "1", "2", "3", "4", "5", "6", "7", "8", "9">>
Digits == {DigitOf[d + 1] : d \in 0..(Base - 1)}
DigitVal(c) == (CHOOSE d \in DOMAIN DigitOf : DigitOf[d] = c) - 1
Blank == {" "}       \* isspace
Signs == {"-", "+"}

From(s, p) == SubSeq(s, p, Len(s))
LeadingLen(s, S) == Max({n \in 0..Len(s) : \A k \in 1..n : s[k] \in S})
TrailingLen(s, S) == Max({n \in 0..Len(s) : \A k \in 1..n : s[Len(s) + 1 - k] \in S})
Magnitude(s) == FoldLeft(LAMBDA n, c : Base * n + DigitVal(c), 0, s)
-----------------------------------------------------------------------------
(* The C library: strtoll, strtoull and strtod, and printf of a number.    *)
(* end is how many characters were used, 0 if there is no number.          *)

Start(s) == LET b == LeadingLen(s, Blank)
            IN  IF b < Len(s) /\ s[b + 1] \in Signs THEN b + 1 ELSE b
Negative(s) == Start(s) > 0 /\ s[Start(s)] = "-"
WholeDigits(s) == LeadingLen(From(s, Start(s) + 1), Digits)
NumberEnd(s) == IF WholeDigits(s) = 0 THEN 0 ELSE Start(s) + WholeDigits(s)
Number(s) == LET m == Magnitude(SubSeq(s, Start(s) + 1, Start(s) + WholeDigits(s)))
             IN  IF Negative(s) THEN -m ELSE m

SignedRange(bits) == (-(2^(bits - 1)))..(2^(bits - 1) - 1)
UnsignedRange(bits) == 0..(2^bits - 1)

strtoll(s) == [end |-> NumberEnd(s), val |-> Number(s),
               err |-> IF Number(s) \in SignedRange(LongBits) THEN "EOK" ELSE "ERANGE"]

\* A minus sign is accepted, and the number taken modulo the width.
strtoull(s) == [end |-> NumberEnd(s), val |-> Number(s) % 2^LongBits,
                err |-> IF \/ Number(s) \in UnsignedRange(LongBits)
                           \/ -Number(s) \in UnsignedRange(LongBits) THEN "EOK" ELSE "ERANGE"]

\* A double is a number of units of 1 / Base^FracDigits.
Unit == Base^FracDigits
PointAfter(s) == LET p == Start(s) + WholeDigits(s) + 1 IN p <= Len(s) /\ s[p] = "."
Fraction(s) == IF PointAfter(s)
               THEN LET f == From(s, Start(s) + WholeDigits(s) + 2)
                    IN  SubSeq(f, 1, LeadingLen(f, Digits))
               ELSE <<>>
FractionUnits(f) == LET k == IF Len(f) < FracDigits THEN Len(f) ELSE FracDigits
                    IN  Magnitude(SubSeq(f, 1, k)) * Base^(FracDigits - k)
strtod(s) ==
    LET f == Fraction(s)
        m == Unit * Magnitude(SubSeq(s, Start(s) + 1, Start(s) + WholeDigits(s))) + FractionUnits(f)
    IN  [end |-> CASE WholeDigits(s) = 0 /\ f = <<>> -> 0
                   [] PointAfter(s) /\ (WholeDigits(s) > 0 \/ f # <<>>) ->
                         Start(s) + WholeDigits(s) + 1 + Len(f)
                   [] WholeDigits(s) > 0 /\ ~PointAfter(s) -> Start(s) + WholeDigits(s),
         val |-> IF Negative(s) THEN -m ELSE m,
         err |-> IF m <= Unit * MaxDouble THEN "EOK" ELSE "ERANGE"]

Absolute(n) == IF n < 0 THEN -n ELSE n
Width(m) == CHOOSE n \in 1..(m + 1) : m < Base^n /\ (n = 1 \/ m >= Base^(n - 1))
Padded(m, w) == [k \in 1..w |-> DigitOf[((m \div Base^(w - k)) % Base) + 1]]
Format(v) == (IF v < 0 THEN <<"-">> ELSE <<>>) \o Padded(Absolute(v), Width(Absolute(v)))

\* "%f": rounded to Prec digits, a tie to the even neighbour.
FracStep == Base^(FracDigits - Prec)
Rounded(m) == LET q == m \div FracStep
                  r == m % FracStep
              IN  IF 2 * r > FracStep \/ (2 * r = FracStep /\ q % 2 = 1) THEN q + 1 ELSE q
FormatDouble(v) ==
    LET q == Rounded(Absolute(v))
    IN  (IF v < 0 THEN <<"-">> ELSE <<>>) \o Padded(q \div Base^Prec, Width(q \div Base^Prec))
           \o <<".">> \o Padded(q % Base^Prec, Prec)
-----------------------------------------------------------------------------
(* Reading one number, a Boolean, bytes or the text itself.                *)

SignedTypes == {"int", "long", "int32", "int64"}
Bits(type) == IF type \in {"int", "int32", "unsigned", "uint32"} THEN IntBits ELSE LongBits
RangeOf(type) == IF type \in SignedTypes THEN SignedRange(Bits(type)) ELSE UnsignedRange(Bits(type))

Answer(op, type, strict, val, err) ==
    [op |-> op, type |-> type, strict |-> strict, val |-> val, err |-> err]
Refused(op, type, strict, err) == Answer(op, type, strict, DEFAULT, err)

\* The errors both parsers report: the library's, no number, or more after it.
Scanned(n, strict) ==
    CASE n.err # "EOK" -> n.err
      [] n.err = "EOK" /\ (n.end = 0 \/ (strict /\ n.end < Len(text))) -> "EIO"
      [] n.err = "EOK" /\ n.end # 0 /\ (strict => n.end = Len(text)) -> "EOK"

get_llong(strict) == [val |-> strtoll(text).val, err |-> Scanned(strtoll(text), strict)]
get_ullong(strict) == [val |-> strtoull(text).val, err |-> Scanned(strtoull(text), strict)]

Narrowed(type, strict, n) ==
    CASE n.err # "EOK" -> Refused("number", type, strict, n.err)
      [] n.err = "EOK" /\ n.val \notin RangeOf(type) -> Refused("number", type, strict, "ERANGE")
      [] n.err = "EOK" /\ n.val \in RangeOf(type) -> Answer("number", type, strict, n.val, "EOK")

get_number(type, strict) ==
    /\ call = IDLE
    /\ call' = IF text = NULL THEN Refused("number", type, strict, "EINVAL")
               ELSE Narrowed(type, strict,
                             IF type \in SignedTypes THEN get_llong(strict) ELSE get_ullong(strict))
    /\ UNCHANGED <<text, given>>

\* The calls of both interfaces, which differ in how they are given the text.
ini_get_int_config_value(strict) == get_number("int", strict)
ini_get_unsigned_config_value(strict) == get_number("unsigned", strict)
ini_get_long_config_value(strict) == get_number("long", strict)
ini_get_ulong_config_value(strict) == get_number("ulong", strict)
ini_get_int32_config_value(strict) == get_number("int32", strict)
ini_get_uint32_config_value(strict) == get_number("uint32", strict)
ini_get_int64_config_value(strict) == get_number("int64", strict)
ini_get_uint64_config_value(strict) == get_number("uint64", strict)
get_int_config_value(strict) == get_number("int", strict)
get_unsigned_config_value(strict) == get_number("unsigned", strict)
get_long_config_value(strict) == get_number("long", strict)
get_ulong_config_value(strict) == get_number("ulong", strict)
get_int32_config_value(strict) == get_number("int32", strict)
get_uint32_config_value(strict) == get_number("uint32", strict)
get_int64_config_value(strict) == get_number("int64", strict)
get_uint64_config_value(strict) == get_number("uint64", strict)

DoubleOf(d, strict) ==
    CASE d.err # "EOK" \/ d.end = 0 \/ (strict /\ d.end < Len(text)) -> Refused("number", "double", strict, "EIO")
      [] d.err = "EOK" /\ d.end # 0 /\ (strict => d.end = Len(text)) -> Answer("number", "double", strict, d.val, "EOK")
get_double(strict) ==
    /\ call = IDLE
    /\ call' = IF text = NULL THEN Refused("number", "double", strict, "EINVAL")
               ELSE DoubleOf(strtod(text), strict)
    /\ UNCHANGED <<text, given>>

ini_get_double_config_value(strict) == get_double(strict)
get_double_config_value(strict) == get_double(strict)

TrueWords == {<<"t", "r", "u", "e">>, <<"y", "e", "s">>}
FalseWords == {<<"f", "a", "l", "s", "e">>, <<"n", "o">>}

\* strncasecmp: over the length of the text, or of the text and its zero.
MatchesWord(api, words) == \E w \in words : IF api = "value" THEN IsPrefix(text, w) ELSE text = w
get_bool(api) ==
    /\ call = IDLE
    /\ call' = CASE text = NULL -> Refused("bool", api, FALSE, "EINVAL")
                 [] text # NULL /\ MatchesWord(api, TrueWords) -> Answer("bool", api, FALSE, TRUE, "EOK")
                 [] text # NULL /\ ~MatchesWord(api, TrueWords) /\ MatchesWord(api, FalseWords) ->
                       Answer("bool", api, FALSE, FALSE, "EOK")
                 [] text # NULL /\ ~MatchesWord(api, TrueWords \cup FalseWords) ->
                       Refused("bool", api, FALSE, "EIO")
    /\ UNCHANGED <<text, given>>

ini_get_bool_config_value == get_bool("value")
get_bool_config_value == get_bool("item")

Quote == "'"
HexLetters == <<"a", "b", "c", "d", "e", "f">>
HexChars == Range(DigitOf) \cup Range(HexLetters)
IsLetter(c) == c \in Range(HexLetters)
HEXVAL(c) == IF IsLetter(c) THEN 9 + CHOOSE d \in DOMAIN HexLetters : HexLetters[d] = c ELSE DigitVal(c)

\* The item interface leaves out the ten of a letter that a digit follows.
ByteOf(api, hi, lo) ==
    IF api = "item" /\ IsLetter(hi) /\ ~IsLetter(lo) THEN 16 * (HEXVAL(hi) - 10) + HEXVAL(lo)
    ELSE 16 * HEXVAL(hi) + HEXVAL(lo)

Quoted(s) == Len(s) > 0 /\ s[1] = Quote /\ s[Len(s)] = Quote
get_bin(api) ==
    /\ call = IDLE
    /\ call' =
         IF text = NULL \/ Len(text) % 2 # 0 THEN Refused("bin", api, FALSE, "EINVAL")
         ELSE IF ~Quoted(text) \/ \E k \in 2..(Len(text) - 1) : text[k] \notin HexChars
         THEN Refused("bin", api, FALSE, "EIO")
         ELSE Answer("bin", api, FALSE,
                     [k \in 1..(Len(text) \div 2 - 1) |-> ByteOf(api, text[2 * k], text[2 * k + 1])], "EOK")
    /\ UNCHANGED <<text, given>>

ini_get_bin_config_value == get_bin("value")
get_bin_config_value == get_bin("item")

\* The text, as a copy or as it stands.
get_string ==
    /\ call = IDLE
    /\ call' = IF text = NULL THEN Refused("string", "string", FALSE, "EINVAL")
               ELSE Answer("string", "string", FALSE, text, "EOK")
    /\ UNCHANGED <<text, given>>

ini_get_string_config_value == get_string
ini_get_const_string_config_value == get_string
get_string_config_value == get_string
get_const_string_config_value == get_string
-----------------------------------------------------------------------------
(* get_str_cfg_array: the loop that cuts the text at separators.  i, start *)
(* and len are as in the code, from zero; dest counts the bytes used of    *)
(* copy, the tokens that are in it with a zero after each.                 *)

\* The characters the loop looks at.
Buffer(api) == IF api = "value" THEN text ELSE Append(text, NUL)

\* Mutant: no byte is reserved for a text of separators.
CopySize_exact(api) == Len(Buffer(api))

\* The size of copy.
CopySize(api) == IF api = "value" THEN Len(text) + 1 ELSE Len(Buffer(api))

begin_str_array(api, include, seps) ==
    /\ call = IDLE
    /\ call' = IF text = NULL THEN Refused("split", api, include, "EINVAL")
               ELSE [op |-> "splitting", api |-> api, include |-> include, seps |-> seps \cup {NUL},
                     i |-> 0, start |-> 0, len |-> 0, tokens |-> <<>>, dest |-> 0]
    /\ UNCHANGED <<text, given>>

ini_get_string_config_array(seps) == begin_str_array("value", FALSE, seps)
ini_get_raw_string_config_array(seps) == begin_str_array("value", TRUE, seps)
get_string_config_array(seps) == begin_str_array("item", FALSE, seps)
get_raw_string_config_array(seps) == begin_str_array("item", TRUE, seps)

Segment(c) == SubSeq(Buffer(c.api), c.start + 1, c.start + c.len)
Trimmed(s) == SubSeq(s, 1, Len(s) - TrailingLen(s, Blank))

\* A token goes to copy, an empty one if those are asked for.
Saved(c, token) ==
    IF token # <<>> \/ c.include
    THEN [c EXCEPT !.tokens = Append(@, token), !.dest = @ + Len(token) + 1]
    ELSE c

\* Mutant: the blanks are taken for part of the token when the loop resumes.
Resumed_short(c, token) ==
    LET p == c.start + Len(token) + 1
        q == p + LeadingLen(From(Buffer(c.api), p + 1), Blank)
    IN  [Saved(c, token) EXCEPT !.start = q, !.i = q, !.len = 0]

\* After a separator: the token is saved, blanks are skipped.
Resumed(c, token) ==
    LET p == c.start + c.len + 1
        q == p + LeadingLen(From(Buffer(c.api), p + 1), Blank)
    IN  [Saved(c, token) EXCEPT !.start = q, !.i = q, !.len = 0]

SplitChar ==
    /\ call.op = "splitting" /\ call.i < Len(Buffer(call.api))
    /\ LET c == Buffer(call.api)[call.i + 1]
       IN  call' = CASE c \notin call.seps -> [call EXCEPT !.i = @ + 1, !.len = @ + 1]
                     [] c \in call.seps /\ c # NUL -> Resumed(call, Trimmed(Segment(call)))
                     [] c = NUL -> [Saved(call, Trimmed(Segment(call))) EXCEPT
                                      !.i = @ + 1, !.len = Len(Trimmed(Segment(call))) + 1]
    /\ UNCHANGED <<text, given>>

\* The value interface saves what follows the last separator.
LastSaved(c) ==
    IF c.len > 0 \/ (c.include /\ text # <<>> /\ c.tokens # <<>>) THEN Saved(c, Segment(c)) ELSE c

SplitDone ==
    /\ call.op = "splitting" /\ call.i >= Len(Buffer(call.api))
    /\ call' = [(IF call.api = "value" THEN LastSaved(call) ELSE call) EXCEPT !.op = "split"]
    /\ UNCHANGED <<text, given>>
-----------------------------------------------------------------------------
(* get_long_config_array and get_double_config_array: one number a turn.   *)
(* str is how much of the text was used.                                   *)

\* Twice the room of the array: sizeof(long) * length/2 bytes are allocated.
ArrayRoom(api) == IF api = "value" THEN Len(text) ELSE Len(text) + 1

begin_numbers(api, type) ==
    /\ call = IDLE
    /\ call' = IF text = NULL THEN Refused("numbers", api, FALSE, "EINVAL")
               ELSE [op |-> "numbering", api |-> api, type |-> type, str |-> 0, vals |-> <<>>, err |-> "EOK"]
    /\ UNCHANGED <<text, given>>

ini_get_long_config_array == begin_numbers("value", "long")
ini_get_double_config_array == begin_numbers("value", "double")
get_long_config_array == begin_numbers("item", "long")
get_double_config_array == begin_numbers("item", "double")

\* Where a number may begin: the loop that advances stops there.
StartsNumber(type, k) ==
    \/ text[k] \in Digits \cup Signs
    \/ type = "double" /\ text[k] = "." /\ k < Len(text) /\ text[k + 1] \in Digits

NextNumber(type, p) ==
    Min({k - 1 : k \in {k \in (p + 1)..Len(text) : StartsNumber(type, k)}} \cup {Len(text)})

Parsed(type, s) == IF type = "double" THEN strtod(s) ELSE strtoll(s)
ParseError(type, n) ==
    IF n.err # "EOK" THEN (IF type = "double" THEN "EIO" ELSE n.err) ELSE IF n.end = 0 THEN "EIO" ELSE "EOK"

NextValue ==
    /\ call.op = "numbering" /\ call.str < Len(text)
    /\ LET n == Parsed(call.type, From(text, call.str + 1))
           e == ParseError(call.type, n)
       IN  call' = IF e # "EOK" THEN [call EXCEPT !.op = "numbers", !.vals = <<>>, !.err = e]
                   ELSE [call EXCEPT !.vals = Append(@, n.val),
                                     !.str = NextNumber(call.type, call.str + n.end)]
    /\ UNCHANGED <<text, given>>

NumbersDone ==
    /\ call.op = "numbering" /\ call.str = Len(text)
    /\ call' = [call EXCEPT !.op = "numbers"]
    /\ UNCHANGED <<text, given>>
-----------------------------------------------------------------------------
(* Storing a value.  If memory cannot be had nothing changes.              *)

Store(type, val, t) == call = IDLE /\ text' = t /\ given' = [type |-> type, val |-> val] /\ UNCHANGED call

add_number(type, v) == v \in RangeOf(type) /\ Store(type, v, Format(v))
ini_config_add_int_value(v) == add_number("int", v)
ini_config_add_unsigned_value(v) == add_number("unsigned", v)
ini_config_add_long_value(v) == add_number("long", v)
ini_config_add_ulong_value(v) == add_number("ulong", v)
ini_config_add_int32_value(v) == add_number("int32", v)
ini_config_add_uint32_value(v) == add_number("uint32", v)
ini_config_add_int64_value(v) == add_number("int64", v)
ini_config_add_uint64_value(v) == add_number("uint64", v)
ini_config_add_double_value(v) == Store("double", v, FormatDouble(v))

HexOf(d) == IF d < 10 THEN DigitOf[d + 1] ELSE HexLetters[d - 9]
ini_config_add_bin_value(bytes) ==
    Store("bin", bytes, <<Quote>> \o FlattenSeq([k \in DOMAIN bytes |-> <<HexOf(bytes[k] \div 16), HexOf(bytes[k] % 16)>>])
                        \o <<Quote>>)

\* Mutant: a separator after the last one too.
Joined_trailing(strs, sep) == FlattenSeq([k \in DOMAIN strs |-> strs[k] \o <<sep, " ">>])

\* Each string but the last is followed by the separator and a blank.
Joined(strs, sep) ==
    FlattenSeq([k \in DOMAIN strs |-> IF k < Len(strs) THEN strs[k] \o <<sep, " ">> ELSE strs[k]])

ini_config_add_const_str_arr_value(strs, sep) == Len(strs) > 0 /\ Store("strings", strs, Joined(strs, sep))
ini_config_add_str_arr_value(strs, sep) == ini_config_add_const_str_arr_value(strs, sep)

\* The numbers are formatted one by one and joined.
Formatted(ns) == [k \in DOMAIN ns |-> Format(ns[k])]
FormattedDoubles(ns) == [k \in DOMAIN ns |-> FormatDouble(ns[k])]
ini_config_add_int_arr_value(ns, sep) ==
    Len(ns) > 0 /\ Range(ns) \subseteq RangeOf("int") /\ Store("numbers", ns, Joined(Formatted(ns), sep))
ini_config_add_long_arr_value(ns, sep) ==
    Len(ns) > 0 /\ Range(ns) \subseteq RangeOf("long") /\ Store("numbers", ns, Joined(Formatted(ns), sep))
ini_config_add_double_arr_value(ns, sep) ==
    Len(ns) > 0 /\ Store("doubles", ns, Joined(FormattedDoubles(ns), sep))
-----------------------------------------------------------------------------
\* The call has returned; the application makes another.
Return == call.op \notin {"none", "splitting", "numbering"} /\ call' = IDLE /\ UNCHANGED <<text, given>>

Init == text \in Texts \cup {NULL} /\ given = NULL /\ call = IDLE

Next ==
    \/ \E strict \in BOOLEAN :
          \/ ini_get_int_config_value(strict)
          \/ ini_get_unsigned_config_value(strict)
          \/ ini_get_long_config_value(strict)
          \/ ini_get_ulong_config_value(strict)
          \/ ini_get_int32_config_value(strict)
          \/ ini_get_uint32_config_value(strict)
          \/ ini_get_int64_config_value(strict)
          \/ ini_get_uint64_config_value(strict)
          \/ ini_get_double_config_value(strict)
          \/ get_int_config_value(strict)
          \/ get_unsigned_config_value(strict)
          \/ get_long_config_value(strict)
          \/ get_ulong_config_value(strict)
          \/ get_int32_config_value(strict)
          \/ get_uint32_config_value(strict)
          \/ get_int64_config_value(strict)
          \/ get_uint64_config_value(strict)
          \/ get_double_config_value(strict)
    \/ ini_get_bool_config_value \/ get_bool_config_value
    \/ ini_get_bin_config_value \/ get_bin_config_value
    \/ ini_get_string_config_value \/ ini_get_const_string_config_value
    \/ get_string_config_value \/ get_const_string_config_value
    \/ \E seps \in Separators :
          \/ ini_get_string_config_array(seps) \/ ini_get_raw_string_config_array(seps)
          \/ get_string_config_array(seps) \/ get_raw_string_config_array(seps)
    \/ SplitChar \/ SplitDone
    \/ ini_get_long_config_array \/ ini_get_double_config_array
    \/ get_long_config_array \/ get_double_config_array
    \/ NextValue \/ NumbersDone
    \/ \E v \in RangeOf("int64") \cup RangeOf("uint64") :
          \/ ini_config_add_int_value(v)
          \/ ini_config_add_unsigned_value(v)
          \/ ini_config_add_long_value(v)
          \/ ini_config_add_ulong_value(v)
          \/ ini_config_add_int32_value(v)
          \/ ini_config_add_uint32_value(v)
          \/ ini_config_add_int64_value(v)
          \/ ini_config_add_uint64_value(v)
    \/ \E v \in Doubles : ini_config_add_double_value(v)
    \/ \E b \in Bytes : ini_config_add_bin_value(b)
    \/ \E l \in Lists : ini_config_add_const_str_arr_value(l, ",") \/ ini_config_add_str_arr_value(l, ",")
    \/ \E n \in Numbers :
          \/ ini_config_add_int_arr_value(n, ",") \/ ini_config_add_long_arr_value(n, ",")
          \/ ini_config_add_double_arr_value(n, ",")
    \/ Return

Spec == Init /\ [][Next]_vars
-----------------------------------------------------------------------------
(* What a conversion means.                                                *)

\* A number that was read is in the range of its type and is the one the text
\* begins with (modulo 2^LongBits for an unsigned type, which strtoull makes of
\* a negative number); with strict nothing follows it.  A refusal has a reason:
\* there is no number, more than a number, or one out of range
\* (ini_get_llong_config_value, ini_get_ullong_config_value and their callers).
NumberMeans ==
    (call.op = "number" /\ call.type # "double" /\ text # NULL) =>
        LET whole == \E k \in 1..Len(text) :
                        /\ \A j \in k..Len(text) : text[j] \in Digits
                        /\ \A j \in 1..(k - 1) : text[j] \in Blank \/ (j = k - 1 /\ text[j] \in Signs)
            exact == IF call.type \in SignedTypes THEN Number(text) ELSE Number(text) % 2^LongBits
        IN  /\ call.err = "EOK" => /\ call.val \in RangeOf(call.type) /\ call.val = exact
                               /\ NumberEnd(text) > 0 /\ (call.strict => whole)
            /\ call.err = "EIO" => NumberEnd(text) = 0 \/ (call.strict /\ ~whole)
            /\ call.err = "ERANGE" => Number(text) \notin RangeOf(call.type)
            /\ call.err # "EOK" => call.val = DEFAULT

\* What was stored is read back: a number by the call of its type, bytes, a list
\* of numbers, and a list of strings that hold no separator and do not begin or
\* end in a blank; a list of one empty string is the one that is lost.  A double
\* is off by half of the last digit printed at most.
Plain(s) == \A k \in DOMAIN s : s[k] # "," /\ (k \in {1, Len(s)} => s[k] \notin Blank)
Near(v, w) == 2 * Absolute(v - w) <= FracStep
RoundTrip ==
    given # NULL =>
        /\ (call.op = "number" /\ call.type = given.type) =>
              /\ call.err = "EOK"
              /\ IF call.type = "double" THEN Near(call.val, given.val) ELSE call.val = given.val
        /\ (call.op = "bin" /\ given.type = "bin" /\ call.type = "value") => call.val = given.val
        /\ (call.op = "split" /\ given.type = "strings" /\ \A k \in DOMAIN given.val : Plain(given.val[k]))
             => \/ call.tokens = IF call.include THEN given.val
                                 ELSE SelectSeq(given.val, LAMBDA s : s # <<>>)
                \/ call.seps # {",", NUL} \/ (call.api = "value" /\ given.val = <<<<>>>>)
        /\ (call.op = "numbers" /\ given.type = "numbers" /\ call.type = "long") => call.vals = given.val
        /\ (call.op = "numbers" /\ given.type = "doubles" /\ call.type = "double") =>
              /\ call.err = "EOK" /\ Len(call.vals) = Len(given.val)
              /\ \A k \in DOMAIN given.val : Near(call.vals[k], given.val[k])

\* The pieces between separators, in order.
CutPoints(seps) == SetToSortSeq({0, Len(text) + 1} \cup {k \in DOMAIN text : text[k] \in seps}, <)
Pieces(seps) == LET c == CutPoints(seps)
                IN  [k \in 1..(Len(c) - 1) |-> SubSeq(text, c[k] + 1, c[k + 1] - 1)]
WithoutLeading(s) == From(s, LeadingLen(s, Blank) + 1)

\* A list of strings is the pieces between the separators with the blanks around
\* separators gone (get_str_cfg_array); a blank that begins the text is kept, and
\* in the value interface one that ends it.  Empty pieces are dropped or, when
\* asked for, kept.
PieceTokens(ps, api) ==
    [k \in DOMAIN ps |->
        LET s == IF k = 1 THEN ps[k] ELSE WithoutLeading(ps[k])
        IN  IF k = Len(ps) /\ api = "value" THEN s ELSE Trimmed(s)]
SplitMeans ==
    (call.op = "split" /\ text # NULL /\ call.seps \cap Blank = {}) =>
        LET ts == PieceTokens(Pieces(call.seps \ {NUL}), call.api)
        IN  call.tokens = IF ~call.include THEN SelectSeq(ts, LAMBDA s : s # <<>>)
                          ELSE IF text = <<>> /\ call.api = "value" THEN <<>> ELSE ts

\* The tokens and their zeros fit in the copy that was allocated for them, and
\* the loop reads between start and i (get_str_cfg_array: "Always reserve one
\* more byte for the case when the string consist of delimeters").
SplitFits ==
    (call.op \in {"splitting", "split"} /\ text # NULL) =>
        /\ call.dest <= CopySize(call.api)
        /\ (call.op = "splitting" /\ call.i < Len(Buffer(call.api))) =>
              call.start + call.len = call.i /\ call.dest <= call.start

\* A list of numbers is the runs of digits of the text in their order, each with
\* the sign before it; anything else is an error (ini_get_long_config_array).
RunStarts == {k \in DOMAIN text : text[k] \in Digits /\ (k = 1 \/ text[k - 1] \notin Digits)}
RunValue(k) == LET m == Magnitude(SubSeq(text, k, k - 1 + LeadingLen(From(text, k), Digits)))
               IN  IF k > 1 /\ text[k - 1] = "-" THEN -m ELSE m
NumbersMean ==
    (call.op = "numbers" /\ call.type = "long" /\ text # NULL /\ call.err = "EOK") =>
        /\ call.vals = LET ks == SetToSortSeq(RunStarts, <) IN [n \in DOMAIN ks |-> RunValue(ks[n])]
        /\ \A k \in DOMAIN text : text[k] \in Signs => k + 1 \in RunStarts

\* The item interface has room for every number that it finds: sizeof(long)
\* times half of the length, which counts the zero (get_long_config_array,
\* "Assume that we have maximum number of different numbers").
NumbersFit ==
    (call.op \in {"numbering", "numbers"} /\ text # NULL /\ call.api = "item") =>
        2 * Len(call.vals) <= ArrayRoom(call.api)

(* A reader gets from a value what the value says, as a number and as an   *)
(* array of strings or of numbers, by both interfaces.                     *)
ReadMeans == NumberMeans /\ SplitMeans /\ NumbersMean

(* The buffers of both kinds of arrays are large enough.                   *)
BuffersFit == SplitFits /\ NumbersFit
=============================================================================
