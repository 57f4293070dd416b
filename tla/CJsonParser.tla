---------------------------- MODULE CJsonParser ----------------------------
(***************************************************************************)
(* cJSON.c: from text to items.                                            *)
(*                                                                         *)
(* The parser p is its buffer (b, the text and its NUL), where it is (off, *)
(* depth), the memory (blocks allocated and not freed, and how many more   *)
(* can be had), the item it fills and whether it has succeeded so far; over*)
(* says that more was written into a block than was allocated.             *)
(***************************************************************************)
EXTENDS Bytes, FiniteSetsExt

CONSTANT CJSON_NESTING_LIMIT

BACKSLASH == 92
LBRACKET == 91
RBRACKET == 93
LBRACE == 123
RBRACE == 125

null == <<110, 117, 108, 108>>
false == <<102, 97, 108, 115, 101>>
true == <<116, 114, 117, 101>>

\* A pointer to a string that is not there.
NoString == <<-1>>

\* valuedouble is in tenths; child is the list of the children.
NewItem == [type |-> "Invalid", string |-> NoString, valuestring |-> NoString,
            valuedouble |-> 0, child |-> <<>>]

\* The blocks cJSON_Delete frees with an item, or with a list of items.
RECURSIVE Blocks(_)
Blocks(item) ==
  1 + (IF item.valuestring = NoString THEN 0 ELSE 1) + (IF item.string = NoString THEN 0 ELSE 1)
    + FoldLeft(LAMBDA n, c : n + Blocks(c), 0, item.child)
BlocksOf(items) == FoldLeft(LAMBDA n, c : n + Blocks(c), 0, items)

Fail(p) == [p EXCEPT !.ok = FALSE]
Free(p, n) == [p EXCEPT !.live = @ - n]
Allocate(p) == IF p.left = 0 THEN Fail(p) ELSE [p EXCEPT !.live = @ + 1, !.left = @ - 1]

At(p) == IF AtEnd(p.b, p.off) THEN -1 ELSE p.b[p.off]
Advance(p, n) == [p EXCEPT !.off = @ + n]
Reads(p, s) == IsPrefix(s, SubSeq(p.b, p.off, Len(p.b)))

\* Mutant of buffer_skip_whitespace: no step back.
buffer_skip_whitespace_Past(p) ==
  IF AtEnd(p.b, p.off) THEN p ELSE [p EXCEPT !.off = Find(p.b, @, OtherThan(0 .. 32))]

\* The NUL counts as a blank, and a step back keeps the buffer on it.
buffer_skip_whitespace(p) ==
  IF AtEnd(p.b, p.off) THEN p
  ELSE [p EXCEPT !.off = Min({Find(p.b, @, OtherThan(0 .. 32)), Len(p.b)})]

skip_utf8_bom(p) ==
  IF Len(p.b) > 4 /\ Reads(p, <<239, 187, 191>>) THEN Advance(p, 3) ELSE p
-----------------------------------------------------------------------------
\* Numbers.  strtod takes the longest prefix that is a number; no exponents.
NumberChars == Digits \cup {43, MINUS, 101, 69, DOT}

Decimal(digits) == FoldLeft(LAMBDA n, c : 10 * n + c - 48, 0, digits)

\* From the digits before the point and those after it.
Value(negative, whole, part, length) ==
  LET tenths == 10 * Decimal(whole) + (IF part = <<>> THEN 0 ELSE part[1] - 48)
  IN  IF whole = <<>> /\ part = <<>> THEN [length |-> 0, tenths |-> 0]
      ELSE [length |-> length, tenths |-> IF negative THEN -tenths ELSE tenths]

PointAt(s, first, dot) ==
  LET end == IF ~ AtEnd(s, dot) /\ s[dot] = DOT THEN Find(s, dot + 1, OtherThan(Digits)) ELSE dot
  IN  Value(first = 2, SubSeq(s, first, dot - 1), SubSeq(s, dot + 1, end - 1), end - 1)

strtod(s) ==
  LET first == IF IsPrefix(<<MINUS>>, s) THEN 2 ELSE 1
  IN  PointAt(s, first, Find(s, first, OtherThan(Digits)))

AfterNumber(p, number) ==
  IF number.length = 0 THEN Fail(p)
  ELSE [Advance(p, number.length) EXCEPT
          !.item.type = "Number", !.item.valuedouble = number.tenths]

\* At most 63 bytes are looked at.
parse_number(p) ==
  LET end == Find(p.b, p.off, OtherThan(NumberChars))
  IN  AfterNumber(p, strtod(SubSeq(p.b, p.off, Min({end, p.off + 63}) - 1)))

-----------------------------------------------------------------------------
\* Strings.
parse_hex4(s) ==
  IF \E i \in 1 .. 4 : HexValue(s[i]) < 0 THEN 0
  ELSE FoldLeft(LAMBDA h, c : 16 * h + HexValue(c), 0, s)

utf8(codepoint) ==
  LET Low(n) == 128 + ((codepoint \div 64^n) % 64)
  IN  CASE codepoint < 128 -> <<codepoint>>
        [] codepoint \in 128 .. 2047 -> <<192 + codepoint \div 64, Low(0)>>
        [] codepoint \in 2048 .. 65535 -> <<224 + codepoint \div 4096, Low(1), Low(0)>>
        [] OTHER -> <<240 + codepoint \div 262144, Low(2), Low(1), Low(0)>>

\* Mutant of utf16_literal_to_utf8: the second half may be cut off.
utf16_literal_to_utf8_HalfPair(s) ==
  IF Len(s) < 6 THEN [length |-> 0, bytes |-> <<>>]
  ELSE [length |-> IF parse_hex4(SubSeq(s, 3, 6)) \in 55296 .. 56319 THEN 12 ELSE 6,
        bytes |-> utf8(parse_hex4(SubSeq(s, 3, 6)))]

\* What a literal, one or two \uXXXX at the start of s, stands for; a length of
\* 0 is an invalid one.  Four bytes that are not digits stand for 0.
utf16_literal_to_utf8(s) ==
  LET first == IF Len(s) < 6 THEN 0 ELSE parse_hex4(SubSeq(s, 3, 6))
      second == IF Len(s) < 12 THEN 0 ELSE parse_hex4(SubSeq(s, 9, 12))
      Invalid == [length |-> 0, bytes |-> <<>>]
  IN  CASE Len(s) < 6 \/ first \in 56320 .. 57343 -> Invalid
        [] first \in 55296 .. 56319 ->
             IF Len(s) < 12 \/ s[7] # BACKSLASH \/ s[8] # 117 \/ second \notin 56320 .. 57343
             THEN Invalid
             ELSE [length |-> 12,
                   bytes |-> utf8(65536 + (first % 1024) * 1024 + (second % 1024))]
        [] OTHER -> [length |-> 6, bytes |-> utf8(first)]

\* What the bytes after a backslash stand for.
Escape(s) ==
  LET One(c) == [length |-> 2, bytes |-> <<c>>]
  IN  CASE s[2] = 98 -> One(8)
        [] s[2] = 102 -> One(12)
        [] s[2] = 110 -> One(LF)
        [] s[2] = 114 -> One(CR)
        [] s[2] = 116 -> One(HT)
        [] s[2] \in {QUOTE, BACKSLASH, SLASH} -> One(s[2])
        [] s[2] = 117 -> utf16_literal_to_utf8(s)
        [] OTHER -> [length |-> 0, bytes |-> <<>>]

\* The closing quote, skipping escaped bytes, and the escapes before it.
RECURSIVE ClosingQuote(_, _, _)
ClosingQuote(b, i, skipped) ==
  IF AtEnd(b, i) THEN [at |-> 0, skipped |-> skipped] ELSE
  CASE b[i] = QUOTE -> [at |-> i, skipped |-> skipped]
    [] b[i] = BACKSLASH -> IF AtEnd(b, i + 1) THEN [at |-> 0, skipped |-> skipped]
                           ELSE ClosingQuote(b, i + 2, skipped + 1)
    [] OTHER -> ClosingQuote(b, i + 1, skipped)

RECURSIVE Unescape(_, _)
Unescape(s, done) ==
  IF s = <<>> THEN [ok |-> TRUE, bytes |-> done] ELSE
  CASE s[1] # BACKSLASH -> Unescape(Tail(s), Append(done, s[1]))
    [] OTHER -> LET e == Escape(s)
                IN  IF e.length = 0 THEN [ok |-> FALSE, bytes |-> done]
                    ELSE Unescape(SubSeq(s, e.length + 1, Len(s)), done \o e.bytes)

\* A string as the functions of string.h see it.
CString(s) == SubSeq(s, 1, Find(s, 1, {NUL}) - 1)

\* Mutant of Output: forgets to free it when an escape is wrong.
Output_Leak(p, close, text) ==
  IF ~ text.ok THEN Fail(p)
  ELSE [p EXCEPT !.off = close.at + 1,
                 !.item.type = "String", !.item.valuestring = CString(text.bytes)]

\* The output and its NUL go into allocation_length + 1 bytes.
Output(p, close, text) ==
  LET written == [p EXCEPT !.over = @ \/ Len(text.bytes) > close.at - p.off - close.skipped]
  IN  IF ~ text.ok THEN Free(Fail(written), 1)
      ELSE [written EXCEPT !.off = close.at + 1,
                           !.item.type = "String", !.item.valuestring = CString(text.bytes)]

Quoted(p, close) ==
  IF close.at = 0 \/ ~ Allocate(p).ok THEN Fail(p)
  ELSE Output(Allocate(p), close, Unescape(SubSeq(p.b, p.off + 1, close.at - 1), <<>>))

parse_string(p) ==
  IF At(p) = QUOTE THEN Quoted(p, ClosingQuote(p.b, p.off + 1, 0)) ELSE Fail(p)

-----------------------------------------------------------------------------
\* Values.  kind is what differs between an array and an object.
Array == [type |-> "Array", open |-> LBRACKET, close |-> RBRACKET]
Object == [type |-> "Object", open |-> LBRACE, close |-> RBRACE]

Discard(p, items) == Free(Fail(p), BlocksOf(items))

\* The name of an object's child was parsed as its valuestring, and is moved.
MoveName(p) ==
  [p EXCEPT !.item = [@ EXCEPT !.string = p.item.valuestring, !.valuestring = NoString]]

SkipColon(p) ==
  IF At(p) = COLON THEN buffer_skip_whitespace(Advance(p, 1)) ELSE Fail(p)

AfterName(p) == IF p.ok THEN SkipColon(buffer_skip_whitespace(MoveName(p))) ELSE p

RECURSIVE parse_value(_), Elements(_, _, _)

\* The steps of an element, after each of which the parse may be over: an element
\* that fails is deleted with the list (head, items), with what it holds by
\* then.  The list is returned as the children of an item.
AfterElement(p, kind, items) ==
  CASE At(p) = COMMA -> Elements(p, kind, items)
    [] At(p) = kind.close -> [p EXCEPT !.item = [NewItem EXCEPT !.child = items]]
    [] OTHER -> Discard(p, items)

AfterValue(p, kind, items) ==
  IF p.ok THEN AfterElement(buffer_skip_whitespace(p), kind, items) ELSE Discard(p, items)

ElementValue(p, kind, head) == AfterValue(p, kind, Append(head, p.item))

ElementName(p, kind, head) ==
  IF p.ok THEN ElementValue(parse_value(p), kind, head) ELSE Discard(p, Append(head, p.item))

ElementStart(p, kind, head) ==
  ElementName(IF kind = Object THEN AfterName(parse_string(p)) ELSE p, kind, head)

NewElement(p, kind, head) ==
  IF ~ p.ok THEN Discard(p, head)
  ELSE ElementStart(buffer_skip_whitespace([Advance(p, 1) EXCEPT !.item = NewItem]), kind, head)

\* The elements from the comma (or the opening) on; head is the list so far.
Elements(p, kind, head) == NewElement(Allocate(p), kind, head)

\* The list becomes the children of the item that was being filled.
EndList(list, item, kind) ==
  IF ~ list.ok THEN [list EXCEPT !.item = item]
  ELSE [Advance(list, 1) EXCEPT !.depth = @ - 1,
          !.item = [item EXCEPT !.type = kind.type, !.child = list.item.child]]

Opened(p, kind) ==
  IF At(p) = kind.close THEN [p EXCEPT !.item = NewItem] ELSE Elements(Advance(p, -1), kind, <<>>)

\* parse_array and parse_object.
parse_list(p, kind) ==
  IF p.depth >= CJSON_NESTING_LIMIT THEN Fail(p)
  ELSE EndList(Opened(buffer_skip_whitespace(Advance([p EXCEPT !.depth = @ + 1], 1)), kind),
               p.item, kind)

parse_value(p) ==
  IF ~ p.ok THEN p ELSE
  CASE Reads(p, null) -> [Advance(p, 4) EXCEPT !.item.type = "NULL"]
    [] Reads(p, false) -> [Advance(p, 5) EXCEPT !.item.type = "False"]
    [] Reads(p, true) -> [Advance(p, 4) EXCEPT !.item.type = "True"]
    [] At(p) = QUOTE -> parse_string(p)
    [] At(p) \in {MINUS} \cup Digits -> parse_number(p)
    [] At(p) = LBRACKET -> parse_list(p, Array)
    [] At(p) = LBRACE -> parse_list(p, Object)
    [] OTHER -> Fail(p)

\* A value that fails, or does not end the text where it must, is deleted.
AfterRoot(p, require_null_terminated) ==
  IF p.ok /\ (require_null_terminated => At(buffer_skip_whitespace(p)) = NUL) THEN p
  ELSE Free(Fail(p), Blocks(p.item))

\* cJSON_ParseWithOpts of the text before the NUL, with so many blocks to be
\* had; cJSON_Parse does not require the text to end with the value.
cJSON_ParseWithOpts(text, require_null_terminated, blocks) ==
  LET p == Allocate([b |-> text \o <<NUL>>, off |-> 1, depth |-> 0, live |-> 0, left |-> blocks,
                     over |-> FALSE, ok |-> TRUE, item |-> NewItem])
  IN  IF ~ p.ok THEN p
      ELSE AfterRoot(parse_value(buffer_skip_whitespace(skip_utf8_bom(p))), require_null_terminated)

cJSON_Parse(text) == cJSON_ParseWithOpts(text, FALSE, 1000)
=============================================================================
