---------------------------- MODULE CJsonPrinter ----------------------------
(***************************************************************************)
(* cJSON.c: from items to text.                                            *)
(*                                                                         *)
(* The printbuffer o is its buffer (buf, byte by byte; Garbage where no-   *)
(* thing has been written), where the next byte goes (offset, from 0), and *)
(* the memory as in CJsonParser.  A printer that writes a value ends it    *)
(* with a NUL and leaves offset at its start or beyond; update_offset then *)
(* looks for the NUL.                                                      *)
(***************************************************************************)
EXTENDS CJsonParser

CONSTANT DefaultSize  \* default_buffer_size of print

Garbage == 256
Uninitialized(n) == [i \in 1 .. n |-> Garbage]

FailPrint(o) == [o EXCEPT !.ok = FALSE]

\* Writes at a place counted from 0; past the end is an overrun.
Write(o, at, s) ==
  [o EXCEPT !.over = @ \/ at + Len(s) > Len(o.buf),
            !.buf = [i \in DOMAIN @ |-> IF i - at \in DOMAIN s THEN s[i - at] ELSE @[i]]]

\* Room for so many more bytes, and one: twice what is needed, when the buffer
\* may grow; the buffer is gone when there is no more memory.
Grow(o, size) ==
  IF o.left = 0 THEN [FailPrint(o) EXCEPT !.live = @ - 1, !.buf = <<>>, !.gone = TRUE]
  ELSE [o EXCEPT !.left = @ - 1, !.buf = @ \o Uninitialized(size - Len(@))]

Full(o) == Len(o.buf) > 0 /\ o.offset >= Len(o.buf)

\* Mutants of ensure: the byte for the NUL is not asked for; what is there is
\* compared with the size to grow to.
ensure_NoNul(o, n) ==
  LET needed == n - 1 + o.offset
  IN  IF ~ o.ok \/ o.gone \/ Full(o) THEN FailPrint(o)
      ELSE IF needed <= Len(o.buf) THEN o
      ELSE IF o.noalloc THEN FailPrint(o) ELSE Grow(o, needed * 2)
ensure_Twice(o, n) ==
  LET needed == 2 * (n + o.offset + 1)
  IN  IF ~ o.ok \/ o.gone \/ Full(o) THEN FailPrint(o)
      ELSE IF needed <= Len(o.buf) THEN o
      ELSE IF o.noalloc THEN FailPrint(o) ELSE Grow(o, needed)

ensure(o, n) ==
  LET needed == n + o.offset + 1
  IN  IF ~ o.ok \/ o.gone \/ Full(o) THEN FailPrint(o)
      ELSE IF needed <= Len(o.buf) THEN o
      ELSE IF o.noalloc THEN FailPrint(o) ELSE Grow(o, needed * 2)

\* Writes s where the offset is, after making room for n bytes.
WriteHere(o, s) == IF o.ok THEN Write(o, o.offset, s) ELSE o
Put(o, n, s) == WriteHere(ensure(o, n), s)
\* And moves the offset by so many.
Move(o, by) == IF o.ok THEN [o EXCEPT !.offset = @ + by] ELSE o
PutAndMove(o, n, s, by) == Move(Put(o, n, s), by)

\* strlen that finds no NUL runs out of the buffer.
MoveTo(o, i) == [o EXCEPT !.offset = i - 1, !.over = @ \/ AtEnd(o.buf, i)]
update_offset(o) ==
  IF o.ok THEN MoveTo(o, Find(o.buf, o.offset + 1, {NUL})) ELSE o

RECURSIVE DecimalText(_)
DecimalText(n) == IF n < 10 THEN <<48 + n>> ELSE Append(DecimalText(n \div 10), 48 + (n % 10))

NumberText(tenths) ==
  LET abs == IF tenths < 0 THEN -tenths ELSE tenths
  IN  (IF tenths < 0 THEN <<MINUS>> ELSE <<>>) \o DecimalText(abs \div 10)
        \o (IF abs % 10 = 0 THEN <<>> ELSE <<DOT, 48 + (abs % 10)>>)

print_number(item, o) ==
  LET s == NumberText(item.valuedouble)
  IN  PutAndMove(o, Len(s) + 1, Append(s, NUL), Len(s))

\* Mutant of Escaped: control characters are copied.
Escaped_NoControl(c) == IF c \in {QUOTE, BACKSLASH} THEN <<BACKSLASH, c>> ELSE <<c>>

\* A byte of a string as print_string_ptr writes it.
Escaped(c) ==
  LET Hex(n) == IF n < 10 THEN 48 + n ELSE 87 + n
  IN  CASE c \in {QUOTE, BACKSLASH} -> <<BACKSLASH, c>>
        [] c = 8 -> <<BACKSLASH, 98>>
        [] c = 12 -> <<BACKSLASH, 102>>
        [] c = LF -> <<BACKSLASH, 110>>
        [] c = CR -> <<BACKSLASH, 114>>
        [] c = HT -> <<BACKSLASH, 116>>
        [] c \in 0 .. 31 \ {8, 12, LF, CR, HT} ->
             <<BACKSLASH, 117, 48, 48, Hex(c \div 16), Hex(c % 16)>>
        [] OTHER -> <<c>>

\* The escapes are counted first, then written; the closing quote goes where
\* the count says.
Escapes(s) ==
  FoldLeft(LAMBDA n, c : n + (IF c \in {QUOTE, BACKSLASH, 8, 12, LF, CR, HT} THEN 1
                              ELSE IF c < 32 THEN 5 ELSE 0), 0, s)
CloseQuote(o, at) == IF o.ok THEN Write(o, o.offset + at, <<QUOTE, NUL>>) ELSE o
print_string_ptr(s, o) ==
  LET output_length == Len(s) + Escapes(s)
      text == FoldLeft(LAMBDA t, c : t \o Escaped(c), <<QUOTE>>, s)
  IN  IF s = NoString THEN Put(o, 3, <<QUOTE, QUOTE, NUL>>)
      ELSE CloseQuote(Put(o, output_length + 3, text), output_length + 1)

Tabs(n) == [i \in 1 .. n |-> HT]
If(test, s) == IF test THEN s ELSE <<>>

\* The indentation and the name of an object's child.
Indented(o) == IF o.format THEN PutAndMove(o, o.depth, Tabs(o.depth), o.depth) ELSE o
Colon(o) ==
  LET n == IF o.format THEN 2 ELSE 1 IN PutAndMove(o, n, <<COLON>> \o If(o.format, <<HT>>), n)
print_name(c, o) == Colon(update_offset(print_string_ptr(c.string, Indented(o))))

\* What follows a child of an array and of an object.
array_comma(o, last) ==
  LET n == IF o.format THEN 2 ELSE 1
  IN  IF last THEN o
      ELSE PutAndMove(o, n + 1, <<COMMA>> \o If(o.format, <<SP>>) \o <<NUL>>, n)
object_comma(o, last) ==
  LET s == If(~ last, <<COMMA>>) \o If(o.format, <<LF>>)
  IN  PutAndMove(o, Len(s) + 1, Append(s, NUL), Len(s))

Deeper(o) == [o EXCEPT !.depth = @ + 1]
Close(o, n, s, depth) == [Put(o, n, s) EXCEPT !.depth = depth]

RECURSIVE print_value(_, _)

print_array(item, o) ==
  Close(FoldLeftDomain(LAMBDA q, i :
            array_comma(update_offset(print_value(item.child[i], q)), i = Len(item.child)),
          Deeper(PutAndMove(o, 1, <<LBRACKET>>, 1)), item.child),
        2, <<RBRACKET, NUL>>, o.depth)

print_member(c, o) == update_offset(print_value(c, print_name(c, o)))

print_object(item, o) ==
  LET n == IF o.format THEN 2 ELSE 1
  IN  Close(FoldLeftDomain(LAMBDA q, i :
                object_comma(print_member(item.child[i], q), i = Len(item.child)),
              Deeper(PutAndMove(o, n + 1, <<LBRACE>> \o If(o.format, <<LF>>), n)), item.child),
            IF o.format THEN o.depth + 2 ELSE 2,
            If(o.format, Tabs(o.depth)) \o <<RBRACE, NUL>>, o.depth)

print_value(item, o) ==
  IF ~ o.ok THEN o ELSE
  CASE item.type = "NULL" -> Put(o, 5, Append(null, NUL))
    [] item.type = "False" -> Put(o, 6, Append(false, NUL))
    [] item.type = "True" -> Put(o, 5, Append(true, NUL))
    [] item.type = "Number" -> print_number(item, o)
    [] item.type = "Raw" -> IF item.valuestring = NoString THEN FailPrint(o)
                            ELSE Put(o, Len(item.valuestring) + 1, Append(item.valuestring, NUL))
    [] item.type = "String" -> print_string_ptr(item.valuestring, o)
    [] item.type = "Array" -> print_array(item, o)
    [] item.type = "Object" -> print_object(item, o)
    [] OTHER -> FailPrint(o)

Buffer(size, noalloc, format, blocks) ==
  [buf |-> Uninitialized(size), offset |-> 0, depth |-> 0, noalloc |-> noalloc, format |-> format,
   live |-> 0, left |-> blocks, gone |-> FALSE, over |-> FALSE, ok |-> TRUE]
Allocated(size, format, blocks) ==
  LET o == Buffer(size, FALSE, format, blocks)
  IN  IF blocks = 0 THEN [FailPrint(o) EXCEPT !.gone = TRUE]
      ELSE [o EXCEPT !.live = 1, !.left = @ - 1]
Deallocate(o) == IF o.gone THEN o ELSE [o EXCEPT !.live = @ - 1, !.gone = TRUE]

\* cJSON_Print and cJSON_PrintUnformatted, with or without realloc: the text is
\* put into a block of its own size at the end.
ToSize(o) ==
  IF ~ o.ok \/ o.left = 0 THEN Deallocate(FailPrint(o))
  ELSE [o EXCEPT !.left = @ - 1, !.buf = SubSeq(@, 1, o.offset + 1)]
print(item, format, blocks) ==
  ToSize(update_offset(print_value(item, Allocated(DefaultSize, format, blocks))))

OrNothing(o) == IF o.ok THEN o ELSE Deallocate(o)
cJSON_PrintBuffered(item, prebuffer, format, blocks) ==
  OrNothing(print_value(item, Allocated(prebuffer, format, blocks)))

cJSON_PrintPreallocated(item, length, format) ==
  print_value(item, Buffer(length, TRUE, format, 0))
=============================================================================
