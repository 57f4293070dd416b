----------------------------- MODULE HttpParser -----------------------------
(***************************************************************************)
(* picohttpparser.c: requests, responses and header blocks.                *)
(*                                                                         *)
(* A scanner takes a buffer and a position and returns the position where  *)
(* it stopped, or Failed, or Partial when it ran into the end.  The first  *)
(* result that is not a position is the result of the whole parse.         *)
(***************************************************************************)
EXTENDS Bytes

Failed == -1
Partial == -2

Then(r, Scan(_)) == IF r < 0 THEN r ELSE Scan(r)

\* CHECK_EOF: a search that runs into the end is partial.
Search(b, i, S) ==
  LET j == Find(b, i, S) IN IF AtEnd(b, j) THEN Partial ELSE j

\* Mutant of EXPECT_CHAR: the end of the buffer is not checked.
EXPECT_CHAR_NoEof(b, i, c) == IF ~ AtEnd(b, i) /\ b[i] = c THEN i + 1 ELSE Failed

EXPECT_CHAR(b, i, c) ==
  IF AtEnd(b, i) THEN Partial ELSE IF b[i] # c THEN Failed ELSE i + 1

\* token_char_map.
TokenChars == 33 .. 126 \ ({34, 40, 41, 44, 47, 64, 91, 92, 93, 123, 125} \cup 58 .. 63)

\* Up to the first stop; a byte of bad before it fails.
ScanTo(b, i, stop, bad) ==
  LET j == Search(b, i, {stop} \cup bad) IN IF j < 0 \/ b[j] = stop THEN j ELSE Failed

ADVANCE_TOKEN(b, i) == ScanTo(b, i, SP, Controls)

\* Mutant of parse_token: the byte is not checked against token_char_map.
parse_token_AnyByte(b, i, stop) == ScanTo(b, i, stop, {})

parse_token(b, i, stop) == ScanTo(b, i, stop, OtherThan(TokenChars))

SkipSpaces(b, i) == Search(b, i, OtherThan({SP}))

\* Mutant of EndOfLine: the byte after a CR is not looked at.
EndOfLine_Skip(b, i) ==
  IF b[i] = CR THEN i + 2 ELSE IF b[i] = LF THEN i + 1 ELSE Failed

EndOfLine(b, i) ==
  CASE b[i] = CR -> EXPECT_CHAR(b, i + 1, LF)
    [] b[i] = LF -> i + 1
    [] OTHER -> Failed

\* The rest of a line; end is where its text ends.
get_token_to_eol(b, i) ==
  LET end == Search(b, i, Controls \ {HT})
  IN  [buf |-> Then(end, LAMBDA j : EndOfLine(b, j)), end |-> end]

\* How many line ends in a row come before s.at; a result is less than 0.
NextNewline(b, s) ==
  IF s.at < 0 \/ s.seen = 2 THEN s
  ELSE IF AtEnd(b, s.at) THEN [s EXCEPT !.at = Partial]
  ELSE IF b[s.at] \in {CR, LF} THEN [at |-> EndOfLine(b, s.at), seen |-> s.seen + 1]
  ELSE [at |-> s.at + 1, seen |-> 0]

TwoNewlines(b, i) ==
  LET s[n \in 0 .. Len(b) + 1] ==
        IF n = 0 THEN [at |-> i, seen |-> 0] ELSE NextNewline(b, s[n - 1])
  IN  s[Len(b) + 1].at

\* Mutant of is_complete: the search starts at the new bytes.
is_complete_NoStepBack(b, last_len) == TwoNewlines(b, last_len + 1)

\* From three bytes before the new ones, where an end of the headers that was
\* cut in two would begin.
is_complete(b, last_len) ==
  TwoNewlines(b, IF last_len < 3 THEN 1 ELSE last_len - 2)

parse_http_version(b, i) ==
  IF Len(b) - i + 1 < 9 THEN Partial
  ELSE IF SubSeq(b, i, i + 6) = <<72, 84, 84, 80, SLASH, 49, DOT>> /\ b[i + 7] \in Digits
       THEN i + 8 ELSE Failed

\* The headers found so far, where the next line starts or the result, and
\* whether there is a next line to read.
Headers(buf, headers) == [buf |-> buf, headers |-> headers, more |-> FALSE]

HeaderLine(b, headers, name, value, line) ==
  IF line.buf < 0 THEN Headers(line.buf, headers)
  ELSE [buf |-> line.buf, more |-> TRUE, headers |-> Append(headers,
         [name |-> name, value |-> Strip(SubSeq(b, value, line.end - 1), Blanks)])]

HeaderValue(b, headers, name, value) ==
  IF value < 0 THEN Headers(value, headers)
  ELSE HeaderLine(b, headers, name, value, get_token_to_eol(b, value))

\* Where the value starts, after the colon and the blanks.
ValueStart(b, i, colon) ==
  IF colon = i THEN Failed ELSE IF colon < 0 THEN colon ELSE Search(b, colon + 1, OtherThan(Blanks))

HeaderName(b, i, headers, colon) ==
  HeaderValue(b, headers, SubSeq(b, i, colon - 1), ValueStart(b, i, colon))

\* A line of the block: its name (none in a line that goes on from the last
\* one) and its value, without the blanks around it (a line that goes on keeps
\* those it begins with).
NextHeader(b, max_headers, h) ==
  IF ~ h.more THEN h
  ELSE IF AtEnd(b, h.buf) THEN Headers(Partial, h.headers)
  ELSE IF b[h.buf] \in {CR, LF} THEN Headers(EndOfLine(b, h.buf), h.headers)
  ELSE IF Len(h.headers) = max_headers THEN Headers(Failed, h.headers)
  ELSE IF h.headers # <<>> /\ b[h.buf] \in Blanks THEN HeaderValue(b, h.headers, <<>>, h.buf)
  ELSE HeaderName(b, h.buf, h.headers, parse_token(b, h.buf, COLON))

\* One line after the other; each has two bytes at least.
parse_headers(b, i, max_headers) ==
  LET after[n \in 0 .. Len(b) \div 2 + 1] ==
        IF n = 0 THEN [Headers(i, <<>>) EXCEPT !.more = TRUE]
        ELSE NextHeader(b, max_headers, after[n - 1])
  IN  after[Len(b) \div 2 + 1]

\* What a parse returns: the number of bytes consumed, or the error.
Parsed(ret, first, second, headers) ==
  [ret |-> ret, first |-> first, second |-> second, headers |-> headers]
NotParsed(r) == Parsed(r, <<>>, <<>>, <<>>)
AfterHeaders(h, first, second) ==
  IF h.buf < 0 THEN NotParsed(h.buf) ELSE Parsed(h.buf - 1, first, second, h.headers)
WithHeaders(b, i, max_headers, first, second) ==
  IF i < 0 THEN NotParsed(i)
  ELSE AfterHeaders(parse_headers(b, i, max_headers), first, second)

\* Where the method starts, after an empty line, where it ends, and where the
\* path starts.
RequestStart(b) ==
  IF b = <<>> THEN Partial ELSE IF b[1] \in {CR, LF} THEN EndOfLine(b, 1) ELSE 1
MethodEnd(b) == Then(RequestStart(b), LAMBDA i : parse_token(b, i, SP))
PathStart(b) == Then(MethodEnd(b), LAMBDA i : SkipSpaces(b, i))

\* The test for an empty method comes after the spaces that follow the path.
VersionLine(b, pathEnd) ==
  Then(Then(SkipSpaces(b, pathEnd),
            LAMBDA i : IF MethodEnd(b) = RequestStart(b) THEN Failed ELSE parse_http_version(b, i)),
       LAMBDA i : EndOfLine(b, i))

\* Method and path.
AfterPath(b, max_headers, pathEnd) ==
  WithHeaders(b, Then(pathEnd, LAMBDA i : VersionLine(b, i)), max_headers,
    SubSeq(b, RequestStart(b), MethodEnd(b) - 1), SubSeq(b, PathStart(b), pathEnd - 1))
parse_request(b, max_headers) ==
  AfterPath(b, max_headers, Then(PathStart(b), LAMBDA i : ADVANCE_TOKEN(b, i)))

\* Status and message.
Message(b, max_headers, status, line, text) ==
  IF line < 0 THEN NotParsed(line)
  ELSE IF text # <<>> /\ text[1] # SP THEN NotParsed(Failed)
  ELSE WithHeaders(b, line, max_headers, status,
         SubSeq(text, Find(text, 1, OtherThan({SP})), Len(text)))

AfterStatus(b, max_headers, status, msg) ==
  LET line == get_token_to_eol(b, msg)
  IN  IF msg < 0 THEN NotParsed(msg)
      ELSE Message(b, max_headers, SubSeq(b, status, msg - 1), line.buf,
                   SubSeq(b, msg, line.end - 1))

StatusAt(b, max_headers, status) ==
  AfterStatus(b, max_headers, status,
    Then(status, LAMBDA i :
      IF Len(b) - i + 1 < 4 THEN Partial
      ELSE IF \A j \in i .. i + 2 : b[j] \in Digits THEN i + 3 ELSE Failed))

parse_response(b, max_headers) ==
  StatusAt(b, max_headers,
    Then(parse_http_version(b, 1), LAMBDA i : IF b[i] # SP THEN Failed ELSE SkipSpaces(b, i)))

\* A caller that has tried before says how long the buffer was then.
Incremental(b, last_len, parsed) ==
  IF last_len # 0 /\ is_complete(b, last_len) < 0
  THEN NotParsed(is_complete(b, last_len)) ELSE parsed

phr_parse_request(b, max_headers, last_len) ==
  Incremental(b, last_len, parse_request(b, max_headers))

phr_parse_response(b, max_headers, last_len) ==
  Incremental(b, last_len, parse_response(b, max_headers))

phr_parse_headers(b, max_headers, last_len) ==
  Incremental(b, last_len, WithHeaders(b, 1, max_headers, <<>>, <<>>))
=============================================================================
