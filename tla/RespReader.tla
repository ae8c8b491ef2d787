------------------------------- MODULE RespReader -------------------------------
(***************************************************************************)
(* read_command of crates/onebarrier/src/resp.rs, as what it does with the *)
(* next byte of a connection or with the end of it.  Text is a sequence of *)
(* tokens: a byte of data or a whole decimal number is itself, and CRLF is *)
(* one token.                                                              *)
(***************************************************************************)
EXTENDS Integers, Sequences, SequencesExt

Star == 100
Dollar == 101
CRLF == 102
Space == 103
SET == 104
PING == 105

\* Where the reader is: the line or bulk string so far, and for an array the
\* arguments it has, the number it still wants and the length of the next one.
Fresh == [mode |-> "line", buf |-> << >>, args |-> << >>, want |-> 0, len |-> 0]

More(rd) == [tag |-> "more", rd |-> rd]
Got(args) == [tag |-> "command", args |-> args]
Fails == [tag |-> "error"]
Ends == [tag |-> "end"]

\* parse_int
IsInt(text) == Len(text) = 1 /\ text[1] < Star

\* Inline command: split on whitespace.
Words(line) ==
  LET add(ws, t) == IF t = Space THEN Append(ws, << >>)
                                 ELSE Append(Front(ws), Append(Last(ws), t))
  IN  SelectSeq(FoldLeft(add, << << >> >>, line), LAMBDA w : w # << >>)

ArgRead(rd, arg) ==
  IF rd.want = 1
    THEN Got(Append(rd.args, arg))
    ELSE More([Fresh EXCEPT !.mode = "header", !.args = Append(rd.args, arg),
                            !.want = rd.want - 1])

\* The first line of a command.
LineRead(rd) ==
  LET line == rd.buf
      n == IF IsInt(Tail(line)) THEN line[2] ELSE 0
  IN  CASE line = << >> -> Got(<< >>)
        [] line # << >> /\ line[1] # Star -> Got(Words(line))
        [] line # << >> /\ line[1] = Star ->
             IF ~IsInt(Tail(line)) THEN Fails
             ELSE IF n <= 0 THEN Got(<< >>)
             ELSE More([Fresh EXCEPT !.mode = "header", !.want = n])

\* The line before an argument; the argument and its CRLF are read by count.
HeaderRead(rd) ==
  IF rd.buf = << >> \/ Head(rd.buf) # Dollar \/ ~IsInt(Tail(rd.buf)) THEN Fails
  ELSE IF rd.buf[2] < 0 THEN ArgRead(rd, << >>)
  ELSE More([rd EXCEPT !.mode = "bulk", !.buf = << >>, !.len = rd.buf[2] + 1])

Line(rd) == IF rd.mode = "line" THEN LineRead(rd) ELSE HeaderRead(rd)

\* Mutant: an argument is read up to the end of its line.
FeedLinewise(rd, t) ==
  IF t # CRLF THEN More([rd EXCEPT !.buf = Append(@, t)])
  ELSE IF rd.mode = "bulk" THEN ArgRead(rd, rd.buf) ELSE Line(rd)

Feed(rd, t) ==
  IF rd.mode = "bulk"
    THEN IF Len(rd.buf) + 1 = rd.len THEN ArgRead(rd, rd.buf)
                                     ELSE More([rd EXCEPT !.buf = Append(@, t)])
    ELSE IF t = CRLF THEN Line(rd) ELSE More([rd EXCEPT !.buf = Append(@, t)])

\* The end of the input: a line without its end is taken as complete.
AtEnd(rd) ==
  CASE rd.mode = "line" /\ rd.buf = << >> -> Ends
    [] rd.mode = "header" /\ rd.buf = << >> -> Ends
    [] rd.mode = "bulk" -> Ends
    [] OTHER -> Line(rd)

\* A client's side: a command as an array (resp_cmd of ob_lincheck.rs) or inline.
AsArray(args) ==
  FoldLeft(LAMBDA o, a : o \o <<Dollar, Len(a), CRLF>> \o a \o <<CRLF>>,
           <<Star, Len(args), CRLF>>, args)

AsInline(args) == FoldLeft(LAMBDA o, a : IF o = << >> THEN a ELSE o \o <<Space>> \o a,
                           << >>, args) \o <<CRLF>>
=============================================================================
