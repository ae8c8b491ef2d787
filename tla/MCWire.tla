-------------------------------- MODULE MCWire --------------------------------
(* Small inputs for a connection, and a byte of five values. *)
EXTENDS Wire

Array(args) == [text |-> AsArray(args), args |-> args]
Inline(args) == [text |-> AsInline(args), args |-> args]

\* A key of the greatest length its field holds is Base^2 - 1.
LongKey(n) == [i \in 1..n |-> 0]

\* Binary-safe value, two lengths at the limit, an inline and an empty command.
MCCommands ==
  {Array(<<<<SET>>, <<1>>, <<CRLF, 2>>>>),
   Array(<<<<SET>>, LongKey(Base^2 - 1), <<3>>>>),
   Array(<<<<SET>>, LongKey(Base^2), <<4>>>>),
   Inline(<<<<SET>>, <<1>>, <<2>>>>),
   Inline(<< >>),
   [text |-> <<Star, 2, CRLF, Dollar, -1, CRLF, Dollar, 1, CRLF, PING, CRLF>>,
    args |-> << << >>, <<PING>> >>]}

\* The other kinds; one key is too long.
MCKinds ==
  {[tag |-> 1, key |-> <<1>>, by |-> d] : d \in {1, -1}}
    \cup {[tag |-> 1, key |-> LongKey(Base^2), by |-> 1]}
    \cup {[tag |-> t, key |-> <<1>>] : t \in {2, 3}}
    \cup {[tag |-> 4, writes |-> w] :
             w \in {<< >>,
                    <<[key |-> <<1>>, del |-> TRUE],
                      [key |-> LongKey(Base^2 - 1), del |-> FALSE, val |-> <<CRLF>>]>>}}

MCInputs == [1..2 -> MCCommands]
=============================================================================
