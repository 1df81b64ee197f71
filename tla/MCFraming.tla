------------------------------- MODULE MCFraming -------------------------------
(***************************************************************************)
(* Instances of Framing for TLC.  The characters are "a" and "b", the      *)
(* digit "1" and the wide "w".                                             *)
(***************************************************************************)
EXTENDS Framing

CONSTANTS write, call, tell, forget

MCCharacters == {"a", "b", "1", "w"}
MCWide == {"w"}
MCDigits == {"1"}
MCEndOf == [t \in Senders |-> IF t \in {write, call} THEN "client" ELSE "server"]

Msg(prop, v) == [prop |-> prop, value |-> v, deleted |-> FALSE]
X == <<"x", <<>>>>
Y == <<"y", <<>>>>
Cmd == <<"command", <<>>>>
MCCommands == {Cmd}
Element1 == <<"x", << <<"a">>, <<>> >> >>
Element2 == <<"x", << <<"a">>, <<"1">> >> >>
Entry(k, v) == Assoc([i \in {k} |-> v])

\* Commands that read as a text and as a number; values of a text that is cut
\* within a character, in errors and arrays also of one that is not; an array that
\* cannot be sent.
Cmds == {Msg(Cmd, Str(<<"a", "b">>)), Msg(Cmd, Str(<<"1">>))}
Values == {NoValue, Str(<<"w">>),
           Err(<<"w", "a">>), Strs(<<2>>, <<<<"w">>, <<"a">>>>), Strs(<<2>>, <<<<"a">>, <<>>>>),
           Arr(<<"float", 4>>, <<1, 2>>, <<"e1", "e2">>), Arr(<<"int", 2>>, <<2, 1>>, <<"e1", "e2">>),
           Arr(<<"complex", 8>>, <<1>>, <<"e1">>), Assoc([i \in {} |-> NoValue]),
           Assoc([i \in {<<"a">>, <<"a", "KS", "1">>} |->
                     IF i = <<"a">> THEN Str(<<"w">>) ELSE Num(<<"1">>)])}

MCContents == [t \in Senders |->
    CASE t = write  -> {Msg(Element2, Num(<<"1">>))}
      [] t = call   -> Cmds \cup {Msg(Y, v) : v \in Values}
      [] t = tell   -> {Msg(X, Assoc([k \in {<<"a">>, <<"b">>} |-> Str(<<"1">>)])),
                        Msg(Y, Arr(<<"int", 2>>, <<2>>, <<"e1", "e2">>)),
                        Msg(Element1, Str(<<"b">>))}
      [] t = forget -> {[prop |-> p, value |-> IF p = X THEN Entry(<<"a">>, NoValue) ELSE NoValue,
                         deleted |-> TRUE] : p \in {X, Element1}}]

\* Without those a reader rejects by themselves.
PlainContents == [MCContents EXCEPT ![call] =
    {Msg(Y, v) : v \in {NoValue, Str(<<"a", "b">>), Num(<<"1", "1">>), Err(<<"a">>)}}]

\* The order the server's machine has does not matter, whether the client's is
\* the same does.
MCMachines == {[e \in Ends |-> IF e = "server" THEN "<" ELSE o] : o \in Orders}

\* On these messages the codec does what the theorems about the connection ask.
ASSUME CodecRoundTrip == RoundTrip /\ RejectsOnly

SmallMarks == [e \in Ends |-> IF e = "client" THEN {3, 5} ELSE {100}]
TinyMarks == [e \in Ends |-> {3}]
ClientOnly == {"client"}
NoEnds == {}
================================================================================
