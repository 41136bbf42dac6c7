--------------------------- MODULE MCFrameParser ----------------------------
(***************************************************************************)
(* Instances of FrameParser for TLC.  LD_MAX is 3, so that the bodies of   *)
(* four and more tokens are read in several lines.                         *)
(***************************************************************************)
EXTENDS FrameParser, TLC

Send == <<"SE", "ND">>
Ack == <<"ACK">>
Nack == <<"N", "ACK">>
MCCommands == {Send, Ack, Nack}
MCTokens ==
  {"SE", "ND", "N", "ACK", "0", "1", "3", "5", "j", "x", "y", "z", NL, CR, NUL, ContentLength}
MCNumerals == ("0" :> 0) @@ ("1" :> 1) @@ ("3" :> 3) @@ ("5" :> 5)
Len0 == <<ContentLength, "0">>

(* A body with line ends and a command in it, longer than LD_MAX. *)
Long == [name |-> Send, attrs |-> << <<"x", "y">>, <<ContentLength, "5">> >>,
         body |-> <<NL, "SE", "ND", CR, "z">>]
Short == [name |-> Nack, attrs |-> << <<ContentLength, "1">>, <<"x">> >>, body |-> <<"ACK">>]
Empty == [name |-> Ack, attrs |-> << Len0 >>, body |-> <<>>]

MCScripts == {<<Long, Empty>>, <<Empty, Short, Short>>, <<Short, Long>>}

(* Streams a client may send all the same: no content-length; a body with  *)
(* a NUL; a body longer than its content-length; junk before the command;  *)
(* CR NL line ends; a header with a command in it; a line over LD_MAX.     *)
Head3 == Send \o <<NL, ContentLength, "3", NL>>
MCRaw ==
  { Send \o <<NL, "x", NL, NL, "z", NUL>> \o Encode(Empty),
    Head3 \o <<NL, "z", NUL, "z", NUL>>,
    Head3 \o <<NL, "z", "z", "z", "z", "z", NUL>> \o Encode(Empty),
    <<"j", NL, NL>> \o Encode(Empty),
    Send \o <<CR, NL, ContentLength, "1", CR, NL, CR, NL, "z", NUL>> \o Encode(Empty),
    Head3 \o Ack \o <<"x", NL, NL, "z", "z", "z", NUL>>,
    Head3 \o <<"x", "x", "x", "x", "x", NL, NL, "z", "z", "z", NUL>> }

=============================================================================
